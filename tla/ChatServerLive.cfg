SPECIFICATION FairSpec
CONSTANTS
  Client = {a, b}
  NULL = NULL
  Fd = {1, 2}
  MaxSent = 1
  MaxGone = 1
  MaxTalkers = 2
  MaxFull = 1
CONSTRAINTS FewGone FewFull
CHECK_DEADLOCK FALSE
PROPERTIES
  ServesEveryone
  AcceptsEveryone
  ShutsDown
