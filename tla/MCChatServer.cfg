SPECIFICATION Spec
CONSTANTS
  Client = {a, b, c}
  NULL = NULL
  Fd = {1, 2}
  MaxSent = 1
  MaxGone = 1
  MaxTalkers = 2
  MaxFull = 2
SYMMETRY Clients
CONSTRAINTS FewGone FewTalkers FewFull Running
CHECK_DEADLOCK FALSE
INVARIANTS
  TypeOK
  InReadingOrder
  EventsAreCurrent
  ArmedIffPending
  BroadcastUnlessFailed
  NoneLeftBehind
  KilledOnlyInRace
