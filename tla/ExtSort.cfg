SPECIFICATION FairSpec
CONSTANTS
  Value = {0, 1, 2}
  BUF_LEN = 4
  ways = 2
  MaxLen = 5
  NULL = NULL
CHECK_DEADLOCK FALSE
INVARIANTS
  TypeOK
  MergeIsDead
  WritesLeast
PROPERTIES
  Terminates
