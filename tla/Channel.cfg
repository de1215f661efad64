SPECIFICATION Spec
CONSTANTS
  Sizes = {0, 1, 3, 4}
  Lengths = {0, 1, 2, 3, 5}
  MaxRead = 7
CHECK_DEADLOCK FALSE
INVARIANTS
  TypeOK
  LatestWriteReadFirst
  WritesOnce
