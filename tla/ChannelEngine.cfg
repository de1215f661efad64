SPECIFICATION CSpec
CONSTANTS
  Ctx = {c1, c2, c3}
  NULL = NULL
  Id = {i1, i2}
  Sizes = {0, 1, 2}
  Lengths = {0, 1, 2}
CHECK_DEADLOCK FALSE
INVARIANTS
  CTypeOK
  FillWithinBuffer
  BlockedNeverSuspended
  HandOffsAreDead
PROPERTIES
  EngineSpec
