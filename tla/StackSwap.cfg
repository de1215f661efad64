SPECIFICATION Spec
CONSTANTS
  Ctx = {c1, c2}
  NULL = NULL
  Val = {v1, v2}
  Foreign = foreign
  MaxDepth = 3
CHECK_DEADLOCK FALSE
INVARIANTS
  TypeOK
  FramesRestored
  OuterIntactUnlessShrunk
