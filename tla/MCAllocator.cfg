SPECIFICATION Spec
CONSTANTS
  Words = 10
  Handle = {p, q, r}
  Sizes = {1, 2}
  MaxSince = 2
  NULL = NULL
SYMMETRY Handles
CHECK_DEADLOCK FALSE
INVARIANTS
  TypeOK
  NodesTile
  BlocksKept
  FreeNodesJoined
PROPERTIES
  CallsKeepContents
