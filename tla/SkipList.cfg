SPECIFICATION Spec
CONSTANTS
  Key = {1, 2, 3}
  Value = {v1, v2}
  NULL = NULL
  Head = Head
  Tail = Tail
  MAXHEIGHT = 2
INVARIANTS
  TypeOK
  WellFormed
  SearchExact
PROPERTIES
  MapExceptReplace
