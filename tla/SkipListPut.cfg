SPECIFICATION Spec
CONSTANTS
  Key = {1, 2}
  Value = {v1, v2}
  NULL = NULL
  Head = Head
  Tail = Tail
  MAXHEIGHT = 1
PROPERTIES
  ImplementsMap
