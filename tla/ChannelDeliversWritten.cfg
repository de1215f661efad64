SPECIFICATION Spec
CONSTANTS
  Sizes = {3}
  Lengths = {0, 1, 2}
  MaxRead = 4
CHECK_DEADLOCK FALSE
INVARIANTS
  DeliversWritten
