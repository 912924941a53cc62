CONSTANTS
  BufLen = 9
  ItemSize = 9
  MaxMsg = 9
  Total = 27
SPECIFICATION Spec
INVARIANTS InBounds TypeOK Contents InOrder
CHECK_DEADLOCK FALSE
