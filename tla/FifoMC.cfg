SPECIFICATION Spec
CONSTANTS
  Byte = {b1, b2}
  Blank = blank
  Size = 4
  MaxAccepted = 9
INVARIANTS
  ReadsInOrder
  HoldsUnread
PROPERTY
  ImplementsQueue
CHECK_DEADLOCK FALSE
