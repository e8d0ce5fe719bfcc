CONSTANTS
  LongLen = 12
  ShortLen = 8
  Buffers <- MCBuffers
SPECIFICATION Spec
CHECK_DEADLOCK FALSE
INVARIANTS SearchInv ReturnsTheFirst ReadsAreDefined
PROPERTY Returns
