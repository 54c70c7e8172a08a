SPECIFICATION Spec
CONSTANTS
  Lengths = {1, 2}
  Capacity = 3
  NoBuffer = NoBuffer
  MaxLines = 4
INVARIANTS StopWritesAll
CHECK_DEADLOCK FALSE
