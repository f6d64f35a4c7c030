SPECIFICATION Spec
CONSTANTS
  Bytes = {0, 1}
  Width = 3
  Sizes = {0, 1, 2, 3, 4}
  MaxLen = 3
  ExtraSize = 2
CHECK_DEADLOCK FALSE
INVARIANTS
  LeastPowerOfTwo
PROPERTIES
  FifoSteps
  WritesInside
