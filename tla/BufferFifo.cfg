SPECIFICATION Spec
CONSTANTS
  Bytes = {0, 1}
  CheapPrepend = 1
  InitialSize = 2
  ExtraSize = 2
  MaxLen = 3
  MaxContent = 4
INVARIANTS
  TypeOK
  SizeBounded
PROPERTIES
  ImplementsFifo
