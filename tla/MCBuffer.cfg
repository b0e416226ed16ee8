CONSTANTS
  Zero = zero
  Bytes = {zero, b}
  CheapPrepend = 2
  InitialSize = 2
  ExtraBuf = 2
  MaxChunk = 3
  MaxSize = 7
SPECIFICATION Spec
INVARIANTS
  TypeOK
PROPERTIES
  ImplementsByteQueue
  GrowsOnlyIfNeeded
