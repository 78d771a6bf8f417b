SPECIFICATION FairSpec
CONSTANTS
  MaxBytes = 4
  MaxChunk = 3
  MaxFile = 6
  None = None
  Invalid = Invalid
  Error = Error
CHECK_DEADLOCK FALSE
INVARIANTS BufferIsBounded AcceptedIsWhole
PROPERTY ReadsEnd
