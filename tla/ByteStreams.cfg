CONSTANTS
  ByteBits = 4
  MaxFields = 2
  MaxName = 4
  MaxReason = 3
  kPaddingStreamType = 40000
  kPaddingDatagramType = 40001
  Scripts <- AllScripts
SPECIFICATION Spec
INVARIANTS DecodedAsSent VerdictExact BufferIsTail
