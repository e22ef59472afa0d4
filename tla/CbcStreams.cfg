SPECIFICATION SSpec
CONSTANTS
  BS = 3
  Bytes <- MCBytes
  Xor <- MCXor
  E <- MCE
  IV <- MCIV
  Batch = 2
  None = None
  Inputs = {1, 2}
  MaxLen = 9
INVARIANTS
  StreamEqualsSingleShot
  RoundTrip
  HoldsBackOne
PROPERTY
  DocumentedRoomSuffices
CHECK_DEADLOCK FALSE
