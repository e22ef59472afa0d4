SPECIFICATION RSpec
CONSTANTS
  BS = 3
  Bytes <- MCBytes
  Xor <- MCXor
  E <- MCE
  IV <- MCIV
  Batch = 2
  None = None
  Inputs = {1, 2}
  MaxLen = 6
INVARIANT
  RetryRecovers
CHECK_DEADLOCK FALSE
