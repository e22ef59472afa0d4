SPECIFICATION ASpec
CONSTANTS
  BS = 3
  W = 4
  QW = 7
  Ks <- MCKs
  J0 = 2
  Ceiling = 6
  TagLens = {4, 16}
  BadTagLen = 5
  Declared = {0, 4, 6, 7}
  SenderAad <- MCSenderAad
  ReceiverAads <- MCReceiverAads
  Payloads <- MCPayloads
  MaxLen = 10
  None = None
INVARIANTS
  StreamEqualsSingleShot
  KeystreamNeverRepeats
  CommitOnVerify
  GenuineAccepted
CHECK_DEADLOCK FALSE
