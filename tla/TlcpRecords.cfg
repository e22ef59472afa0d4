SPECIFICATION RSpec
CONSTANTS
    BlockSize = 4
    LengthSize = 1
    DigestSize = 4
    CipherBlock = 2
    MaxPlaintext = 4
    PadMax = 3
    Types = {"handshake", "data"}
    Payloads <- MCPayloads
    MaxRecords <- MCRecords
    Junk <- MCJunk
    None = None
INVARIANTS
    InOrder
    NextAccepted
    OpensExactly
    NoncesDiffer
CHECK_DEADLOCK FALSE
