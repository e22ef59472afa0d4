SPECIFICATION DSpec
CONSTANTS
    BlockSize = 4
    LengthSize = 2
    DigestSize = 3
    MaxFed = 2
    None = None
    Keys <- MCKeys
INVARIANTS
    FinalizeFrees
CHECK_DEADLOCK FALSE
