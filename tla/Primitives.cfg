SPECIFICATION PrimitivesSpec
CONSTANTS
    BlockSize = 4
    LengthSize = 2
    DigestSize = 3
    MaxFed = 9
    None = None
    Keys <- MCKeys
    FieldP = 43
    CurveB = 10
    OrderN = 37
    Gx = 6
    Gy = 6
    Bits = 6
    Window = 2
    EncryptRetryBudget = 3
    BlockUnits = 2
    CounterMax = 2
    Keys2 = {0, 1, 17, 35, 36}
    Draws = {0, 1, 2, 37}
    ESet <- MCDigests
    VerifyEs = {0, 9}
    IdLens = {8191, 8192}
    Plaintexts <- MCPlaintexts
    Rs = {0, 1, 5, 11, 36, 37, 63}
    Zs = {1, 5}
    Failed = Failed
    Pending = Pending
    HLen = 4
    MaxCounter = 3
    Iterations = {0, 1, 2, 3}
    MaxOut = 13
    FieldBytes = 2
    HashBytes = 2
    KeyBytes = 3
    MaxIterations = 10000000
    Pem64 = 64
    MaxBlocks = 9
    SectorSize = 64
    SectorCount = 3
    Bases <- MCBases
    UnitLens = {0, 15, 16, 20, 31, 47, 80, 143, 144, 145}
    BadSizes = {0, 8, 20, 160}
    UnitHosts <- MCUnitHosts
    DiskHosts <- MCDiskHosts
    LaneHosts <- MCLaneHosts
    ProductHosts <- MCProductHosts
    LaneFirsts = {0, 1, 2, 3, 4, 5, 6, 7}
    Blocks128 <- MCBlocks128
INVARIANTS
    XtsExact
    BackEndsAgree
    PointsExact
    SignExact
    CipherExact
    KeysExact
    CodecsStrict
    DigestIsReference
    VerifyExact
CHECK_DEADLOCK FALSE
