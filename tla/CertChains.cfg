SPECIFICATION CSpec
CONSTANTS
    R1 = R1
    R2 = R2
    C1 = C1
    C2 = C2
    S1 = S1
    S2 = S2
    M = M
    NoTime = NoTime
    Empty = "none"
    Times = {1, 2}
    MaxChainDepth = 3
    MaxCerts = 4
    Authority <- MCAuthority
    Registered <- MCRegistered
    Rogues = {M}
    Claims <- MCClaims
    ShapesOf <- MCShapesOf
    Anchors <- MCAnchors
INVARIANTS
    AcceptedIsVouched
    AnchorsIndependent
    PairHasOneIssuer
CHECK_DEADLOCK FALSE
