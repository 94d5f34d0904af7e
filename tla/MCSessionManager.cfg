CONSTANTS
    Jtis = {j1, j2}
    Proofs = {p1}
    Keys = {k1}
    Second = 2
    TokenExpirySeconds = 1
    Lifetimes = {2}
    DPoPProofTtlSeconds = 1
    DPoPClockSkewSeconds = 1
    MaxNow = 9
    NONE = NONE
SPECIFICATION Spec
SYMMETRY Symmetry
INVARIANTS
    TypeOK
    RevocationHolds
    OneLiveTokenPerKey
    AcceptancesBounded
CHECK_DEADLOCK FALSE
