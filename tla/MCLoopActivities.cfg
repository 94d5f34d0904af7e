SPECIFICATION Spec
CONSTANTS
    Workers = {w1, w2}
    Keys = {k1, k2}
    TokenDeltas = {2, 3}
    MaxAgentSteps = 3
    MaxTokenVelocity = 2
    MaxSteps = 5
    MaximumAttempts = 2
    NONE = NONE
SYMMETRY MCSymmetry
INVARIANTS
    TypeOK
    AuditTellsOneStory
    BreakersHold
PROPERTIES
    ImplementsUninterrupted
    CheckpointFollowsCalls
