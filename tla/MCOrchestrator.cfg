CONSTANTS
    Requests = {r1, r2}
    BudgetLimit = 2
    MaxTokens = 2
    TokenDeltas = {1}
    MaxSessions = 2
    MaxAgentSteps = 2
    MaxTokenVelocity = 1
    NONE = NONE
SPECIFICATION Spec
SYMMETRY Symmetry
INVARIANTS
    TypeOK
    LedgersMatchAudit
    ReturnedWithinLimit
    
PROPERTIES
    FurtherCallsRejected
CHECK_DEADLOCK FALSE
