CONSTANTS
    Workflows = {w1, w2}
    BudgetLimit = 2
    MaxTokens = 3
    MaximumAttempts = 3
    NONE = NONE
SPECIFICATION Spec
INVARIANTS
    SessionLimitHolds
CHECK_DEADLOCK FALSE
