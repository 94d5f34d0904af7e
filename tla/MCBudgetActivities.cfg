CONSTANTS
    Workflows = {w1, w2, w3}
    BudgetLimit = 1
    MaxTokens = 2
    MaximumAttempts = 3
    NONE = NONE
SPECIFICATION Spec
SYMMETRY Symmetry
INVARIANTS
    TypeOK
    SpendRecordedOnce
    TokensCounted
CHECK_DEADLOCK FALSE
