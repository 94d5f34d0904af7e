CONSTANTS
    Approvers = {a1}
    Requests = {q1}
    MaximumAttempts <- OneAttempt
    NONE = NONE
SPECIFICATION HitlSpec
INVARIANTS
    LateDecisionRefused
CHECK_DEADLOCK FALSE
