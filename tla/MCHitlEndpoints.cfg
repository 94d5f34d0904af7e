CONSTANTS
    Approvers = {a1, a2}
    Requests = {q1, q2}
    MaximumAttempts <- OneAttempt
    NONE = NONE
SPECIFICATION HitlSpec
SYMMETRY Symmetry
INVARIANTS
    HitlTypeOK
    DecisionHasAuthor
    CallHasApprover
    RecordedDecisionStands
CHECK_DEADLOCK FALSE
