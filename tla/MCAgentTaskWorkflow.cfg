CONSTANTS
    Approvers = {a1, a2}
    MaximumAttempts <- CodeAttempts
    NONE = NONE
SPECIFICATION LiveSpec
INVARIANTS
    TypeOK
    GovernedCalls
    VerdictIsLastSignal
    AuditAgreesWithVerdict
    OutcomeConsistent
    RetriesAudited
PROPERTIES
    ImplementsGate
    Terminates
CHECK_DEADLOCK FALSE
