\* approval_timeout_seconds and the bound of the rule are equal, and the for of the rule
\* and the timeout of the audit are a minute each.
SPECIFICATION AlertSpec
CONSTANTS
    Workflows = {w1}
    Earlier = {}
    Verdicts = {"approved", "timed-out"}
    Scrapers = {prometheus}
    Prometheus = prometheus
    ListLimit = 1
    MaxFaults = 0
    ApprovalTimeout = 3
    AuditTimeout = 1
    AlertThreshold = 3
    AlertFor = 1
    MaxTime = 8
INVARIANT TimeoutAlerted
CHECK_DEADLOCK FALSE
