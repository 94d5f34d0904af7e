SPECIFICATION LiveSpec
CONSTANTS
    Workflows = {w1, w2, old}
    Earlier = {old}
    Verdicts = {"decided"}
    Scrapers = {prometheus, operator}
    Prometheus = prometheus
    ListLimit = 2
    MaxFaults = 1
INVARIANTS
    TypeOK
    GaugesTracked
PROPERTIES
    ScrapeIsFresh
    PendingIsShown
    GaugeIsCleared
