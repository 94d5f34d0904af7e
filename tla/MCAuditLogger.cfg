CONSTANTS
    Threads = {t1, t2}
    Tasks = {k1, k2}
    Stages = {s1}
    MaxClock = 1
    MaxCalls = 2
    MaxRestarts = 1
    NONE = NONE
SPECIFICATION Spec
SYMMETRY Symmetry
INVARIANTS
    TypeOK
    NumbersUnique
    Gapless
    TimestampsFollowNumbers
CHECK_DEADLOCK FALSE
