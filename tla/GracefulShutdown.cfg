SPECIFICATION FairSpec
CONSTANTS
    Threads = {t1, t2, t3}
    MinSize = 1
    MaxAllowed = 2
    MaxConns = 4
INVARIANTS
    ExclusiveUse
    PoolIsBounded
    StopLeavesNothing
PROPERTIES
    ImplementsLending
    ShutdownEnds
CHECK_DEADLOCK FALSE
