SPECIFICATION FairSpec
CONSTANTS
    t1 = t1
    t2 = t2
    t3 = t3
    Threads <- MCThreads
    FailureThreshold = 2
    RecoveryTimeout = 2
    HalfOpenMaxCalls = 2
    SuccessThreshold = 2
    MaxManual = 1
INVARIANTS
    ProbesArePermitted
    NoLostPermit
PROPERTIES
    ClosesOnVerdict
    EpisodeEnds
    OpenEnds
