SPECIFICATION FairSpec
CONSTANTS
    w1 = w1
    w2 = w2
    m1 = m1
    m2 = m2
    m3 = m3
    NoMsg = NoMsg
    Workers <- MCWorkers
    Messages <- MCMessages
    Rank <- MCRank
    Delays <- MCDelays
    MaxRetries = 1
    Backoff = 1
    MaxAttempts = 2
    Burst = 2
    Rate = 1
INVARIANTS
    OnePlace
    RateRespected
PROPERTIES
    Settles
    ImplementsJobs
