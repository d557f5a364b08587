SPECIFICATION Spec
CONSTANTS
    w1 = w1
    w2 = w2
    c1 = c1
    c2 = c2
    NoJob = NoJob
    Workers <- OneWorker
    CFDIs <- MCCFDIs
    Kinds <- MCKinds
    SharedConnector = FALSE
    MaxSubmissions = 2
CHECK_DEADLOCK FALSE
INVARIANT PersistFirst
