SPECIFICATION FairBatchSpec
CONSTANTS
    w1 = w1
    b = b
    c1 = c1
    c2 = c2
    NoJob = NoJob
    Workers <- MCWorkers
    BatchWorker = b
    CFDIs <- TwoCFDIs
    Kinds <- MCKinds
    SharedConnector = FALSE
    MaxSubmissions = 1
    MaxCrashes = 1
    MaxReruns = 1
CHECK_DEADLOCK FALSE
INVARIANTS
    CheckpointSound
    FinishedAccountsForAll
PROPERTIES
    BatchImplementsLedger
    BatchEnds
