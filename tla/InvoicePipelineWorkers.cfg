SPECIFICATION Spec
CONSTANTS
    w1 = w1
    w2 = w2
    c1 = c1
    c2 = c2
    NoJob = NoJob
    Workers <- TwoWorkers
    CFDIs <- MCCFDIs
    Kinds <- MCKinds
    SharedConnector = TRUE
    MaxSubmissions = 4
CHECK_DEADLOCK FALSE
INVARIANTS
    OnlyEligiblePosted
    ProcessedNoticeIsBacked
    AtMostOnePoliza
PROPERTIES
    OnlyFailureOrphans
    ImplementsLedger
