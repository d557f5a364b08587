SPECIFICATION FairSpec
CONSTANTS
    w1 = w1
    w2 = w2
    c1 = c1
    NoJob = NoJob
    Workers <- TwoWorkers
    CFDIs <- OneCFDI
    Folio <- OwnFolio
    Kinds <- MCKinds
    MaxSubmissions = 3
    MaxFailures = 1
CHECK_DEADLOCK FALSE
INVARIANTS
    PolizaIsJustified
    EscalationIsReviewed
    AutoProcessedIsBacked
    OnePolizaPerCFDI
    RowsAreAccountedFor
PROPERTY AttemptEnds
