SPECIFICATION Spec
CONSTANTS
    r1 = r1
    r2 = r2
    r3 = r3
    r4 = r4
    k1 = k1
    k2 = k2
    b1 = b1
    b2 = b2
    NoEntry = NoEntry
    Nobody = Nobody
    Requests <- MCRequests
    Keys <- MCKeys
    Bodies <- MCBodies
    MaxExpiries = 1
    MaxFailures = 1
SYMMETRY Symmetry
CHECK_DEADLOCK FALSE
INVARIANTS
    AnswersAreOwn
    HeldKeyIsNotExecuted
