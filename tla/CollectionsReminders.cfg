SPECIFICATION Spec
CONSTANTS
    Workers = {w1, w2}
    Keys = {k1, k2}
SYMMETRY Symmetry
INVARIANTS
    OneReminder
    QueueTellsTruth
PROPERTY CancelHolds
