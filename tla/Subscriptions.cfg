SPECIFICATION Spec
CONSTANTS
    Workers = {w1, w2}
    MaxSubs = 2
    MaxEvents = 2
    MaxBilled = 2
SYMMETRY Symmetry
INVARIANTS
    LiveIsCurrent
    FollowsProvider
PROPERTY CanceledStays
