SPECIFICATION CloseSpec
CONSTANTS
    LastStep = 4
    NeedsApproval = {2, 4}
    Calcs = {1, 2}
    PostStep = 3
    MaxRuns = 2
PROPERTY ClosedMeansApproved
