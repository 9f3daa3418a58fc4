CONSTANTS
    N = 1
    PipeCap = 2
    Sizes = {1}
    Requests <- MCWithABody
    MaxRequests = 1
    MaxCrashes = 0
SPECIFICATION Spec
CHECK_DEADLOCK FALSE
INVARIANTS
    RequestArrivesIntact
