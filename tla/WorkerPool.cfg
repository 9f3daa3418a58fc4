CONSTANTS
    N = 2
    PipeCap = 2
    Sizes = {1, 3}
    Requests <- MCRequests
    MaxRequests = 3
    MaxCrashes = 1
SPECIFICATION Spec
CHECK_DEADLOCK FALSE
INVARIANTS
    AnswersInOrder
    QuietWhenIdle
    PanicOnlyAfterCrash
PROPERTIES
    SendComesBack
    WorkersExit
