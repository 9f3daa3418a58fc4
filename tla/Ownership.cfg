CONSTANTS
    c1 = c1
    c2 = c2
    Calls = {c1, c2}
    None = None
    Reentrant = TRUE
    PostLen = 1
    ReadSizes = {2}
    Codes = {}
    MaxChunks = 1
    MaxHeaders = 0
    MaxLogs = 1
SPECIFICATION Spec
CHECK_DEADLOCK FALSE
INVARIANTS
    TypeOK
    StaleOnlyAfterFailedStartup
    FaultsOnlyAfterFailedStartup
    OnlyPanicsLeak
PROPERTIES
    FreedAfterShutdown
    EveryCallReturns
    OpenRequestIsClosed
