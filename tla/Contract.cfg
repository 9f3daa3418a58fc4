CONSTANTS
    c1 = c1
    c2 = c2
    Calls = {c1, c2}
    None = None
    Reentrant = FALSE
    PostLen = 2
    ReadSizes = {1}
    Codes = {700}
    MaxChunks = 2
    MaxHeaders = 1
    MaxLogs = 1
SYMMETRY CallSymmetry
SPECIFICATION Spec
CHECK_DEADLOCK FALSE
INVARIANTS
    RunsInOwnContext
    PostReadOnce
    HeadersBeforeBody
    ContextHoldsWhatWasSaid
PROPERTIES
    ImplementsContract
