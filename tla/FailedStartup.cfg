CONSTANTS
    c1 = c1
    c2 = c2
    Calls = {c1, c2}
    None = None
    Reentrant = FALSE
    PostLen = 1
    ReadSizes = {2}
    Codes = {}
    MaxChunks = 1
    MaxHeaders = 0
    MaxLogs = 0
SPECIFICATION Spec
CHECK_DEADLOCK FALSE
INVARIANTS
    NoUseAfterFree
