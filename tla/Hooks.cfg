CONSTANTS
    Call = Call
    None = None
    NoHeader = NoHeader
    Lines <- MCLines
    Codes = {700}
    RawLevels <- MCRawLevels
    MaxChunks = 2
    MaxHeaders = 2
    MaxLogs = 2
SPECIFICATION Spec
CHECK_DEADLOCK FALSE
INVARIANTS
    HooksHearAll
    ResultAsReported
PROPERTIES
    ImplementsContract
