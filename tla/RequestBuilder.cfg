CONSTANTS
    Texts = {"a", "b"}
    Nul = Nul
    None = None
    Opaque = Opaque
    BodySizes = {0, 5}
    MaxCalls = 3
SPECIFICATION Spec
CHECK_DEADLOCK FALSE
INVARIANTS
    InfoMatchesServer
    BodyIsDescribed
    RequestLineKept
    CallersIniWins
    FirstEnvWins
