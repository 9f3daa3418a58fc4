CONSTANTS
    None = None
    Base = 8
    MaxRuns = 2
    Suites = 1
    MaxTries = 1
    MaxAsks = 2
    MaxCrashes = 1
    Segment = 4
    Scripts = {4}
    Bodies = {0, 63, 64}
SPECIFICATION Spec
CHECK_DEADLOCK FALSE
INVARIANTS
    FpmAnswersForItself
    OnlyOrphansOutlive
    RequestReadAsMeant
    AnswerOnlyCutAtTheEnd
PROPERTIES
    RunEnds
