CONSTANTS
    t1 = t1
    t2 = t2
    t3 = t3
    Threads <- MCThreads
    MaxCalls = 2
    MaxShutdowns = 1
SPECIFICATION Spec
CHECK_DEADLOCK FALSE
INVARIANTS
    TypeOK
    StartedOnce
    SameAnswer
    UpWhileHeld
PROPERTIES
    NoRevival
    AskIsAnswered
