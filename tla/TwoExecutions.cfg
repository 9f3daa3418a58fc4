CONSTANTS
    t1 = t1
    t2 = t2
    t3 = t3
    Threads <- MCThreads
    MaxCalls = 1
    MaxShutdowns = 0
SPECIFICATION Spec
CHECK_DEADLOCK FALSE
INVARIANT OneRequestAtATime
