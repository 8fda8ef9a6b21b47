SPECIFICATION Spec
CONSTANTS
    d1 = d1
    d2 = d2
    t1 = t1
    t2 = t2
    None = None
    Downlink = {d1, d2}
    Invalid = {d2}
    Threads = {t1, t2}
    BatchSize = 2
    MaxClock = 1
    MaxFaults = 0
CHECK_DEADLOCK FALSE
INVARIANT
    ResultsFollowQueueing
