CONSTANTS
    s1 = s1
    s2 = s2
    w = w
    None = None
    Sleepers <- MCSleepers
    Workers = {w}
    Capacity = 1
    Plans <- MCPlans
    MaxTime = 1
    f1 = f1
    c1 = c1
    c2 = c2
    MaxSpans = 2
    MaxMetrics = 1
    MaxQueueSize = 2
    MaxBatchSize = 2
    MaxAttempts = 2
    Flushers = {f1}
    Stoppers = {c1, c2}
SPECIFICATION MCSpec
INVARIANTS RuntimeTypeOK LossCounted ReturnsTell
PROPERTIES ResumedOnce SleepEnds
CHECK_DEADLOCK FALSE
