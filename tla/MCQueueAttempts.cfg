CONSTANTS
    j1 = j1
    t1 = t1
    t2 = t2
    t3 = t3
    w1 = w1
    None = None
    Ids <- MCIds
    Tokens <- MCTokens
    Delays <- MCDelays
    Workers <- MCWorkers
    Unhandled = {}
    Backoff <- MCBackoff
    MaxAttempts = 2
    Visibility = 1
    Heartbeat = FALSE
    AllowFlush = FALSE
    MaxFaults = 1

SPECIFICATION CountedSpec

INVARIANT FailuresWithinLimit
