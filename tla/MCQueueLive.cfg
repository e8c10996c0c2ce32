CONSTANTS
    j1 = j1
    j2 = j2
    t1 = t1
    t2 = t2
    t3 = t3
    t4 = t4
    w1 = w1
    w2 = w2
    None = None
    Ids <- MCIds
    Tokens <- MCTokens
    Delays <- MCDelays
    Workers <- MCWorkers
    Unhandled <- MCUnhandled
    Backoff <- MCBackoff
    MaxAttempts = 2
    Visibility = 2
    Heartbeat = TRUE
    AllowFlush = FALSE
    MaxFaults = 1

SPECIFICATION FairSpec



INVARIANT OverlapOnlyAfterLostLease
PROPERTY EverySettled
