CONSTANTS
    c1 = c1
    c2 = c2
    v = v
    g1 = g1
    g2 = g2
    g3 = g3
    r1 = r1
    r2 = r2
    None = None
    Clients <- MCClients
    Validator = v
    Size = 1
    MayExpire <- MCMayExpire
    MayCancel <- MCMayCancel
    Guards <- MCGuards
    Engines = {"sqlite", "postgresql", "mysql", "mssql"}
    ErrorsHandled = FALSE
    MaxFaults = 2
    Runners <- MCRunners
    Count = 3
    Kinds = {"atomic", "each"}
    MaxRuns = 4
    MaxMishaps = 1
SPECIFICATION MCSpec
INVARIANTS DatabaseTypeOK Exclusive PublishedIsDurable CalledOnce CleanReturn AppliedInOrder
PROPERTIES AcquireReturns EndsOwnScope
CHECK_DEADLOCK FALSE
