CONSTANTS
    s1 = s1
    s2 = s2
    u1 = u1
    u2 = u2
    u3 = u3
    c1 = c1
    c2 = c2
    x = x
    y = y
    None = None
    NoLease = NoLease
    NoFile = NoFile
    Servers <- MCServers
    Width = 2
    OneServerTtl = 4
    OverlapTtls = {1, 3}
    Lag = 2
    MaxTime = 4
    MaxFaults = 1
    Users <- MCUsers
    MaxCalls = 4
    MaxLapses = 2
    MaxErrors = 1
    Callers <- MCCallers
    Objects <- MCObjects
    MaxOps = 3
    TempNames = {1, 2}
    Attempts = 2
    MaxCrashes = 1
SPECIFICATION SharedSpec
SYMMETRY Symmetry
INVARIANTS SharedTypeOK OncePerSlot NoOverlap OneStartPerMiss WholeObjects ReturnedIsDurable
PROPERTY FreesOwn
CHECK_DEADLOCK FALSE
