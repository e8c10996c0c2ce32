CONSTANTS
    worker = worker
    scheduler = scheduler
    Late = Late
    None = None
    Services <- MCServices
    MayFail <- MCServices
    Limited = {worker}
    a = a
    Conns = {a}
    MaxConnections = 1
    MaxRequests = 2
    MaxActive = 1
    Budgets <- MCBudgets
    MaxProviders = 3
    Hooks = 2
    HandlersShutdown = FALSE
SPECIFICATION MCSpec
INVARIANTS
    ApplicationTypeOK UndoneInReverse HooksOnce ShutdownLast FailureReported RegisteredAreAsked
PROPERTIES StopCompletes StopReturns
CHECK_DEADLOCK FALSE
