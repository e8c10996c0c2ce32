CONSTANTS
    MaxProviders = 1
    Hooks = 1
    HandlersShutdown = TRUE
SPECIFICATION LifeSpec
INVARIANT HooksOnce
