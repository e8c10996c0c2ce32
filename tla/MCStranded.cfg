CONSTANTS
    g1 = g1
    g2 = g2
    g3 = g3
    Guards <- MCGuards
    Engines = {"sqlite", "postgresql", "mysql", "mssql"}
    ErrorsHandled = FALSE
    MaxFaults = 0
SPECIFICATION TSpec
SYMMETRY Symmetry
INVARIANT ExceptionEndsScope
CHECK_DEADLOCK FALSE
