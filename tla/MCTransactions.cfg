CONSTANTS
    g1 = g1
    g2 = g2
    g3 = g3
    Guards <- MCGuards
    Engines = {"postgresql"}
    ErrorsHandled = TRUE
    MaxFaults = 0
SPECIFICATION TSpec
SYMMETRY Symmetry
INVARIANT PublishedIsDurable
CHECK_DEADLOCK FALSE
