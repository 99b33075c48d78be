SPECIFICATION FairSpec
CONSTANTS
    a = a
    b = b
    c = c
    d = d
    Nodes = {a, b, c, d}
    Priority <- MCPriority
    InitialGraphs <- MCGraphs
    Patches <- NoPatches
    Incremental = FALSE
    MaxConcurrent = 2
    MaxRetries = 1
    Escapes = {}
    HasTimeLimit = TRUE
    MaxPlans = 0
INVARIANTS
    SettledBetweenCycles
PROPERTIES
    SkippedForCause
    RunSettles
CHECK_DEADLOCK FALSE
