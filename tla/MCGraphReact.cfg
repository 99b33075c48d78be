SPECIFICATION FairSpec
CONSTANTS
    a = a
    b = b
    c = c
    d = d
    Nodes = {a, b, c, d}
    Priority <- MCPriority
    InitialGraphs <- EmptyGraph
    Patches <- MCPatches
    Incremental = TRUE
    MaxConcurrent = 2
    MaxRetries = 1
    Escapes = {a}
    HasTimeLimit = FALSE
    MaxPlans = 4
INVARIANTS
    NoDoubleRun
PROPERTIES
    DependencyOrder
    TerminalIsFinal
    CycleReturns
CHECK_DEADLOCK FALSE
