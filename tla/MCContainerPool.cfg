SPECIFICATION Spec
CONSTANTS
    x1 = x1
    x2 = x2
    k1 = k1
    k2 = k2
    Containers = {x1, x2}
    Callers = {k1, k2}
    None = None
    PoolSize = 1
    Flaky = {x2}
    MaxSpawns = 1
SYMMETRY CallerSymmetry
INVARIANTS
    TypeOK
    ExclusiveUse
    NoneForgotten
    RetiredUnused
CHECK_DEADLOCK FALSE
