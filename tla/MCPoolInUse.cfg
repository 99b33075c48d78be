SPECIFICATION Spec
CONSTANTS
    x1 = x1
    x2 = x2
    k1 = k1
    k2 = k2
    Containers = {x1, x2}
    Callers = {k1}
    None = None
    PoolSize = 1
    Flaky = {}
    MaxSpawns = 1
INVARIANT
    UseUndisturbed
CHECK_DEADLOCK FALSE
