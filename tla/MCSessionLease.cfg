SPECIFICATION LeaseSpec
CONSTANTS
    Workers = {w1, w2}
    None = None
    AcquireTimeout = 2
    LeaseTimeout = 3
    MaxTime = 6
INVARIANTS
    LeaseExclusive
PROPERTIES
    NoLeaseStolen
SYMMETRY WorkerSymmetry
CHECK_DEADLOCK FALSE
