SPECIFICATION FairSpec
CONSTANTS
    a = a
    b = b
    c = c
    researcher = researcher
    writer = writer
    Nodes = {a, b, c}
    Roles = {researcher, writer}
    RoleOf <- MCRoleOf
    Workers = {1, 2}
    None = None
    Plans <- MCPlans
    RoleLimit <- MCRoleLimit
    Slots = 2
    MaxRepairs = 1
    BrokenAt = 2
    Feedbacks = {"none", "retry", "replan", "abort", "malformed"}
    Caches <- MCCaches
    MaxRounds = 6
    MaxEmpty = 2
INVARIANTS
    TypeOK
    WorkerExclusive
    DependencyOrder
    GivesUpForCause
PROPERTIES
    CompletedIsFinal
    RunEnds
CHECK_DEADLOCK FALSE
