SPECIFICATION Spec
CONSTANTS
    big = big
    small = small
    unit = unit
    Tasks = {big, small}
    Complex = {big}
    UnitRun <- MCUnitRun
    Actions = {unit}
    Gaps = {small}
    Deliverers = {small}
    Cancellable = {small}
    Slots = 2
    MaxIterations <- MCIterations
    MaxCalls = 2
    MaxTruncations = 1
    MaxSchemaReplans = 1
    MaxRejections = 1
    MaxRepairs = 1
    MaxFailures = 2
    MaxStill = 2
    NumUnits = 2
    MaxRetries = 1
    MaxRestarts = 1
INVARIANT
    CompletedPlanRecorded
CHECK_DEADLOCK FALSE
