SPECIFICATION Spec
CONSTANTS
    Callers = {c1, c2, c3}
    NoCall = NoCall
    Table <- TaskSessionTransitions
    Initial = "created"
    Ending <- SessionTerminal
    MaxHops = 8
PROPERTIES
    ImplementsLifecycle
    ReportedChain
SYMMETRY CallerSymmetry
CHECK_DEADLOCK FALSE
