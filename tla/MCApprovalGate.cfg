SPECIFICATION Spec
CONSTANTS
    click = click
    ask = ask
    again = again
    path = path
    Desktop = {click}
    Asking = {ask, again}
    Outside = {path}
    StepOf <- MCStepOf
    Shared = shared
    Unpolled = {other}
    Ttl = 2
    MaxRetries = 1
    MaxRestarts = 1
INVARIANT
    NothingUnapproved
PROPERTY
    DecidedOnce
CHECK_DEADLOCK FALSE
