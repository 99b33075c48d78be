SPECIFICATION FairSpec
CONSTANTS
    t1 = t1
    t2 = t2
    Tasks = {t1, t2}
    Complex = {t1, t2}
    MaxGraphs = 2
    MaxIterations = 2
    MaxAttempts = 2
INVARIANTS
    NoLostWakeup
PROPERTIES
    NoIterationAfterCancel
    PauseHeld
    CancelFreesSlot
    QueueServed
CHECK_DEADLOCK FALSE
