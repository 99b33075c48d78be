SPECIFICATION FairSpec
CONSTANTS
    editor = editor
    settings = settings
    regedit = regedit
    Titles = {editor, settings, regedit}
    Blacklisted = {regedit}
    Settings = {settings}
    None = None
    MaxSteps = 4
    MaxLlm = 16
    MaxRetry = 1
    StreakLimit <- MCStreakLimit
    MaxPolls = 2
INVARIANTS
    TypeOK
    StuckForCause
    BudgetHeld
    LateInputsBounded
PROPERTIES
    SessionEnds
CHECK_DEADLOCK FALSE
