----------------------------- MODULE MCOtavLoop -----------------------------
EXTENDS OtavLoop

CONSTANTS editor, settings, regedit

MCStreakLimit == [unchanged |-> 2, failed |-> 2, unexpected |-> 1]
=============================================================================
