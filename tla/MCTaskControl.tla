---------------------------- MODULE MCTaskControl ----------------------------
\* Model values for TaskControl.
EXTENDS TaskControl

CONSTANTS t1, t2
=============================================================================
