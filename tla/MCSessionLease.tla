--------------------------- MODULE MCSessionLease ---------------------------
EXTENDS SessionLease, TLC

WorkerSymmetry == Permutations(Workers)
=============================================================================
