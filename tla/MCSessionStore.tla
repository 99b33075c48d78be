--------------------------- MODULE MCSessionStore ---------------------------
EXTENDS StatusStore, TLC

CallerSymmetry == Permutations(Callers)
=============================================================================
