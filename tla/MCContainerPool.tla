--------------------------- MODULE MCContainerPool ---------------------------
\* Model values for ContainerPool.
EXTENDS ContainerPool, TLC

CONSTANTS x1, x2, k1, k2

\* Executor threads are interchangeable.
CallerSymmetry == Permutations(Callers)
=============================================================================
