----------------------------- MODULE MCLifoPool -----------------------------
\* The symmetry set for the runs of the LIFO pool.
EXTENDS LifoPool, TLC

Symmetry == Permutations(Threads)
=============================================================================
