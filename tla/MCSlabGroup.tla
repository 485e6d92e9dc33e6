---------------------------- MODULE MCSlabGroup -----------------------------
\* Model values for the runs of SlabGroup.
EXTENDS SlabGroup, TLC

Symmetry == Permutations(Threads)
=============================================================================
