--------------------------- MODULE MCLockFreeList ---------------------------
\* The symmetry set for the runs of the lock-free list.
EXTENDS LockFreeList, TLC

Symmetry == Permutations(Threads) \union Permutations(Nodes)
=============================================================================
