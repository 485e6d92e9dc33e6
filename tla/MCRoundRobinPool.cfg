CONSTANTS
  Threads = {t1, t2, t3}
  N = 3
  WeakFailure = TRUE
SPECIFICATION PoolSpec
SYMMETRY Symmetry
INVARIANTS
  Exclusive
