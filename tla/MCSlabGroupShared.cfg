CONSTANTS
  Threads = {t1, t2, t3}
  N = 2
  WeakFailure = FALSE
  Words = 1
  WordBits = 1
  Regions = 1
  CountMod = 3
  MaxBatch = 1
  Calls = {"allocate"}
  MayFree = FALSE
  Shared = TRUE
SPECIFICATION FreshSpec
SYMMETRY Symmetry
INVARIANTS
  NoDoubleHandout
