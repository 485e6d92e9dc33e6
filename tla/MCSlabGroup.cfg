CONSTANTS
  Threads = {t1, t2}
  N = 1
  WeakFailure = FALSE
  Words = 2
  WordBits = 2
  Regions = 3
  CountMod = 4
  MaxBatch = 2
  Calls = {"allocate", "batch"}
  MayFree = TRUE
  Shared = TRUE
SPECIFICATION Spec
SYMMETRY Symmetry
INVARIANTS
  SlabTypeOK
  NoDoubleHandout
  BitsMatchOwners
PROPERTIES
  ImplementsAllocator
