CONSTANTS
  Threads = {t1, t2}
  N = 2
  WeakFailure = FALSE
  Words = 2
  WordBits = 2
  Regions = 3
  CountMod = 4
  MaxBatch = 2
  Calls = {"allocate", "batch", "full", "empty"}
  MayFree = FALSE
  Shared = FALSE
SPECIFICATION FairFreshSpec
INVARIANTS
  CountExact
  HolderAlone
  NoSlotLost
PROPERTIES
  CallsReturn
