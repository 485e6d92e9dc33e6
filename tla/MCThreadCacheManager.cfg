CONSTANTS
  Threads = {t1, t2}
  ClassCount = 2
  PerClass = 4
  Size = 2
  Flush = 1
  MaxBatch = 2
  MaxHeld = 2
  Operations = {"allocate", "free", "allocate_batch"}
  ArenaShort = FALSE
SPECIFICATION ManagerSpec
SYMMETRY Symmetry
VIEW Visible
INVARIANTS
  ManagerTypeOK
  UsedCacheExists
  RegistryExact
  LossesKnown
  ShutdownReturnsAll
  OwnedOnce
  Stocked
PROPERTIES
  CacheImplementsAllocator
CHECK_DEADLOCK FALSE
