CONSTANTS
  Threads = {t1, t2}
  ChunkMaxCount = 2
  Regions = {r1, r2, r3}
  None = None
  RegionCount = 2
  MaxBatch = 2
  Queries = {"full", "empty"}
SPECIFICATION ClassSpec
SYMMETRY Symmetry
INVARIANTS
  RegionsAccounted
  CountBehindList
  FreeFindsChunk
  ActiveReady
PROPERTIES
  ImplementsAllocator
