CONSTANTS
  Threads = {t1, t2}
  ChunkMaxCount = 1
  Regions = {r1}
  None = None
  RegionCount = 2
  MaxBatch = 1
  Queries = {}
SPECIFICATION FairPromptSpec
PROPERTIES
  CallsReturnAlone
