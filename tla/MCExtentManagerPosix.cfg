CONSTANTS
  Threads = {t1, t2}
  PageCount = 3
  Prealloc <- PreallocBlocks
  MaxBlock = 2
  Requests = {1}
  Posix = TRUE
  Failing = {}
SPECIFICATION ExtentSpec
INVARIANTS
  HandedOutUsable
