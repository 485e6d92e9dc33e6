CONSTANTS
  Threads = {t1, t2}
  PageCount = 3
  Prealloc <- PreallocBlocks
  MaxBlock = 2
  Requests = {1, 3}
  Posix = FALSE
  Failing = {"allocate", "commit", "decommit"}
SPECIFICATION FairExtentSpec
INVARIANTS
  ExtentTypeOK
  HandedOutUsable
  PagesDisjoint
  TreesBacked
PROPERTIES
  ReleasedWhole
  AllocateReturns
  StopReturns
CHECK_DEADLOCK FALSE
