-------------------------- MODULE MCExtentManager --------------------------
\* The preallocated blocks for the runs of ExtentManager.
EXTENDS ExtentManager, TLC

PreallocBlocks == <<2, 1>>
=============================================================================
