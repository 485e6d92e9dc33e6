CONSTANTS
  Threads = {t1, t2, t3}
  N = 3
  Null = Null
  TagMod = 5
  WeakFailure = TRUE
  Lapping = FALSE
SPECIFICATION LifoSpec
SYMMETRY Symmetry
INVARIANTS
  EachNodeOnce
  ChainIsStack
PROPERTY
  ImplementsStack
