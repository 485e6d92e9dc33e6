CONSTANTS
  Threads = {t1, t2, t3}
  Nodes = {n1, n2, n3}
  Values = {a, b}
  Default = a
  Null = Null
  TagMod = 2
  MaxRetries = 2
  Together = {{"emplace_back", "find"}, {"emplace_front"}}
  WeakFailure = FALSE
SPECIFICATION ListSpec
SYMMETRY Symmetry
INVARIANTS
  NoNodeLost
  QuiescentExact
  TailOneBehind
PROPERTIES
  FindSeesAll
  ImplementsSequence
