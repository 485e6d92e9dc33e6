------------------------ MODULE MCThreadCacheManager ------------------------
\* Model values for the run of ThreadCacheManager.
EXTENDS ThreadCacheManager, TLC

Symmetry == Permutations(Threads)

\* States are told apart by all but the pointers that a bin has from ncached on.  Without
\* "free_batch", and with an arena that is never short, no operation reads them again.
InBins ==
  [t \in Threads |-> [c \in Classes |->
     [i \in Places |-> IF i < ncached[t][c] THEN ptrs[t][c][i] ELSE Nothing]]]

Visible == <<free, held, alive, InBins, ncached, shutdown, registered, tls, at, lossVars>>
=============================================================================
