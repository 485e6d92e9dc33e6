-------------------------- MODULE MCRoundRobinPool --------------------------
\* Model values and mutated forms for the pool's runs.
EXTENDS RoundRobinPool, TLC

Symmetry == Permutations(Threads)
=============================================================================
