--------------------------- MODULE MCSearchIndex ---------------------------
EXTENDS SearchIndex, TLC
Sym == Permutations(Sellers) \cup Permutations(Replicas)
=============================================================================
