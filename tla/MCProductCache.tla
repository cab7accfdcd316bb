--------------------------- MODULE MCProductCache ---------------------------
EXTENDS ProductCache, TLC
Sym == Permutations(Readers) \cup Permutations(Writers)
=============================================================================
