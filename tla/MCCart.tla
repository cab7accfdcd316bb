------------------------------- MODULE MCCart -------------------------------
EXTENDS Cart, TLC
Sym == Permutations(Calls) \cup Permutations(Pages)
=============================================================================
