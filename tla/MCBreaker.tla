----------------------------- MODULE MCBreaker -----------------------------
EXTENDS Breaker, TLC
Sym == Permutations(Calls)
=============================================================================
