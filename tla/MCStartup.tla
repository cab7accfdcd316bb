----------------------------- MODULE MCStartup -----------------------------
EXTENDS Startup, TLC
Sym == Permutations(Services)
=============================================================================
