--------------------------- MODULE MCRateLimiter ---------------------------
\* Two addresses and two request goroutines; three limiter objects, so that a
\* removed one can still be held while its address gets another.
EXTENDS RateLimiter, TLC

Sym == Permutations(Requests) \cup Permutations(Buckets)
=============================================================================
