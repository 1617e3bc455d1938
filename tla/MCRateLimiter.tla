--------------------------- MODULE MCRateLimiter ---------------------------
EXTENDS RateLimiter, TLC

CONSTANTS k1, k2

\* Two surfaces with different budgets in one map.
MCLimitOf == k1 :> 1 @@ k2 :> 2
MCWindowOf == k1 :> 2 @@ k2 :> 1

Symmetry == Permutations(Threads)
=============================================================================
