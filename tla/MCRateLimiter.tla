--------------------------- MODULE MCRateLimiter ---------------------------
EXTENDS RateLimiter, TLC

CONSTANTS r1, r2, r3, r4, k1

LimitTwoOne == [kind \in Kind |-> IF kind = "auth" THEN 1 ELSE 2]

\* The run checks no liveness.
Symmetry == Permutations(Request)
=============================================================================
