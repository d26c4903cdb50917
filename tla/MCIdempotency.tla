--------------------------- MODULE MCIdempotency ---------------------------
\* Idempotency, for TLC: requests are alike, and so are bodies.
EXTENDS Idempotency, TLC

Symmetry == Permutations(Request) \cup Permutations(Body)
=============================================================================
