---------------------------- MODULE MCIdempotency ----------------------------
(* Idempotency on four requests with two keys and two bodies: retries, a key *)
(* used for two bodies, and both at once.                                    *)
EXTENDS Idempotency, TLC

CONSTANTS r1, r2, r3, r4, k1, k2, b1, b2

MCRequests == {r1, r2, r3, r4}
MCKeys     == {k1, k2}
MCBodies   == {b1, b2}
Symmetry   == Permutations(MCRequests) \cup Permutations(MCKeys) \cup Permutations(MCBodies)
=============================================================================
