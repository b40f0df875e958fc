--------------------------- MODULE MCIdempotency ----------------------------
(* Model-checking instances of Idempotency. *)
EXTENDS Idempotency, TLC

CONSTANTS q1, q2, q3, q4, b1, b2, none

FourRequests == {q1, q2, q3, q4}
TwoBodies == {b1, b2}

RequestSymmetry == Permutations(FourRequests)
=============================================================================
