------------------------------ MODULE MCBilling -----------------------------
(* Model-checking instances of Billing. *)
EXTENDS Billing, TLC

CONSTANTS x1, x2, r1, e1

TwoSubs == {1, 2}
TwoSyncs == {x1, x2}
OneRun == {r1}
OneEnder == {e1}

Symmetry == Permutations(TwoSyncs)
=============================================================================
