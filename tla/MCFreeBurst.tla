----------------------------- MODULE MCFreeBurst ----------------------------
(* Model-checking instances of FreeBurst. *)
EXTENDS FreeBurst, TLC

CONSTANTS e1, e2, e3, l1, l2

ThreeEmails == {e1, e2, e3}
OneSmall == [e \in ThreeEmails |-> IF e = e1 THEN 1 ELSE 3]
TwoLanes == {l1, l2}

Symmetry == Permutations({e2, e3}) \cup Permutations(TwoLanes)
=============================================================================
