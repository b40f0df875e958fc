-------------------------- MODULE MCBroadcastFanout -------------------------
(* Model-checking instances of BroadcastFanout. *)
EXTENDS BroadcastFanout, TLC

CONSTANTS w1, w2, l1, l2, c1, d1

OneWalker == {w1}
TwoWalkers == {w1, w2}
NoCron == {}
OneCron == {c1}
NoDrain == {}
OneDrain == {d1}
OneLane == {l1}
TwoLanes == {l1, l2}
OneContact == {1}
TwoContacts == 1..2

Symmetry == Permutations(TwoWalkers) \cup Permutations(TwoLanes)
=============================================================================
