--------------------------- MODULE MCWebhookDrain ---------------------------
(* Model-checking instances of WebhookDrain. *)
EXTENDS WebhookDrain, TLC

CONSTANTS p1, p2

OneRow == {1}
TwoRows == {1, 2}
OnePass == {p1}
TwoPasses == {p1, p2}
Ladder == [n \in 1..MaxAttempts |-> 1]
OneWait == {1}
TwoWaits == {1, 2}

PassSymmetry == Permutations(TwoPasses)
=============================================================================
