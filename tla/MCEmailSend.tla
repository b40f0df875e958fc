---------------------------- MODULE MCEmailSend -----------------------------
(* Model-checking instances of EmailSend. *)
EXTENDS EmailSend, TLC

CONSTANTS e1, l1, l2, d1, r1, r2, none

OneEmail == {e1}
OneLane == {l1}
TwoLanes == {l1, l2}
OneDrain == {d1}
NoDrain == {}
OneMailbox == {r1}
TwoMailboxes == {r1, r2}
Delivery == {"delivered"}
Feedback == {"complained", "failed"}
NoFeedback == {}
AnySchedule == Times \cup {NoTime}

LaneSymmetry == Permutations(TwoLanes)
MailboxSymmetry == Permutations(TwoMailboxes)
=============================================================================
