---------------------------- MODULE EmailPromise ----------------------------
(***************************************************************************)
(* What the API promises of an accepted email, with no lane, queue, cron   *)
(* or claim in sight:                                                      *)
(*   - it leaves at most once;                                             *)
(*   - mail withdrawn (canceled, or suppressed) has not left and never     *)
(*     will;                                                               *)
(*   - mail reported sent has left.                                        *)
(* One gap is part of the promise: mail whose send was cut short may be    *)
(* reported failed although it left, or leaves later.                      *)
(***************************************************************************)
EXTENDS Integers

CONSTANTS Emails

VARIABLES
  fate,   \* what the API reports of an email
  left    \* copies of it handed to SES

Fates == {"none", "accepted", "withdrawn", "failed", "sent"}

Init ==
  /\ fate = [e \in Emails |-> "none"]
  /\ left = [e \in Emails |-> 0]

Report(e, from, to) ==
  /\ fate[e] \in from
  /\ fate' = [fate EXCEPT ![e] = to]
  /\ UNCHANGED left

Accept(e) == Report(e, {"none"}, "accepted")

(* Mail is withdrawn while it waits, or refused at the door.                *)
Withdraw(e) == left[e] = 0 /\ Report(e, {"none", "accepted"}, "withdrawn")

ReportSent(e) == left[e] = 1 /\ Report(e, {"accepted"}, "sent")

ReportFailed(e) == Report(e, {"accepted", "sent"}, "failed")

(* A copy leaves while the email waits, or after its interrupted send was   *)
(* written off.                                                             *)
Leave(e) ==
  /\ fate[e] \in {"accepted", "failed"} /\ left[e] = 0
  /\ left' = [left EXCEPT ![e] = 1]
  /\ UNCHANGED fate

Next ==
  \E e \in Emails :
    Accept(e) \/ Withdraw(e) \/ ReportSent(e) \/ ReportFailed(e) \/ Leave(e)

Spec == Init /\ [][Next]_<<fate, left>>

=============================================================================
