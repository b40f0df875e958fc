------------------------------ MODULE EmailRow ------------------------------
(***************************************************************************)
(* One row of the `emails` table and the guarded UPDATEs every actor       *)
(* changes it with.  The row is the only thing the send lanes, the SES     *)
(* event consumer, the crons and the API share, so these guards are what   *)
(* keeps them apart.                                                       *)
(*                                                                         *)
(* A time is a natural number; NoTime stands for SQL null.  sesId is the   *)
(* number of the SES message joined to the row, 0 for null.                *)
(***************************************************************************)
EXTENDS Integers

CONSTANTS Recipients   \* the mailboxes a message can name

NoTime == -1

(* The status ladder, in the order of the Postgres enum.  "absent" is a row *)
(* that has not been inserted yet.                                          *)
Rank == [queued_quota |-> 0, queued |-> 1, sent |-> 2, delivery_delayed |-> 3,
         delivered |-> 4, opened |-> 5, clicked |-> 6, bounced |-> 7,
         complained |-> 8, suppressed |-> 9, failed |-> 10, canceled |-> 11]

Statuses == {"queued_quota", "queued", "sent", "delivery_delayed", "delivered",
             "opened", "clicked", "bounced", "complained", "suppressed",
             "failed", "canceled"}

Waiting == {"queued_quota", "queued"}    \* the queue-internal states

(* Statuses an SES event can bring: STATUS_BY_EVENT.                        *)
SesStatuses == {"sent", "delivery_delayed", "delivered", "bounced",
                "complained", "failed"}

(* Why a row ended.                                                         *)
Reasons == {"", "domain_deleted", "ineligible", "refused", "retries_exhausted",
            "send_interrupted", "ses_event"}

Rows(Times) ==
  [status : Statuses \cup {"absent"},
   createdAt : Times \cup {NoTime}, scheduledAt : Times \cup {NoTime},
   sentAt : Times \cup {NoTime},
   sesId : Nat, to : SUBSET Recipients, why : Reasons]

AbsentRow == [status |-> "absent", createdAt |-> NoTime, scheduledAt |-> NoTime,
              sentAt |-> NoTime, sesId |-> 0, to |-> {}, why |-> ""]

Unclaimed(r) == r.sentAt = NoTime

(* Guard of transitionQueueState: the exact status, and no claim.           *)
CanTransition(r, from) == r.status = from /\ Unclaimed(r)

(* Guard of endQueuedEmails: still waiting, and not with SES.               *)
CanEnd(r) == r.status \in Waiting /\ r.sesId = 0

(* What endQueuedEmails writes: failing a row also gives its claim up.      *)
Ended(r, status, why) ==
  [r EXCEPT !.status = status, !.why = why,
            !.sentAt = IF status = "failed" THEN NoTime ELSE @]

(* Mutant: the last event wins.                                             *)
StatusCasLast(r, next) == IF r.status \in Statuses THEN [r EXCEPT !.status = next] ELSE r

(* applyStatusCas: a status only ever climbs the ladder.                    *)
Climbs(r, next) == r.status \in Statuses /\ Rank[r.status] < Rank[next]

StatusCas(r, next) == IF Climbs(r, next) THEN [r EXCEPT !.status = next] ELSE r

=============================================================================
