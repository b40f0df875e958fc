----------------------------- MODULE EmailSend ------------------------------
(***************************************************************************)
(* The life of a transactional email of one team on a daily plan: accepted *)
(* by the API, queued as an email.send job, taken by a send lane, claimed, *)
(* handed to SES, recorded, and settled by SES events - with parking over  *)
(* quota, the quota drain, the stalled-send sweep, the dead-letter handler,*)
(* cancel and reschedule running against it at any point.                  *)
(*                                                                         *)
(* An action is one database statement or transaction, one queue call or   *)
(* one SES call: what another process can see between two of them is a     *)
(* state here.  Reads of other tables (standing, SES quota, screening      *)
(* verdict, ...) are nondeterministic outcomes: a hold may come and go     *)
(* between any two sends.                                                  *)
(***************************************************************************)
EXTENDS EmailRow, FiniteSets

CONSTANTS
  Emails,          \* the emails customers send
  NoEmail,         \* the email of an idle lane
  Lanes,           \* send lanes: the email.send workers of all processes
  Drains,          \* quota.drain runs that can overlap
  Horizon,         \* the last instant of the clock; it stands for all later ones
  DayLength,       \* instants per UTC day
  StaleAfter,      \* the sweep's fifteen minutes, in instants
  RetryLimit,      \* JOB_RETRY.retryLimit
  Ceiling,         \* the plan's daily ceiling, in recipients
  MaxPostpones,    \* bound: times a check asks a job to come back later
  MaxMoves,        \* bound: accepted PATCHes of scheduled_at
  MaxExpiries,     \* bound: jobs that expire under their handler
  MaxUnnamed,      \* bound: copies SES takes before an answer without an id
  EventStatuses,   \* the SES event kinds of this instance
  ScheduleTimes    \* the scheduled_at a customer asks for, NoTime for none

ASSUME SendAssumption ==
  /\ NoEmail \notin Emails
  /\ Horizon \in Nat /\ DayLength \in Nat \ {0} /\ StaleAfter \in Nat
  /\ RetryLimit \in Nat /\ Ceiling \in Nat
  /\ MaxPostpones \in Nat /\ MaxMoves \in Nat /\ MaxExpiries \in Nat
  /\ MaxUnnamed \in Nat
  /\ EventStatuses \subseteq SesStatuses
  /\ ScheduleTimes \subseteq (0..Horizon) \cup {NoTime}
  /\ IsFiniteSet(Recipients)

VARIABLES
  now,         \* the clock
  row,         \* the emails table
  suppressed,  \* recipients on the suppression list, or opted out
  unqueued,    \* rows a request committed and has yet to enqueue
  waiting,     \* email.send jobs in state created: their start time, or NoTime
  retrying,    \* jobs in state retry, <<email, attempt>>
  dead,        \* jobs in email.send.dead
  lane,        \* what each send lane holds in memory
  drain,       \* what each quota.drain run holds in memory
  event,       \* what the SES event consumer holds in memory
  accepted,    \* usage_counters.accepted, per UTC day
  postpones, moves, expiries,
  took,        \* observer: messages SES took for an email
  told,        \* observer: times an email was counted and announced as sent
  charge       \* observer: the reservation a row holds, and the day it is on

rows  == <<row, took, told>>
queue == <<unqueued, waiting, retrying, dead>>
quota == <<accepted, charge>>
bounds == <<postpones, moves, expiries>>
vars == <<now, rows, suppressed, queue, lane, drain, event, quota, bounds>>

Times == 0..Horizon
Day(t) == t \div DayLength
Days == 0..Day(Horizon)
Later(a, b) == IF a > b THEN a ELSE b
Old(t) == now = Horizon \/ now - t >= StaleAfter
Units(to) == Cardinality(to)

NoCharge == [day |-> NoTime, units |-> 0]
IdleLane == [pc |-> "idle", email |-> NoEmail, to |-> {}, tries |-> NoTime]
IdleDrain == [pc |-> "idle", page |-> {}, moved |-> {}, owed |-> 0]
NoEvent == [pc |-> "idle", email |-> NoEmail, msg |-> 0, status |-> "sent",
            byTag |-> FALSE]

LanePcs == {"idle", "read", "eligible", "render", "recheck", "claim", "submit",
            "release", "failHeld", "record", "flip", "count", "park", "fail"}

ClockOK == /\ now \in Times /\ suppressed \subseteq Recipients
           /\ postpones \in Nat /\ moves \in Nat /\ expiries \in Nat
           /\ took \in [Emails -> Nat] /\ told \in [Emails -> Nat]
RowsOK  == row \in [Emails -> Rows(Times)]
JobsOK  == /\ unqueued \subseteq Emails /\ dead \subseteq Emails
           /\ waiting \in [Emails -> Times \cup {NoTime}]
           /\ retrying \subseteq Emails \X (1..RetryLimit)
LaneRecords == [pc : LanePcs, email : Emails \cup {NoEmail}, to : SUBSET Recipients,
                tries : (0..RetryLimit) \cup {NoTime}]
LanesOK == /\ lane \in [Lanes -> LaneRecords]
           /\ \A l \in Lanes : lane[l].pc # "idle" => lane[l].email \in Emails
ParkedRows == [email : Emails, at : Times \cup {NoTime}, units : Nat]
DrainRecords == [pc : {"idle", "release", "repark", "refund"}, page : SUBSET ParkedRows,
                 moved : SUBSET ParkedRows, owed : Nat]
DrainsOK == drain \in [Drains -> DrainRecords]
EventOK == /\ event \in [pc : {"idle", "apply"}, email : Emails \cup {NoEmail}, msg : Nat,
                         status : SesStatuses, byTag : BOOLEAN]
           /\ event.pc = "apply" => event.email \in Emails
QuotaOK == /\ accepted \in [Days -> Nat]
           /\ charge \in [Emails -> [day : Days \cup {NoTime}, units : Nat]]

(* Every variable has its type, and a lane or the consumer at work has an   *)
(* email in hand.                                                           *)
TypeOK == /\ ClockOK /\ RowsOK /\ JobsOK /\ LanesOK /\ DrainsOK
          /\ EventOK /\ QuotaOK

Init ==
  /\ now = 0
  /\ row = [e \in Emails |-> AbsentRow]
  /\ suppressed = {} /\ unqueued = {}
  /\ waiting = [e \in Emails |-> NoTime]
  /\ retrying = {} /\ dead = {}
  /\ lane = [l \in Lanes |-> IdleLane]
  /\ drain = [d \in Drains |-> IdleDrain]
  /\ event = NoEvent
  /\ accepted = [d \in Days |-> 0]
  /\ charge = [e \in Emails |-> NoCharge]
  /\ postpones = 0 /\ moves = 0 /\ expiries = 0
  /\ took = [e \in Emails |-> 0]
  /\ told = [e \in Emails |-> 0]

-----------------------------------------------------------------------------
(* The counter and the queue, as the actions below use them.               *)

HasRoom(day, n) == accepted[day] + n <= Ceiling

Reserve(e, day, n) ==
  /\ accepted' = [accepted EXCEPT ![day] = @ + n]
  /\ charge' = [charge EXCEPT ![e] = [day |-> day, units |-> n]]

(* releaseDailyQuota with neither `day` nor `at`: today's counter, floored. *)
Release(n) == accepted' = [accepted EXCEPT ![Day(now)] = Later(@ - n, 0)]

Uncharge(e) == charge' = [charge EXCEPT ![e] = NoCharge]

(* The short policy: no insert while a job of the same key is in created.   *)
Insert(w, e, at) == IF w[e] = NoTime THEN [w EXCEPT ![e] = Later(at, 0)] ELSE w

Put(e, r) == row' = [row EXCEPT ![e] = r]
Goto(l, pc) == lane' = [lane EXCEPT ![l].pc = pc]
Finish(l) == lane' = [lane EXCEPT ![l] = IdleLane]

-----------------------------------------------------------------------------
(* The API. *)

(* POST /emails: the accept transaction.  Scheduled mail is charged to its  *)
(* delivery day; what the plan, the warm-up or a review hold keeps back is  *)
(* parked, and holds no reservation.                                        *)
Accept(e, to, at) ==
  LET kept == to \ suppressed
      day == Day(Later(at, now))
  IN
  /\ row[e].status = "absent" /\ kept # {}
  /\ \E held \in BOOLEAN :
       LET admit == ~held /\ HasRoom(day, Units(kept)) IN
       /\ Put(e, [AbsentRow EXCEPT
                   !.status = IF admit THEN "queued" ELSE "queued_quota",
                   !.createdAt = now, !.scheduledAt = at, !.to = kept])
       /\ IF admit THEN Reserve(e, day, Units(kept)) /\ unqueued' = unqueued \cup {e}
                   ELSE UNCHANGED <<quota, unqueued>>
  /\ UNCHANGED <<now, suppressed, waiting, retrying, dead, lane, drain, event,
                 bounds, took, told>>

(* POST /emails to nobody but suppressed recipients: refused, and kept as a *)
(* suppressed row.                                                          *)
RecordSuppressed(e, to) ==
  /\ row[e].status = "absent" /\ to # {} /\ to \subseteq suppressed
  /\ Put(e, [AbsentRow EXCEPT !.status = "suppressed", !.createdAt = now, !.to = to,
                              !.why = "ineligible"])
  /\ UNCHANGED <<now, suppressed, queue, lane, drain, event, quota, bounds, took, told>>

(* The enqueue after the commit of an accept or a PATCH.                    *)
Enqueue(e) ==
  /\ e \in unqueued
  /\ unqueued' = unqueued \ {e}
  /\ waiting' = Insert(waiting, e, row[e].scheduledAt)
  /\ UNCHANGED <<now, rows, suppressed, retrying, dead, lane, drain, event, quota, bounds>>

(* The process died, or the queue refused: the row stays, without a job.    *)
LoseEnqueue(e) ==
  /\ e \in unqueued
  /\ unqueued' = unqueued \ {e}
  /\ UNCHANGED <<now, rows, suppressed, waiting, retrying, dead, lane, drain, event,
                 quota, bounds>>

(* Mutant: the WHERE without its isNull(sentAt).                            *)
ReachableClaimed(e) == row[e].status \in Waiting /\ row[e].scheduledAt # NoTime

Reachable(e) ==   \* the WHERE of cancel and of PATCH
  row[e].status \in Waiting /\ Unclaimed(row[e]) /\ row[e].scheduledAt # NoTime

(* POST /emails/{id}/cancel.  The reservation is not handed back.           *)
Cancel(e) ==
  /\ Reachable(e)
  /\ Put(e, [row[e] EXCEPT !.status = "canceled"])
  /\ Uncharge(e)
  /\ UNCHANGED <<now, suppressed, queue, lane, drain, event, accepted, bounds, took, told>>

(* Mutant: a move of queued mail is never charged to its new day.           *)
MoveUncharged(e, at) ==
  /\ Reachable(e) /\ moves < MaxMoves
  /\ moves' = moves + 1
  /\ Put(e, [row[e] EXCEPT !.scheduledAt = at])
  /\ unqueued' = IF row[e].status = "queued" THEN unqueued \cup {e} ELSE unqueued
  /\ UNCHANGED <<now, suppressed, waiting, retrying, dead, lane, drain, event, quota,
                 postpones, expiries, took, told>>

(* PATCH /emails/{id}: a move onto another day is charged to that day too,  *)
(* and parks the row when that day is full.                                 *)
Move(e, at) ==
  LET old == row[e].scheduledAt
      day == Day(Later(at, now))
      n == Units(row[e].to)
      moved == [row[e] EXCEPT !.scheduledAt = at]
  IN
  /\ Reachable(e) /\ moves < MaxMoves
  /\ moves' = moves + 1
  /\ \/ /\ row[e].status = "queued_quota"
        /\ Put(e, moved) /\ UNCHANGED <<quota, unqueued>>
     \/ /\ row[e].status = "queued" /\ old > now /\ Day(old) = day
        /\ Put(e, moved) /\ unqueued' = unqueued \cup {e} /\ UNCHANGED quota
     \/ /\ row[e].status = "queued" /\ ~(old > now /\ Day(old) = day)
        /\ HasRoom(day, n)
        /\ Put(e, moved) /\ unqueued' = unqueued \cup {e} /\ Reserve(e, day, n)
     \/ /\ row[e].status = "queued" /\ ~(old > now /\ Day(old) = day)
        /\ ~HasRoom(day, n)
        /\ Put(e, [moved EXCEPT !.status = "queued_quota"])
        /\ Uncharge(e)
        /\ UNCHANGED <<accepted, unqueued>>
  /\ UNCHANGED <<now, suppressed, waiting, retrying, dead, lane, drain, event,
                 postpones, expiries, took, told>>

(* The deletion of the email's domain fails its waiting rows, claims aside. *)
DeleteDomain(e) ==
  /\ CanEnd(row[e]) /\ Unclaimed(row[e])
  /\ Put(e, Ended(row[e], "failed", "domain_deleted")) /\ Uncharge(e)
  /\ UNCHANGED <<now, suppressed, queue, lane, drain, event, accepted, bounds, took, told>>

(* The operator cancels mail held for review: from the review list, where a *)
(* row still queued hands its units back, or by suspending the team.        *)
CancelHeld(e) ==
  /\ row[e].status \in Waiting /\ Unclaimed(row[e])
  /\ Put(e, [row[e] EXCEPT !.status = "canceled"]) /\ Uncharge(e)
  /\ IF row[e].status = "queued" THEN Release(Units(row[e].to)) ELSE UNCHANGED accepted
  /\ UNCHANGED <<now, suppressed, queue, lane, drain, event, bounds, took, told>>

(* A suppression, an unsubscribe or a topic opt-out from anywhere else.     *)
Suppress(r) ==
  /\ r \notin suppressed
  /\ suppressed' = suppressed \cup {r}
  /\ UNCHANGED <<now, rows, queue, lane, drain, event, quota, bounds>>

-----------------------------------------------------------------------------
(* pg-boss and the send lanes. *)

FetchNew(l, e) ==
  /\ lane[l].pc = "idle" /\ waiting[e] # NoTime /\ waiting[e] <= now
  /\ waiting' = [waiting EXCEPT ![e] = NoTime]
  /\ lane' = [lane EXCEPT ![l] = [pc |-> "read", email |-> e, to |-> {}, tries |-> 0]]
  /\ UNCHANGED <<now, rows, suppressed, unqueued, retrying, dead, drain, event, quota,
                 bounds>>

FetchRetry(l, e, k) ==
  /\ lane[l].pc = "idle" /\ <<e, k>> \in retrying
  /\ retrying' = retrying \ {<<e, k>>}
  /\ lane' = [lane EXCEPT ![l] = [pc |-> "read", email |-> e, to |-> {}, tries |-> k]]
  /\ UNCHANGED <<now, rows, suppressed, unqueued, waiting, dead, drain, event, quota,
                 bounds>>

(* Mutant: retries without a limit.                                         *)
FailJobAgain(l) ==
  /\ retrying' = IF lane[l].tries # NoTime
                 THEN retrying \cup {<<lane[l].email, lane[l].tries + 1>>} ELSE retrying
  /\ UNCHANGED dead

(* Where a job goes when its handler throws, or its lane is gone: the next  *)
(* retry, or the dead-letter queue.  A lane whose job expired under it      *)
(* (tries = NoTime) has none to give back.                                  *)
FailJob(l) ==
  LET e == lane[l].email
      k == lane[l].tries
  IN
  /\ retrying' = IF k # NoTime /\ k < RetryLimit THEN retrying \cup {<<e, k + 1>>}
                                                 ELSE retrying
  /\ dead' = IF k = RetryLimit THEN dead \cup {e} ELSE dead

(* The worker died, or any of the handler's calls failed.                   *)
Throw(l) ==
  /\ lane[l].pc # "idle"
  /\ FailJob(l) /\ Finish(l)
  /\ UNCHANGED <<now, rows, suppressed, unqueued, waiting, drain, event, quota, bounds>>

(* pg-boss expires a job after its limit and retries it while its first     *)
(* handler still runs.                                                      *)
Expire(l) ==
  /\ lane[l].pc # "idle" /\ lane[l].tries # NoTime /\ expiries < MaxExpiries
  /\ expiries' = expiries + 1
  /\ FailJob(l)
  /\ lane' = [lane EXCEPT ![l].tries = NoTime]
  /\ UNCHANGED <<now, rows, suppressed, unqueued, waiting, drain, event, quota,
                 postpones, moves>>

(* The job is put back for a later time and this one is done.               *)
ComeBack(l, at) ==
  /\ postpones < MaxPostpones
  /\ postpones' = postpones + 1
  /\ waiting' = Insert(waiting, lane[l].email, at)
  /\ Finish(l)

(* sendEmail's read and the standing checks at the head of sendQueued.      *)
ReadRow(l) ==
  LET r == row[lane[l].email] IN
  /\ lane[l].pc = "read"
  /\ \/ /\ r.status # "queued" \/ ~Unclaimed(r)                      \* skipped
        /\ Finish(l) /\ UNCHANGED waiting
     \/ /\ r.status = "queued" /\ Unclaimed(r) /\ r.scheduledAt > now   \* deferred
        /\ waiting' = Insert(waiting, lane[l].email, r.scheduledAt)
        /\ Finish(l)
     \/ /\ r.status = "queued" /\ Unclaimed(r) /\ r.scheduledAt <= now
        /\ \E pc \in {"eligible", "park"} :
             lane' = [lane EXCEPT ![l].pc = pc, ![l].to = r.to]
        /\ UNCHANGED waiting
  /\ UNCHANGED <<now, rows, suppressed, unqueued, retrying, dead, drain, event,
                 quota, bounds>>

(* Drops suppressed recipients from the row and from the lane's copy.       *)
Stripped(r, to) == IF r.status = "queued" THEN [r EXCEPT !.to = to] ELSE r

(* Mutant: a refusal that ends a row a lane has claimed.                    *)
RefuseClaimed(e) ==
  IF CanEnd(row[e])
  THEN /\ Put(e, Ended(row[e], "suppressed", "ineligible"))
       /\ Uncharge(e)
  ELSE UNCHANGED <<row, charge>>

(* The refusal of a row whose recipients are all suppressed.                *)
Refuse(e) ==
  IF CanEnd(row[e]) /\ CanTransition(row[e], "queued")
  THEN /\ Put(e, Ended(row[e], "suppressed", "ineligible"))
       /\ Uncharge(e)
  ELSE UNCHANGED <<row, charge>>

(* The first eligibility check. *)
CheckEligible(l) ==
  LET e == lane[l].email
      to == lane[l].to \ suppressed
  IN
  /\ lane[l].pc = "eligible"
  /\ \/ /\ to = {}
        /\ Refuse(e) /\ Finish(l)
     \/ /\ to # {}
        /\ IF to = lane[l].to THEN UNCHANGED row ELSE Put(e, Stripped(row[e], to))
        /\ lane' = [lane EXCEPT ![l].pc = "render", ![l].to = to]
        /\ UNCHANGED charge
  /\ UNCHANGED <<now, suppressed, queue, drain, event, accepted, bounds, took, told>>

(* Domain and body checks, the Free burst slot, the fuse and screening: the *)
(* message is built, parked, failed, put back for later, or left queued for *)
(* the judge to enqueue again.                                              *)
Render(l) ==
  /\ lane[l].pc = "render"
  /\ \/ \E pc \in {"recheck", "park", "fail"} : Goto(l, pc) /\ UNCHANGED <<waiting, postpones>>
     \/ \E at \in now..Horizon : ComeBack(l, at)
     \/ /\ postpones < MaxPostpones /\ postpones' = postpones + 1
        /\ Finish(l) /\ UNCHANGED waiting
  /\ UNCHANGED <<now, rows, suppressed, unqueued, retrying, dead, drain, event, quota,
                 moves, expiries>>

(* The last eligibility check, right before the claim.                      *)
Recheck(l) ==
  LET e == lane[l].email
      to == lane[l].to \ suppressed
  IN
  /\ lane[l].pc = "recheck"
  /\ \/ to = {} /\ Refuse(e) /\ Finish(l) /\ UNCHANGED waiting
     \/ /\ to # {} /\ to # lane[l].to
        /\ Put(e, Stripped(row[e], to))
        /\ waiting' = Insert(waiting, e, now)
        /\ Finish(l) /\ UNCHANGED charge
     \/ to = lane[l].to /\ Goto(l, "claim") /\ UNCHANGED <<row, charge, waiting>>
  /\ UNCHANGED <<now, suppressed, unqueued, retrying, dead, drain, event, accepted,
                 bounds, took, told>>

(* Mutant: the claim without its isNull(sentAt).                            *)
ClaimTaken(l) ==
  LET e == lane[l].email IN
  /\ lane[l].pc = "claim"
  /\ IF row[e].status = "queued"
     THEN Put(e, [row[e] EXCEPT !.sentAt = now]) /\ Goto(l, "submit")
     ELSE Finish(l) /\ UNCHANGED row
  /\ UNCHANGED <<now, suppressed, queue, drain, event, quota, bounds, took, told>>

(* The atomic claim: sent_at doubles as the claim marker.                   *)
Claim(l) ==
  LET e == lane[l].email IN
  /\ lane[l].pc = "claim"
  /\ IF CanTransition(row[e], "queued")
     THEN Put(e, [row[e] EXCEPT !.sentAt = now]) /\ Goto(l, "submit")
     ELSE Finish(l) /\ UNCHANGED row
  /\ UNCHANGED <<now, suppressed, queue, drain, event, quota, bounds, took, told>>

(* SES takes the message and answers. *)
SesTakes(l) ==
  /\ lane[l].pc = "submit"
  /\ took' = [took EXCEPT ![lane[l].email] = @ + 1]
  /\ Goto(l, "record")
  /\ UNCHANGED <<now, row, told, suppressed, queue, drain, event, quota, bounds>>

(* SES refuses it: for good, because its quota is spent, or for now.        *)
SesRefuses(l) ==
  /\ lane[l].pc = "submit"
  /\ \E pc \in {"failHeld", "release"} : Goto(l, pc)
  /\ UNCHANGED <<now, rows, suppressed, queue, drain, event, quota, bounds>>

(* Mutants: a send cut off at its deadline is taken for refused, or for     *)
(* sent.                                                                    *)
SesDeadlineRefused(l) ==
  /\ lane[l].pc = "submit"
  /\ \E n \in {0, 1} : took' = [took EXCEPT ![lane[l].email] = @ + n]
  /\ Goto(l, "release")
  /\ UNCHANGED <<now, row, told, suppressed, queue, drain, event, quota, bounds>>

SesDeadlineSent(l) ==
  /\ lane[l].pc = "submit"
  /\ \E n \in {0, 1} : took' = [took EXCEPT ![lane[l].email] = @ + n]
  /\ Goto(l, "record")
  /\ UNCHANGED <<now, row, told, suppressed, queue, drain, event, quota, bounds>>

(* The send passed its deadline (AbortError): SES may hold the message, so  *)
(* the claim stands and the job fails.                                      *)
SesDeadline(l) ==
  /\ lane[l].pc = "submit"
  /\ \E n \in {0, 1} : took' = [took EXCEPT ![lane[l].email] = @ + n]
  /\ FailJob(l) /\ Finish(l)
  /\ UNCHANGED <<now, row, told, suppressed, unqueued, waiting, drain, event, quota, bounds>>

(* SES takes it and its answer names no message: an error like any other,   *)
(* which reads as a refusal.                                                *)
SesTakesUnnamed(l) ==
  /\ lane[l].pc = "submit" /\ took[lane[l].email] < MaxUnnamed
  /\ took' = [took EXCEPT ![lane[l].email] = @ + 1]
  /\ Goto(l, "release")
  /\ UNCHANGED <<now, row, told, suppressed, queue, drain, event, quota, bounds>>

(* The claim of a refused send is released; then the row parks, or the job  *)
(* fails and its retry sends.                                               *)
ReleaseClaim(l) ==
  LET e == lane[l].email IN
  /\ lane[l].pc = "release"
  /\ IF row[e].status = "queued" THEN Put(e, [row[e] EXCEPT !.sentAt = NoTime])
                                 ELSE UNCHANGED row
  /\ \/ Goto(l, "park") /\ UNCHANGED <<retrying, dead>>
     \/ FailJob(l) /\ Finish(l)
  /\ UNCHANGED <<now, suppressed, unqueued, waiting, drain, event, quota, bounds,
                 took, told>>

(* failQueuedEmail by the lane: with the claim it holds, after a refusal    *)
(* for good, or without one, when the domain or the body is gone.           *)
Fail(l) ==
  LET e == lane[l].email IN
  /\ lane[l].pc \in {"failHeld", "fail"}
  /\ IF /\ row[e].status = "queued" /\ CanEnd(row[e])
        /\ lane[l].pc = "failHeld" \/ Unclaimed(row[e])
     THEN /\ Put(e, Ended(row[e], "failed", "refused"))
          /\ Uncharge(e)
     ELSE UNCHANGED <<row, charge>>
  /\ Finish(l)
  /\ UNCHANGED <<now, suppressed, queue, drain, event, accepted, bounds, took, told>>

(* parkQueued: back behind the drain, the reservation handed back.          *)
Park(l) ==
  LET e == lane[l].email IN
  /\ lane[l].pc = "park"
  /\ IF CanTransition(row[e], "queued")
     THEN /\ Put(e, [row[e] EXCEPT !.status = "queued_quota"])
          /\ Release(Units(row[e].to)) /\ Uncharge(e)
     ELSE UNCHANGED <<row, quota>>
  /\ Finish(l)
  /\ UNCHANGED <<now, suppressed, queue, drain, event, bounds, took, told>>

(* The bookkeeping of a send SES took: the join key, the status, then the   *)
(* sent event, the counters and email.sent.                                 *)
Record(l) ==
  LET e == lane[l].email IN
  /\ lane[l].pc = "record"
  /\ Put(e, [row[e] EXCEPT !.sesId = took[e]])
  /\ Goto(l, "flip")
  /\ UNCHANGED <<now, suppressed, queue, drain, event, quota, bounds, took, told>>

FlipSent(l) ==
  LET e == lane[l].email IN
  /\ lane[l].pc = "flip"
  /\ Put(e, StatusCas(row[e], "sent"))
  /\ Goto(l, "count")
  /\ UNCHANGED <<now, suppressed, queue, drain, event, quota, bounds, took, told>>

CountSent(l) ==
  /\ lane[l].pc = "count"
  /\ told' = [told EXCEPT ![lane[l].email] = @ + 1]
  /\ Finish(l)
  /\ UNCHANGED <<now, row, took, suppressed, queue, drain, event, quota, bounds>>

(* Mutant: a dead letter that fails a claimed row.                          *)
DeadLetterClaimed(e) ==
  /\ e \in dead
  /\ dead' = dead \ {e}
  /\ IF CanEnd(row[e]) /\ row[e].status = "queued"
     THEN /\ Put(e, Ended(row[e], "failed", "retries_exhausted"))
          /\ Uncharge(e)
     ELSE UNCHANGED <<row, charge>>
  /\ UNCHANGED <<now, suppressed, unqueued, waiting, retrying, lane, drain, event,
                 accepted, bounds, took, told>>

(* The dead-letter handler: failQueuedEmail, without a claim.               *)
DeadLetter(e) ==
  /\ e \in dead
  /\ dead' = dead \ {e}
  /\ IF CanEnd(row[e]) /\ CanTransition(row[e], "queued")
     THEN /\ Put(e, Ended(row[e], "failed", "retries_exhausted"))
          /\ Uncharge(e)
     ELSE UNCHANGED <<row, charge>>
  /\ UNCHANGED <<now, suppressed, unqueued, waiting, retrying, lane, drain, event,
                 accepted, bounds, took, told>>

-----------------------------------------------------------------------------
(* The SES event consumer: SNS delivers an event of a message SES took at   *)
(* any time, in any order and any number of times.                          *)

LookUp(e, m, s) ==
  LET byId == row[e].sesId = m
      byTag == row[e].sesId = 0 /\ ~Unclaimed(row[e])
  IN
  /\ event.pc = "idle"
  /\ m \in 1..took[e]
  /\ byId \/ byTag           \* an unmatched event is only recorded aside
  /\ event' = [pc |-> "apply", email |-> e, msg |-> m, status |-> s, byTag |-> ~byId]
  /\ UNCHANGED <<now, rows, suppressed, queue, lane, drain, quota, bounds>>

(* The transaction: the join of a row matched by tag, the status, and the   *)
(* suppression a bounce or a complaint brings.                              *)
ApplyEvent ==
  LET e == event.email
      r == row[e]
      joins == ~event.byTag \/ (~Unclaimed(r) /\ r.sesId \in {0, event.msg})
      joined == IF event.byTag THEN [r EXCEPT !.sesId = event.msg] ELSE r
  IN
  /\ event.pc = "apply"
  /\ event' = NoEvent
  /\ \/ /\ joins
        /\ Put(e, StatusCas([joined EXCEPT !.why = IF Climbs(r, event.status)
                                                   THEN "ses_event" ELSE @],
                            event.status))
        /\ \E reported \in SUBSET r.to :
             /\ event.status \notin {"bounced", "complained"} => reported = {}
             /\ suppressed' = suppressed \cup reported
     \/ ~joins /\ UNCHANGED <<row, suppressed>>
  /\ UNCHANGED <<now, took, told, queue, lane, drain, quota, bounds>>

-----------------------------------------------------------------------------
(* The crons: sends.reconcile. *)

(* A claim older than the window that never recorded a message id.          *)
FailStalled(e) ==
  /\ row[e].status = "queued" /\ ~Unclaimed(row[e]) /\ CanEnd(row[e])
  /\ Old(row[e].sentAt)
  /\ Put(e, Ended(row[e], "failed", "send_interrupted"))
  /\ Uncharge(e)
  /\ UNCHANGED <<now, suppressed, queue, lane, drain, event, accepted, bounds, took, told>>

(* Mutant: a sweep that leaves every scheduled row to its job.              *)
RequeueUnscheduled(e) ==
  /\ CanTransition(row[e], "queued")
  /\ Old(row[e].createdAt) /\ row[e].scheduledAt = NoTime
  /\ waiting[e] = NoTime
  /\ waiting' = Insert(waiting, e, NoTime)
  /\ UNCHANGED <<now, rows, suppressed, unqueued, retrying, dead, lane, drain, event,
                 quota, bounds>>

(* A due row nothing has claimed: its job may be lost.                      *)
Requeue(e) ==
  /\ CanTransition(row[e], "queued")
  /\ Old(row[e].createdAt) /\ row[e].scheduledAt <= now
  /\ waiting[e] = NoTime      \* otherwise the insert collapses
  /\ waiting' = Insert(waiting, e, row[e].scheduledAt)
  /\ UNCHANGED <<now, rows, suppressed, unqueued, retrying, dead, lane, drain, event,
                 quota, bounds>>

(* quota.drain: a page of parked rows due by the end of today, as they were *)
(* when the page was read.                                                  *)
DrainPage(d) ==
  LET due == {e \in Emails : /\ row[e].status = "queued_quota"
                             /\ row[e].scheduledAt = NoTime
                                \/ Day(row[e].scheduledAt) <= Day(now)}
      seen(e) == [email |-> e, at |-> row[e].scheduledAt, units |-> Units(row[e].to)]
  IN
  /\ drain[d].pc = "idle" /\ due # {}
  /\ drain' = [drain EXCEPT ![d] = [IdleDrain EXCEPT !.pc = "release",
                                                    !.page = {seen(e) : e \in due}]]
  /\ UNCHANGED <<now, rows, suppressed, queue, lane, event, quota, bounds>>

(* releaseParked of one row: the reservation and the move commit together.  *)
(* A full day holds the rest of the team's page; a warm-up, a hold or a     *)
(* race leaves the row parked.                                              *)
DrainRelease(d, m) ==
  LET e == m.email
      rest == drain[d].page \ {m}
  IN
  /\ drain[d].pc = "release" /\ m \in drain[d].page
  /\ \/ /\ ~HasRoom(Day(now), m.units)
        /\ drain' = [drain EXCEPT ![d].page = {}]
        /\ UNCHANGED <<row, quota>>
     \/ /\ HasRoom(Day(now), m.units) /\ CanTransition(row[e], "queued_quota")
        /\ Reserve(e, Day(now), m.units)
        /\ Put(e, [row[e] EXCEPT !.status = "queued"])
        /\ drain' = [drain EXCEPT ![d].page = rest, ![d].moved = @ \cup {m}]
     \/ /\ drain' = [drain EXCEPT ![d].page = rest]
        /\ UNCHANGED <<row, quota>>
  /\ UNCHANGED <<now, suppressed, queue, lane, event, bounds, took, told>>

(* One statement enqueues the page; it succeeds, or fails whole.            *)
DrainEnqueue(d) ==
  LET of(e) == CHOOSE m \in drain[d].moved : m.email = e IN
  /\ drain[d].pc = "release" /\ drain[d].page = {}
  /\ \/ /\ waiting' = [e \in Emails |-> IF e \in {m.email : m \in drain[d].moved}
                                        THEN Insert(waiting, e, of(e).at)[e]
                                        ELSE waiting[e]]
        /\ drain' = [drain EXCEPT ![d] = IdleDrain]
     \/ /\ drain[d].moved # {}
        /\ drain' = [drain EXCEPT ![d].pc = "repark"]
        /\ UNCHANGED waiting
  /\ UNCHANGED <<now, rows, suppressed, unqueued, retrying, dead, lane, event, quota, bounds>>

(* Mutant: the units go back even when a send lane has the row.             *)
DrainReparkAnyway(d, m) ==
  LET e == m.email IN
  /\ drain[d].pc = "repark" /\ m \in drain[d].moved
  /\ IF CanTransition(row[e], "queued")
     THEN Put(e, [row[e] EXCEPT !.status = "queued_quota"]) /\ Uncharge(e)
     ELSE UNCHANGED <<row, charge>>
  /\ drain' = [drain EXCEPT ![d].pc = "refund", ![d].moved = @ \ {m}, ![d].owed = m.units]
  /\ UNCHANGED <<now, suppressed, queue, lane, event, accepted, bounds, took, told>>

(* After a failed enqueue each row is parked again, and then its units go   *)
(* back, unless a send lane has it: two statements, outside a transaction.  *)
DrainRepark(d, m) ==
  LET e == m.email
      rest == drain[d].moved \ {m}
  IN
  /\ drain[d].pc = "repark" /\ m \in drain[d].moved
  /\ IF CanTransition(row[e], "queued")
     THEN /\ Put(e, [row[e] EXCEPT !.status = "queued_quota"]) /\ Uncharge(e)
          /\ drain' = [drain EXCEPT ![d] = [@ EXCEPT !.pc = "refund", !.moved = rest,
                                                    !.owed = m.units]]
     ELSE drain' = [drain EXCEPT ![d].moved = rest] /\ UNCHANGED <<row, charge>>
  /\ UNCHANGED <<now, suppressed, queue, lane, event, accepted, bounds, took, told>>

DrainRefund(d) ==
  /\ drain[d].pc = "refund"
  /\ Release(drain[d].owed)
  /\ drain' = [drain EXCEPT ![d].pc = "repark", ![d].owed = 0]
  /\ UNCHANGED <<now, rows, suppressed, queue, lane, event, charge, bounds>>

(* The run is over, or its process died.                                    *)
DrainStop(d) ==
  /\ drain[d].pc # "idle"
  /\ drain' = [drain EXCEPT ![d] = IdleDrain]
  /\ UNCHANGED <<now, rows, suppressed, queue, lane, event, quota, bounds>>

Tick ==
  /\ now < Horizon
  /\ now' = now + 1
  /\ UNCHANGED <<rows, suppressed, queue, lane, drain, event, quota, bounds>>

-----------------------------------------------------------------------------

ApiStep(e) ==
  \/ \E to \in SUBSET Recipients, at \in ScheduleTimes : Accept(e, to, at)
  \/ \E to \in SUBSET Recipients : RecordSuppressed(e, to)
  \/ Enqueue(e) \/ LoseEnqueue(e)
  \/ Cancel(e) \/ DeleteDomain(e) \/ CancelHeld(e)
  \/ \E at \in ScheduleTimes \ {NoTime} : Move(e, at)

LaneWork(l) ==
  \/ ReadRow(l) \/ CheckEligible(l) \/ Render(l) \/ Recheck(l) \/ Claim(l)
  \/ SesTakes(l) \/ SesTakesUnnamed(l) \/ SesRefuses(l) \/ SesDeadline(l)
  \/ ReleaseClaim(l) \/ Fail(l)
  \/ Park(l) \/ Record(l) \/ FlipSent(l) \/ CountSent(l)

LaneStep(l) ==
  \/ LaneWork(l) \/ Throw(l) \/ Expire(l)
  \/ \E e \in Emails : FetchNew(l, e) \/ \E k \in 1..RetryLimit : FetchRetry(l, e, k)

EventStep == ApplyEvent \/ \E e \in Emails : \E m \in 1..took[e], s \in EventStatuses : LookUp(e, m, s)

DrainStep(d) ==
  \/ DrainPage(d) \/ DrainEnqueue(d) \/ DrainRefund(d) \/ DrainStop(d)
  \/ \E m \in drain[d].page : DrainRelease(d, m)
  \/ \E m \in drain[d].moved : DrainRepark(d, m)

CronStep(e) == DeadLetter(e) \/ FailStalled(e) \/ Requeue(e)

Next ==
  \/ \E e \in Emails : ApiStep(e) \/ CronStep(e)
  \/ \E l \in Lanes : LaneStep(l)
  \/ \E d \in Drains : DrainStep(d)
  \/ EventStep
  \/ \E r \in Recipients : Suppress(r)
  \/ Tick

Spec == Init /\ [][Next]_vars

(* What the deployment keeps running: a lane that is alive finishes its     *)
(* step, pg-boss hands every due job out in turn, a dead letter does not    *)
(* meet some lane's claim every single time, the reconcile cron runs every  *)
(* fifteen minutes, and time passes.  SES publishes events of what it took, *)
(* and they are consumed: a row whose lane died between the join key and    *)
(* the status has no one else left, the sweep leaves it alone.  Nothing is  *)
(* assumed of the API's enqueue, of a drain or of SES's answers.            *)
Fairness ==
  /\ \A l \in Lanes : WF_vars(LaneWork(l))
  /\ \A e \in Emails : /\ SF_vars(\E l \in Lanes : FetchNew(l, e))
                         /\ \A k \in 1..RetryLimit :
                              SF_vars(\E l \in Lanes : FetchRetry(l, e, k))
                         /\ SF_vars(DeadLetter(e) /\ Unclaimed(row[e]))
                         /\ WF_vars(FailStalled(e))
                         /\ WF_vars(Requeue(e))
                         /\ SF_vars(\E m \in 1..took[e], s \in EventStatuses : LookUp(e, m, s))
  /\ WF_vars(ApplyEvent)
  /\ WF_vars(Tick)

FairSpec == Spec /\ Fairness

-----------------------------------------------------------------------------
(* Properties *)

(* Why the claim works.  A lane owns an email from its claim to the end of  *)
(* its bookkeeping; until SES answers, it holds it.                         *)
HoldPcs == {"submit", "release", "failHeld"}
OwnPcs == HoldPcs \cup {"record", "flip", "count"}

Interrupted(r) == r.status = "failed" /\ r.why = "send_interrupted"

(* One lane at most owns an email.                                          *)
OneOwner ==
  \A l, m \in Lanes : /\ lane[l].pc \in OwnPcs /\ lane[m].pc \in OwnPcs
                      /\ lane[l].email = lane[m].email
                      => l = m

(* Its owner has not announced it.  While the owner only holds it, SES has  *)
(* taken nothing and the row is claimed, or was written off by the sweep.   *)
OwnerKnows ==
  \A l \in Lanes :
    LET e == lane[l].email IN
    /\ lane[l].pc \in OwnPcs => told[e] = 0
    /\ lane[l].pc \in OwnPcs \ HoldPcs => took[e] = 1
    /\ lane[l].pc \in HoldPcs =>
         /\ took[e] = 0
         /\ \/ row[e].status = "queued" /\ ~Unclaimed(row[e])
            \/ Interrupted(row[e])

(* Once SES has taken it, the row is claimed or failed, and never back in a *)
(* state another lane, a drain or a cancel acts on.                         *)
TakenStays ==
  \A e \in Emails :
    /\ took[e] \in {0, 1} /\ told[e] <= took[e]
    /\ took[e] = 1 =>
         /\ row[e].status \in SesStatuses \cup {"queued"}
         /\ IF row[e].status = "failed"
            THEN row[e].why \in {"send_interrupted", "ses_event"}
            ELSE ~Unclaimed(row[e])

EventTaken == event.pc = "apply" => took[event.email] = 1

ClaimInv == OneOwner /\ OwnerKnows /\ TakenStays /\ EventTaken

(* SES takes an email at most once, whatever lanes, retries, expired jobs,  *)
(* crashes and sweeps do (the claim of sendQueued).                         *)
AtMostOneSend == \A e \in Emails : took[e] <= 1

(* An email is counted and announced as sent at most once, and only when    *)
(* SES took it (the "single-shot" comment above the email.sent fan-out).    *)
ToldOnce == \A e \in Emails : told[e] <= took[e]

(* A customer told "canceled" or "suppressed" never has that mail go out,   *)
(* even when the lane had already passed its checks.                        *)
EndedUnsent ==
  \A e \in Emails : row[e].status \in {"canceled", "suppressed"} => took[e] = 0

(* Mail reported failed that SES nevertheless took is only mail whose send  *)
(* was interrupted after the claim, or that SES itself then reported failed:*)
(* never a refusal, a dead letter or a deleted domain.                      *)
FailedUnsent ==
  \A e \in Emails : row[e].status = "failed" /\ took[e] > 0
                     => row[e].why \in {"send_interrupted", "ses_event"}

(* The units that rows hold against a day, one pair for each.               *)
Reserved(d) ==
  UNION {{e} \X (1..charge[e].units) : e \in {e \in Emails : charge[e].day = d}}

(* The units of the rows let into the queue against a day never exceed the  *)
(* day's counter, and so never the plan's ceiling, through any sequence of  *)
(* parks, refunds, drains and failed enqueues of a day (quota.ts, where     *)
(* units are reserved before a row moves and given back after it parks).    *)
(* Across midnight it takes one email: RefundsItsDay says what a refund     *)
(* does to the next day's counter; and it takes one drain at a time.        *)
ReservationsCovered ==
  \A d \in Days : Cardinality(Reserved(d)) <= accepted[d] /\ accepted[d] <= Ceiling

(* cron.ts:488 "A row due on a later UTC day is charged on that day [...]   *)
(* when it comes": mail in the queue for a later day holds its reservation  *)
(* on that very day, so that no instant can gather more than a day's cap.   *)
ChargedAhead ==
  \A e \in Emails :
    /\ row[e].status = "queued" /\ row[e].scheduledAt # NoTime
    /\ Day(row[e].scheduledAt) > Day(now)
    => /\ charge[e].day = Day(row[e].scheduledAt)
       /\ charge[e].units >= Units(row[e].to)

(* A reported status never goes back: not down the ladder, and not into the *)
(* queue (applyStatusCas, and the exact guards of the queue states).        *)
NeverBack ==
  [][\A e \in Emails :
       row[e].status \notin Waiting \cup {"absent"}
         => Rank[row'[e].status] >= Rank[row[e].status]]_vars

(* app.ts:4678 "a LATER time is exact": no email is claimed for sending     *)
(* before the scheduled_at its row holds.  Refuted: a lane looks at it once.*)
NeverEarly ==
  [][\A e \in Emails :
       Unclaimed(row[e]) /\ ~Unclaimed(row'[e]) => row[e].scheduledAt <= now]_vars

(* send-email.ts:394 "Against the same counter accept charged": a row that  *)
(* parks gives its units back to no day but the one that was charged.       *)
(* Refuted: the release is of today.                                        *)
RefundsItsDay ==
  [][\A e \in Emails :
       row[e].status = "queued" /\ row'[e].status = "queued_quota"
         => \A d \in Days \ {charge[e].day} : accepted'[d] = accepted[d]]_vars

(* Every queued email leaves the queue: sent, parked, failed or ended, with *)
(* its job lost, its worker killed at any step or SES never answering.      *)
Settles == \A e \in Emails : row[e].status = "queued" ~> row[e].status # "queued"

(* The row and SES together keep EmailPromise: cancel, suppression, sends,  *)
(* sweeps and events interleave as if each email had one owner.             *)
Fate(r) ==
  CASE r.status = "absent" -> "none"
    [] r.status \in Waiting -> "accepted"
    [] r.status \in {"canceled", "suppressed"} -> "withdrawn"
    [] r.status = "failed" -> "failed"
    [] OTHER -> "sent"

Promise == INSTANCE EmailPromise WITH fate <- [e \in Emails |-> Fate(row[e])],
                                      left <- took

KeepsPromise == Promise!Spec

=============================================================================
