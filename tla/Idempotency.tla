---------------------------- MODULE Idempotency -----------------------------
(***************************************************************************)
(* One Idempotency-Key of a team, and the requests that carry it: POST     *)
(* /emails, /emails/batch and the inbox sends all claim the key, run their *)
(* accept transaction, and record its email in that transaction.  A claim  *)
(* left incomplete for the lease is taken over by a retry.                 *)
(*                                                                         *)
(* Keys share nothing, so one is enough.  The clock is the requests'; the  *)
(* statements of a request (claim, read, accept, release) are its steps.   *)
(***************************************************************************)
EXTENDS Integers

CONSTANTS
  Requests,   \* the requests sent with the key, retries included
  Bodies,     \* the canonical bodies they carry
  None,       \* no request, email or body
  Lease,      \* IN_FLIGHT_LEASE_MS: an incomplete claim older than it is stale
  Ttl,        \* TTL_MS: the life of a record
  Horizon     \* bound: the last instant of the clock

ASSUME KeyAssumption ==
  /\ None \notin Requests \cup Bodies
  /\ Lease \in Nat /\ Ttl \in Nat /\ Horizon \in Nat

VARIABLES
  now,
  record,     \* the row of idempotency_keys, or NoRecord
  req,        \* where each request is, its body, and the email it answers with
  sent        \* observer: the emails accepted, with the life of their record

vars == <<now, record, req, sent>>

(* An email is named after the request whose transaction inserted it; owner *)
(* (an observer) is the request that made the claim.                        *)
NoRecord == [body |-> None, email |-> None, owner |-> None, createdAt |-> 0, expiresAt |-> 0]
Idle == [pc |-> "idle", body |-> None, email |-> None]

Exists == record.body # None
Complete == record.email # None

(* A request still at work, answered, or gone without an answer.            *)
Working == {"look", "accept", "release", "superseded", "lookAgain"}
Answered == {"ok", "conflict", "inFlight", "refused", "failed", "supersededAnswer"}
Pcs == {"idle", "dead"} \cup Working \cup Answered

(* Rows and requests have their types, and a key without a row has no       *)
(* response.                                                                *)
TypeOK ==
  /\ now \in 0..Horizon
  /\ record \in [body : Bodies \cup {None}, email : Requests \cup {None},
                 owner : Requests \cup {None}, createdAt : 0..Horizon,
                 expiresAt : 0..(Horizon + Ttl)]
  /\ Complete => Exists
  /\ req \in [Requests -> [pc : Pcs, body : Bodies \cup {None},
                           email : Requests \cup {None}]]
  /\ \A q \in Requests : req[q].pc # "idle" => req[q].body \in Bodies
  /\ sent \subseteq [email : Requests, body : Bodies, at : 0..Horizon,
                     until : 0..(Horizon + Ttl)]

Init ==
  /\ now = 0
  /\ record = NoRecord
  /\ req = [q \in Requests |-> Idle]
  /\ sent = {}

Goto(q, pc) == req' = [req EXCEPT ![q].pc = pc]
Answer(q, e) == req' = [req EXCEPT ![q].pc = "ok", ![q].email = e]

-----------------------------------------------------------------------------

(* Mutant: a stale claim is taken over even when it was completed.          *)
ClaimableStale(b) ==
  \/ ~Exists
  \/ record.expiresAt <= now
  \/ record.createdAt < now - Lease /\ record.body = b

(* The WHERE of beginIdempotent's upsert.                                   *)
Claimable(b) ==
  \/ ~Exists
  \/ record.expiresAt <= now
  \/ ~Complete /\ record.createdAt < now - Lease /\ record.body = b

(* Mutant: the two times of the row swapped.                                *)
ClaimedSwapped(q, b) == [body |-> b, email |-> None, owner |-> q, createdAt |-> now + Ttl,
                         expiresAt |-> now]

Claimed(q, b) == [body |-> b, email |-> None, owner |-> q, createdAt |-> now,
                  expiresAt |-> now + Ttl]

(* The upsert: the claim is this request's, or it has to look.              *)
Begin(q, b) ==
  /\ req[q].pc = "idle"
  /\ IF Claimable(b)
     THEN /\ record' = Claimed(q, b)
          /\ req' = [req EXCEPT ![q] = [Idle EXCEPT !.pc = "accept", !.body = b]]
     ELSE /\ req' = [req EXCEPT ![q] = [Idle EXCEPT !.pc = "look", !.body = b]]
          /\ UNCHANGED record
  /\ UNCHANGED <<now, sent>>

(* The SELECT after a refused upsert.                                       *)
Visible == Exists /\ record.expiresAt > now

Look(q) ==
  /\ req[q].pc = "look"
  /\ \/ (~Visible \/ record.body # req[q].body) /\ Goto(q, "conflict")
     \/ Visible /\ record.body = req[q].body /\ ~Complete /\ Goto(q, "inFlight")
     \/ Visible /\ record.body = req[q].body /\ Complete /\ Answer(q, record.email)
  /\ UNCHANGED <<now, record, sent>>

(* The email commits with the response; what follows the commit (queueing,  *)
(* reading the answer) may still fail.                                      *)
Commit(q) ==
  /\ record' = [record EXCEPT !.email = q]
  /\ sent' = sent \cup {[email |-> q, body |-> req[q].body, at |-> now,
                         until |-> record.expiresAt]}
  /\ Answer(q, q) \/ Goto(q, "release")

(* Mutant: completeIdempotent without its isNull(responseEmailIds).         *)
AcceptOver(q) ==
  /\ req[q].pc = "accept"
  /\ IF Exists THEN Commit(q) ELSE Goto(q, "superseded") /\ UNCHANGED <<record, sent>>
  /\ UNCHANGED now

(* Mutant: the response is recorded before the accept, outside of it.       *)
AcceptEarly(q) ==
  /\ req[q].pc = "accept"
  /\ IF Exists /\ ~Complete
     THEN \/ Commit(q)
          \/ /\ record' = [record EXCEPT !.email = q]
             /\ Goto(q, "release") /\ UNCHANGED sent
     ELSE Goto(q, "superseded") /\ UNCHANGED <<record, sent>>
  /\ UNCHANGED now

(* The accept transaction and completeIdempotent in it: the email commits,  *)
(* or rolls back because no incomplete claim is left.                       *)
Accept(q) ==
  /\ req[q].pc = "accept"
  /\ IF Exists /\ ~Complete
     THEN Commit(q)
     ELSE Goto(q, "superseded") /\ UNCHANGED <<record, sent>>
  /\ UNCHANGED now

(* The accept refused the send, or an error aborted it.                     *)
Abort(q) ==
  /\ req[q].pc = "accept"
  /\ Goto(q, "release")
  /\ UNCHANGED <<now, record, sent>>

(* releaseIdempotent, by team and key: it deletes an incomplete claim,      *)
(* whoever made it.                                                         *)
Release(q) ==
  /\ req[q].pc = "release"
  /\ record' = IF Exists /\ ~Complete THEN NoRecord ELSE record
  /\ \E pc \in {"refused", "failed"} : Goto(q, pc)
  /\ UNCHANGED <<now, sent>>

(* A superseded request reads the response with a second beginIdempotent,   *)
(* which claims a key that is free again; the request answers 409 all the   *)
(* same.                                                                    *)
BeginAgain(q) ==
  /\ req[q].pc = "superseded"
  /\ IF Claimable(req[q].body)
     THEN record' = Claimed(q, req[q].body) /\ Goto(q, "supersededAnswer")
     ELSE Goto(q, "lookAgain") /\ UNCHANGED record
  /\ UNCHANGED <<now, sent>>

LookAgain(q) ==
  /\ req[q].pc = "lookAgain"
  /\ IF Visible /\ record.body = req[q].body /\ Complete
     THEN Answer(q, record.email)
     ELSE Goto(q, "supersededAnswer")
  /\ UNCHANGED <<now, record, sent>>

(* The process dies; a release that fails is one that never ran.            *)
Die(q) ==
  /\ req[q].pc \in Working
  /\ Goto(q, "dead")
  /\ UNCHANGED <<now, record, sent>>

(* idempotency.purge. *)
Purge ==
  /\ Exists /\ record.expiresAt < now
  /\ record' = NoRecord
  /\ UNCHANGED <<now, req, sent>>

Tick == now < Horizon /\ now' = now + 1 /\ UNCHANGED <<record, req, sent>>

Next ==
  \/ \E q \in Requests :
       \/ \E b \in Bodies : Begin(q, b)
       \/ Look(q) \/ Accept(q) \/ Abort(q) \/ Release(q)
       \/ BeginAgain(q) \/ LookAgain(q) \/ Die(q)
  \/ Purge \/ Tick

Spec == Init /\ [][Next]_vars

-----------------------------------------------------------------------------
(* Properties *)

(* One record of the key lets one email out: a second is accepted only once *)
(* the record of the first has expired, however claims are taken over,      *)
(* released by a stranger and completed late.                               *)
OneEmailPerRecord ==
  \A x, y \in sent : x # y => x.until <= y.at \/ y.until <= x.at

(* Why: a completed record stands until it expires.                         *)
SentStands ==
  \A x \in sent : x.until <= now \/ (record.email = x.email /\ record.expiresAt = x.until)

(* The response on record was accepted.                                     *)
RecordSent == Complete => \E x \in sent : x.email = record.email

(* A 200 names an email that was accepted, never one a failed accept rolled *)
(* back.                                                                    *)
AnswersExist ==
  \A q \in Requests : req[q].pc = "ok" => \E x \in sent : x.email = req[q].email

(* idempotency.ts:24 "same key + same canonical body -> stored response":   *)
(* a 200 names an email accepted for the body of the request.  Refuted: the *)
(* record is completed and released by key, whoever claimed it.             *)
AnswersOwnBody ==
  \A q \in Requests :
    req[q].pc = "ok" => \E x \in sent : x.email = req[q].email /\ x.body = req[q].body

(* app.ts:4034 "A failed request must not brick its idempotency key for the *)
(* lease": an incomplete claim belongs to a request that is still at work,  *)
(* or that died.  Refuted: LookAgain claims a key that is free again.       *)
NeverBricked ==
  Exists /\ ~Complete => req[record.owner].pc \notin Answered

=============================================================================
