--------------------------- MODULE BroadcastFanout --------------------------
(***************************************************************************)
(* One broadcast from its draft to its end.  A walk pages through the      *)
(* audience by contact id and writes one email row per contact; a walk cut *)
(* off is walked again from the cursor it left, and two walks may overlap. *)
(* Beside it run the send lanes, the drain of parked rows, the reconcile   *)
(* sweeps, the two calls that end a broadcast (finalize and stop), and an  *)
(* audience that changes under the walk.                                   *)
(*                                                                         *)
(* An action is one statement or transaction, or one queue call.           *)
(***************************************************************************)
EXTENDS Integers, FiniteSets

CONSTANTS
  Contacts,          \* contact ids, in the order of the keyset pages
  Batch,             \* contacts per page
  Walkers,           \* broadcast.send workers
  Lanes,             \* email.send workers
  Crons,             \* broadcasts.reconcile runs
  Drains,            \* quota.drain runs
  Api,               \* the caller of the stop
  MaxDeaths,         \* bound: processes that die or throw
  MaxChanges         \* bound: contacts that leave or rejoin the audience

Procs == Walkers \cup Crons \cup Drains \cup {Api}

ASSUME FanoutAssumption ==
  /\ Contacts \subseteq Nat \ {0} /\ IsFiniteSet(Contacts)
  /\ Batch \in Nat \ {0} /\ MaxDeaths \in Nat /\ MaxChanges \in Nat
  /\ Walkers \cap Crons = {} /\ Drains \cap (Walkers \cup Crons) = {}
  /\ Api \notin Walkers \cup Crons \cup Drains

VARIABLES
  status,    \* broadcasts.status
  cursor,    \* broadcasts.fan_out_cursor, 0 for null
  walked,    \* broadcasts.recipient_count is set
  created,   \* a broadcast.send job is in state created
  retries,   \* broadcast.send jobs in state retry
  row,       \* the email row of each contact
  mail,      \* contacts whose row has an email.send job
  lane,      \* what each send lane holds in memory
  at,        \* where each of the other processes is
  walk,      \* what each walk holds: its cursor, its page, what is left of it, its batch
  page,      \* the rows a drain read
  moved,     \* the rows it released; whether a process' round of a stop moved a row
  owed,      \* units a process has yet to give back
  accepted,  \* the team's usage counter
  out,       \* contacts unsubscribed, suppressed or opted out
  deaths, changes,
  everOut,   \* observer: contacts that were out at some time
  stopped    \* observer: a stop has answered its caller

broadcast == <<status, cursor, walked>>
jobs == <<created, retries, mail>>
drained == <<page, moved>>
bounds == <<deaths, changes>>
audience == <<out, everOut>>
vars == <<broadcast, jobs, row, lane, at, walk, drained, owed, accepted, audience,
          bounds, stopped>>

Statuses == {"draft", "scheduled", "sending", "sent", "canceled"}
RowStates == {"none", "queued", "claimed", "parked", "sent", "canceled", "ended"}
Open == {"queued", "claimed", "parked"}    \* latest_status queued or queued_quota
Walks == [cursor : Contacts \cup {0}, page : SUBSET Contacts, todo : SUBSET Contacts,
          batch : SUBSET Contacts]
Places == {"idle", "read", "claim", "page", "beat", "insert", "end", "probe", "finish",
           "parked", "queued", "refund", "release", "repark", "give"}
LaneSteps == {"idle", "read", "look", "claim", "submit", "park"}
NoWalk == [cursor |-> 0, page |-> {}, todo |-> {}, batch |-> {}]
IdleLane == [pc |-> "idle", contact |-> 0]

(* Every variable has its type.                                             *)
TypeOK ==
  /\ status \in Statuses /\ cursor \in Contacts \cup {0} /\ walked \in BOOLEAN
  /\ created \in BOOLEAN /\ retries \in Nat /\ mail \subseteq Contacts
  /\ row \in [Contacts -> RowStates]
  /\ lane \in [Lanes -> [pc : LaneSteps, contact : Contacts \cup {0}]]
  /\ \A l \in Lanes : lane[l].pc # "idle" => lane[l].contact \in Contacts
  /\ at \in [Procs -> Places] /\ walk \in [Walkers -> Walks]
  /\ page \in [Drains -> SUBSET Contacts] /\ moved \in [Procs -> SUBSET Contacts]
  /\ owed \in [Procs -> Nat] /\ accepted \in Nat
  /\ out \subseteq Contacts /\ everOut \subseteq Contacts
  /\ deaths \in Nat /\ changes \in Nat /\ stopped \in BOOLEAN

Init ==
  /\ status = "draft" /\ cursor = 0 /\ walked = FALSE
  /\ created = FALSE /\ retries = 0 /\ mail = {}
  /\ row = [c \in Contacts |-> "none"]
  /\ lane = [l \in Lanes |-> IdleLane]
  /\ at = [p \in Procs |-> "idle"]
  /\ walk = [w \in Walkers |-> NoWalk]
  /\ page = [d \in Drains |-> {}] /\ moved = [p \in Procs |-> {}]
  /\ owed = [p \in Procs |-> 0] /\ accepted = 0
  /\ out = {} /\ everOut = {} /\ deaths = 0 /\ changes = 0 /\ stopped = FALSE

Goto(p, pc) == at' = [at EXCEPT ![p] = pc]
Give(n) == accepted' = IF accepted >= n THEN accepted - n ELSE 0   \* releaseQuota
Put(c, s) == row' = [row EXCEPT ![c] = s]

-----------------------------------------------------------------------------
(* POST /broadcasts/{id}/send: scheduled, then enqueued; the job may be     *)
(* lost.                                                                    *)
Schedule ==
  /\ status = "draft"
  /\ status' = "scheduled"
  /\ created' \in BOOLEAN
  /\ UNCHANGED <<cursor, walked, retries, mail, row, lane, at, walk, drained, owed,
                 accepted, audience, bounds, stopped>>

(* A contact unsubscribes, is suppressed or leaves the topic, or comes back.*)
Change(c) ==
  /\ changes < MaxChanges /\ changes' = changes + 1
  /\ out' = IF c \in out THEN out \ {c} ELSE out \cup {c}
  /\ everOut' = everOut \cup {c}
  /\ UNCHANGED <<broadcast, jobs, row, lane, at, walk, drained, owed, accepted, deaths,
                 stopped>>

-----------------------------------------------------------------------------
(* The walk: sendBroadcast. *)

(* Mutant: a job in state retry is taken whether there is one or not.       *)
FetchAny(w) ==
  /\ at[w] = "idle"
  /\ \/ created /\ created' = FALSE /\ UNCHANGED retries
     \/ ~created /\ retries' = retries - 1 /\ UNCHANGED created
  /\ Goto(w, "read")
  /\ UNCHANGED <<broadcast, mail, row, lane, walk, drained, owed, accepted, audience,
                 bounds, stopped>>

(* A worker takes a job: the created one, or one whose retry is due.        *)
Fetch(w) ==
  /\ at[w] = "idle"
  /\ \/ created /\ created' = FALSE /\ UNCHANGED retries
     \/ retries > 0 /\ retries' = retries - 1 /\ UNCHANGED created
  /\ Goto(w, "read")
  /\ UNCHANGED <<broadcast, mail, row, lane, walk, drained, owed, accepted, audience,
                 bounds, stopped>>

(* The read at the head; a broadcast not due, a held region, a pause or a   *)
(* suspension puts the job back.  The cursor is the one read here.          *)
ReadBroadcast(w) ==
  /\ at[w] = "read"
  /\ \/ status \notin {"scheduled", "sending"} /\ Goto(w, "idle") /\ UNCHANGED <<walk, created>>
     \/ /\ status \in {"scheduled", "sending"}
        /\ created' = TRUE /\ Goto(w, "idle") /\ UNCHANGED walk
     \/ /\ status \in {"scheduled", "sending"}
        /\ walk' = [walk EXCEPT ![w] = [NoWalk EXCEPT !.cursor = cursor]]
        /\ Goto(w, "claim") /\ UNCHANGED created
  /\ UNCHANGED <<broadcast, retries, mail, row, lane, drained, owed, accepted, audience,
                 bounds, stopped>>

(* The claim that a racing stop loses to or wins against; screening may     *)
(* then end this walk until the judge, or the sweep, queues another.        *)
ClaimBroadcast(w) ==
  /\ at[w] = "claim"
  /\ IF status \in {"scheduled", "sending"}
     THEN /\ status' = "sending"
          /\ \/ Goto(w, "page") /\ UNCHANGED walk
             \/ Goto(w, "idle") /\ walk' = [walk EXCEPT ![w] = NoWalk]
     ELSE Goto(w, "idle") /\ walk' = [walk EXCEPT ![w] = NoWalk] /\ UNCHANGED status
  /\ UNCHANGED <<cursor, walked, jobs, row, lane, drained, owed, accepted, audience,
                 bounds, stopped>>

(* A keyset page: the first contacts past the cursor, at most Batch.        *)
IsPage(from, p) ==
  LET rest == {c \in Contacts \ out : c > from} IN
  /\ p \subseteq rest /\ Cardinality(p) <= Batch
  /\ p = rest \/ Cardinality(p) = Batch
  /\ \A c \in p, d \in rest \ p : c < d

ReadPage(w) ==
  /\ at[w] = "page"
  /\ \E p \in SUBSET Contacts :
       /\ IsPage(walk[w].cursor, p)
       /\ walk' = [walk EXCEPT ![w].page = p]
       /\ Goto(w, IF p = {} THEN "end" ELSE "beat")
  /\ UNCHANGED <<broadcast, jobs, row, lane, drained, owed, accepted, audience, bounds,
                 stopped>>

(* A walk that lost the broadcast: after a stop it sweeps like the stop.    *)
LeaveWalk(w) == /\ Goto(w, IF status = "canceled" THEN "parked" ELSE "idle")
                /\ walk' = [walk EXCEPT ![w] = NoWalk]

(* Mutant: the heartbeat persists the page it is about to write.            *)
HeartbeatAhead(w) ==
  /\ at[w] = "beat"
  /\ \/ /\ status = "sending"
        /\ \E c \in walk[w].page : (\A d \in walk[w].page : d <= c) /\ cursor' = c
        /\ walk' = [walk EXCEPT ![w].todo = walk[w].page]
        /\ Goto(w, "insert") /\ UNCHANGED created
     \/ status # "sending" /\ LeaveWalk(w) /\ UNCHANGED <<cursor, created>>
  /\ UNCHANGED <<status, walked, retries, mail, row, lane, drained, owed, accepted,
                 audience, bounds, stopped>>

(* The heartbeat persists the cursor of the last page committed, and learns *)
(* of a stop; a pause ends the walk here.  Contacts found suppressed or     *)
(* opted out since the page was read are skipped.                           *)
Heartbeat(w) ==
  /\ at[w] = "beat"
  /\ \/ /\ status = "sending" /\ cursor' = walk[w].cursor
        /\ \/ /\ created' = TRUE /\ Goto(w, "idle")
              /\ walk' = [walk EXCEPT ![w] = NoWalk]
           \/ /\ \E skip \in SUBSET (walk[w].page \cap out) :
                   walk' = [walk EXCEPT ![w].todo = walk[w].page \ skip]
              /\ Goto(w, "insert") /\ UNCHANGED created
     \/ status # "sending" /\ LeaveWalk(w) /\ UNCHANGED <<cursor, created>>
  /\ UNCHANGED <<status, walked, retries, mail, row, lane, drained, owed, accepted,
                 audience, bounds, stopped>>

(* The transaction of one contact: the row under its unique key, then a     *)
(* reservation, or the row parks (over the plan, behind a warm-up, past the *)
(* region's share, held for review).  A conflict charges nothing.           *)
InsertRow(w) ==
  /\ at[w] = "insert"
  /\ \E c \in walk[w].todo :
       /\ \A d \in walk[w].todo : c <= d
       /\ \/ /\ row[c] = "none" /\ Put(c, "queued") /\ accepted' = accepted + 1
             /\ walk' = [walk EXCEPT ![w].todo = @ \ {c}, ![w].batch = @ \cup {c}]
          \/ /\ row[c] = "none" /\ Put(c, "parked") /\ UNCHANGED accepted
             /\ walk' = [walk EXCEPT ![w].todo = @ \ {c}]
          \/ /\ row[c] # "none" /\ UNCHANGED <<row, accepted>>
             /\ walk' = [walk EXCEPT ![w].todo = @ \ {c}]
  /\ UNCHANGED <<broadcast, jobs, lane, at, drained, owed, audience, bounds, stopped>>

(* The page's jobs in one insert, whose failure is only logged; the cursor  *)
(* moves past the page.                                                     *)
EnqueuePage(w) ==
  /\ at[w] = "insert" /\ walk[w].todo = {}
  /\ mail' \in {mail, mail \cup walk[w].batch}
  /\ \E c \in walk[w].page :
       /\ \A d \in walk[w].page : d <= c
       /\ walk' = [walk EXCEPT ![w] = [NoWalk EXCEPT !.cursor = c]]
  /\ Goto(w, "page")
  /\ UNCHANGED <<broadcast, created, retries, row, lane, drained, owed, accepted, audience,
                 bounds, stopped>>

(* No contact is left: recipientCount marks the end of the walk.            *)
EndWalk(w) ==
  /\ at[w] = "end"
  /\ IF status = "sending"
     THEN /\ walked' = TRUE /\ cursor' = 0 /\ Goto(w, "probe")
          /\ walk' = [walk EXCEPT ![w] = NoWalk]
     ELSE LeaveWalk(w) /\ UNCHANGED <<walked, cursor>>
  /\ UNCHANGED <<status, jobs, row, lane, drained, owed, accepted, audience,
                 bounds, stopped>>

-----------------------------------------------------------------------------
(* finalizeBroadcast, by a walk, by the drain or by the cron. *)

Probe(p) ==
  /\ at[p] = "probe"
  /\ Goto(p, IF \E c \in Contacts : row[c] \in Open THEN "idle" ELSE "finish")
  /\ UNCHANGED <<broadcast, jobs, row, lane, walk, drained, owed, accepted, audience,
                 bounds, stopped>>

Finish(p) ==
  /\ at[p] = "finish"
  /\ status' = IF status = "sending" /\ walked THEN "sent" ELSE status
  /\ Goto(p, "idle")
  /\ UNCHANGED <<cursor, walked, jobs, row, lane, walk, drained, owed, accepted, audience,
                 bounds, stopped>>

(* Mutant: only broadcasts that never started are looked for.               *)
RekickUnstarted ==
  /\ status = "scheduled" /\ ~walked
  /\ created' = TRUE
  /\ UNCHANGED <<broadcast, retries, mail, row, lane, at, walk, drained, owed, accepted,
                 audience, bounds, stopped>>

(* reconcileStalledBroadcasts: a walk that went quiet is queued again, a    *)
(* finished one finalized.  How long is quiet is left open.                 *)
Rekick ==
  /\ status \in {"scheduled", "sending"} /\ ~walked
  /\ created' = TRUE
  /\ UNCHANGED <<broadcast, retries, mail, row, lane, at, walk, drained, owed, accepted,
                 audience, bounds, stopped>>

CronFinalize(p) ==
  /\ at[p] = "idle" /\ status = "sending" /\ walked
  /\ Goto(p, "probe")
  /\ UNCHANGED <<broadcast, jobs, row, lane, walk, drained, owed, accepted, audience,
                 bounds, stopped>>

-----------------------------------------------------------------------------
(* The stop: POST /broadcasts/{id}/cancel, and cancelBroadcastRows after it.*)

Stop ==
  /\ at[Api] = "idle" /\ status \in {"scheduled", "sending"}
  /\ status' = "canceled" /\ Goto(Api, "parked")
  /\ UNCHANGED <<cursor, walked, jobs, row, lane, walk, drained, owed, accepted, audience,
                 bounds, stopped>>

In(s) == {c \in Contacts : row[c] = s}
Cancel(cs) == row' = [c \in Contacts |-> IF c \in cs THEN "canceled" ELSE row[c]]

(* A round flips the parked rows, then the queued ones nobody claimed.      *)
FlipParked(p) ==
  /\ at[p] = "parked"
  /\ Cancel(In("parked")) /\ moved' = [moved EXCEPT ![p] = In("parked")]
  /\ Goto(p, "queued")
  /\ UNCHANGED <<broadcast, jobs, lane, walk, page, owed, accepted, audience, bounds,
                 stopped>>

(* The sweep ends when a whole round moved nothing.                         *)
FlipQueued(p) ==
  /\ at[p] = "queued"
  /\ Cancel(In("queued"))
  /\ owed' = [owed EXCEPT ![p] = @ + Cardinality(In("queued"))]
  /\ moved' = [moved EXCEPT ![p] = {}]
  /\ Goto(p, IF moved[p] = {} /\ In("queued") = {} THEN "refund" ELSE "parked")
  /\ UNCHANGED <<broadcast, jobs, lane, walk, page, accepted, audience, bounds, stopped>>

(* The reservations of the queued rows go back in one release.              *)
Refund(p) ==
  /\ at[p] = "refund"
  /\ Give(owed[p]) /\ owed' = [owed EXCEPT ![p] = 0]
  /\ Goto(p, "idle")
  /\ stopped' = (stopped \/ p = Api)
  /\ UNCHANGED <<broadcast, jobs, row, lane, walk, drained, audience, bounds>>

-----------------------------------------------------------------------------
(* The send lanes, as far as a broadcast's row goes. *)

LaneAt(l, pc) == lane' = [lane EXCEPT ![l].pc = pc]
LaneDone(l) == lane' = [lane EXCEPT ![l] = IdleLane]
Mine(l) == IF lane[l].contact \in Contacts THEN row[lane[l].contact] ELSE "none"

FetchMail(l, c) ==
  /\ lane[l].pc = "idle" /\ c \in mail
  /\ mail' = mail \ {c}
  /\ lane' = [lane EXCEPT ![l] = [pc |-> "read", contact |-> c]]
  /\ UNCHANGED <<broadcast, created, retries, row, at, walk, drained, owed, accepted,
                 audience, bounds, stopped>>

(* The row is read, and the team's standing: a suspension or a pause parks  *)
(* before the stop is looked at.                                            *)
ReadRow(l, pc) ==
  /\ lane[l].pc = "read"
  /\ IF Mine(l) = "queued" THEN LaneAt(l, pc) ELSE LaneDone(l)
  /\ UNCHANGED <<broadcast, jobs, row, at, walk, drained, owed, accepted, audience, bounds,
                 stopped>>

(* Mutant: the stop is not looked at.                                       *)
LookAway(l, pc) ==
  /\ lane[l].pc = "look"
  /\ LaneAt(l, pc)
  /\ UNCHANGED <<broadcast, jobs, row, at, walk, drained, owed, accepted, audience, bounds,
                 stopped>>

(* broadcastCanceled and its refusal; then the pause line, the region's     *)
(* hold and its bulk share park the row.                                    *)
Look(l, pc) ==
  /\ lane[l].pc = "look"
  /\ IF status = "canceled"
     THEN /\ IF Mine(l) = "queued" THEN Put(lane[l].contact, "canceled") /\ Give(1)
                                   ELSE UNCHANGED <<row, accepted>>
          /\ LaneDone(l)
     ELSE LaneAt(l, pc) /\ UNCHANGED <<row, accepted>>
  /\ UNCHANGED <<broadcast, jobs, at, walk, drained, owed, audience, bounds, stopped>>

(* The claim of a row still eligible; one that is not ends here.            *)
Claim(l) ==
  /\ lane[l].pc = "claim"
  /\ \/ Mine(l) = "queued" /\ Put(lane[l].contact, "claimed") /\ LaneAt(l, "submit")
     \/ Mine(l) = "queued" /\ Put(lane[l].contact, "ended") /\ LaneDone(l)
     \/ Mine(l) # "queued" /\ LaneDone(l) /\ UNCHANGED row
  /\ UNCHANGED <<broadcast, jobs, at, walk, drained, owed, accepted, audience, bounds,
                 stopped>>

(* SES takes the message.                                                   *)
Submit(l) ==
  /\ lane[l].pc = "submit"
  /\ IF Mine(l) = "claimed" THEN Put(lane[l].contact, "sent") ELSE UNCHANGED row
  /\ LaneDone(l)
  /\ UNCHANGED <<broadcast, jobs, at, walk, drained, owed, accepted, audience, bounds,
                 stopped>>

(* SES refuses it: the claim is released, and the row parks.                *)
Unclaim(l) ==
  /\ lane[l].pc = "submit"
  /\ IF Mine(l) = "claimed" THEN Put(lane[l].contact, "queued") ELSE UNCHANGED row
  /\ LaneAt(l, "park")
  /\ UNCHANGED <<broadcast, jobs, at, walk, drained, owed, accepted, audience, bounds,
                 stopped>>

(* Mutant: the units go back whether the row parked or not.                 *)
ParkAnyway(l) ==
  /\ lane[l].pc = "park"
  /\ Give(1)
  /\ IF Mine(l) = "queued" THEN Put(lane[l].contact, "parked") ELSE UNCHANGED row
  /\ LaneDone(l)
  /\ UNCHANGED <<broadcast, jobs, at, walk, drained, owed, audience, bounds, stopped>>

(* parkQueued.                                                              *)
Park(l) ==
  /\ lane[l].pc = "park"
  /\ IF Mine(l) = "queued" THEN Put(lane[l].contact, "parked") /\ Give(1)
                           ELSE UNCHANGED <<row, accepted>>
  /\ LaneDone(l)
  /\ UNCHANGED <<broadcast, jobs, at, walk, drained, owed, audience, bounds, stopped>>

(* reconcileStalledSends: a queued row gets a job again, an old claim fails.*)
Requeue(c) ==
  /\ row[c] = "queued"
  /\ mail' = mail \cup {c}
  /\ UNCHANGED <<broadcast, created, retries, row, lane, at, walk, drained, owed, accepted,
                 audience, bounds, stopped>>

FailStalled(c) ==
  /\ row[c] = "claimed"
  /\ Put(c, "ended")
  /\ UNCHANGED <<broadcast, jobs, lane, at, walk, drained, owed, accepted, audience,
                 bounds, stopped>>

-----------------------------------------------------------------------------
(* The drain's second pass. *)

(* It looks for broadcasts going out, or sent, that have parked rows.       *)
DrainPick(d) ==
  /\ at[d] = "idle" /\ status \in {"sending", "sent"} /\ In("parked") # {}
  /\ page' = [page EXCEPT ![d] = In("parked")]
  /\ Goto(d, "release")
  /\ UNCHANGED <<broadcast, jobs, row, lane, walk, moved, owed, accepted, audience, bounds,
                 stopped>>

(* releaseParked: reserve and move in one transaction, unless something     *)
(* holds the row back or it was moved meanwhile.                            *)
DrainRelease(d, c) ==
  /\ at[d] = "release" /\ c \in page[d]
  /\ page' = [page EXCEPT ![d] = @ \ {c}]
  /\ \/ /\ row[c] = "parked" /\ Put(c, "queued") /\ accepted' = accepted + 1
        /\ moved' = [moved EXCEPT ![d] = @ \cup {c}]
     \/ UNCHANGED <<row, accepted, moved>>
  /\ UNCHANGED <<broadcast, jobs, lane, at, walk, owed, audience, bounds, stopped>>

(* The jobs of the page in one insert, then finalize; or the insert fails.  *)
DrainEnqueue(d) ==
  /\ at[d] = "release" /\ page[d] = {}
  /\ mail' = mail \cup moved[d]
  /\ moved' = [moved EXCEPT ![d] = {}]
  /\ Goto(d, "probe")
  /\ UNCHANGED <<broadcast, created, retries, row, lane, walk, page, owed, accepted,
                 audience, bounds, stopped>>

DrainFails(d) ==
  /\ at[d] = "release" /\ page[d] = {} /\ moved[d] # {}
  /\ Goto(d, "repark")
  /\ UNCHANGED <<broadcast, jobs, row, lane, walk, drained, owed, accepted, audience,
                 bounds, stopped>>

(* Each moved row parks again, if it is still queued, and is given back in  *)
(* a statement of its own.                                                  *)
DrainRepark(d, c) ==
  /\ at[d] = "repark" /\ c \in moved[d]
  /\ moved' = [moved EXCEPT ![d] = @ \ {c}]
  /\ IF row[c] = "queued"
     THEN Put(c, "parked") /\ owed' = [owed EXCEPT ![d] = 1] /\ Goto(d, "give")
     ELSE UNCHANGED <<row, owed, at>>
  /\ UNCHANGED <<broadcast, jobs, lane, walk, page, accepted, audience, bounds, stopped>>

DrainGive(d) ==
  /\ at[d] = "give"
  /\ Give(owed[d]) /\ owed' = [owed EXCEPT ![d] = 0]
  /\ Goto(d, "repark")
  /\ UNCHANGED <<broadcast, jobs, row, lane, walk, drained, audience, bounds, stopped>>

DrainReparked(d) ==
  /\ at[d] = "repark" /\ moved[d] = {}
  /\ Goto(d, "probe")
  /\ UNCHANGED <<broadcast, jobs, row, lane, walk, drained, owed, accepted, audience,
                 bounds, stopped>>

-----------------------------------------------------------------------------
(* A process dies or throws.  A walk's job retries, or was on its last try. *)
Die(p) ==
  /\ at[p] # "idle" /\ deaths < MaxDeaths /\ deaths' = deaths + 1
  /\ Goto(p, "idle")
  /\ retries' \in (IF p \in Walkers THEN {retries, retries + 1} ELSE {retries})
  /\ moved' = [moved EXCEPT ![p] = {}] /\ owed' = [owed EXCEPT ![p] = 0]
  /\ page' = [d \in Drains |-> IF d = p THEN {} ELSE page[d]]
  /\ walk' = [w \in Walkers |-> IF w = p THEN NoWalk ELSE walk[w]]
  /\ UNCHANGED <<broadcast, created, mail, row, lane, accepted, audience, changes,
                 stopped>>

LaneDies(l) ==
  /\ lane[l].pc # "idle" /\ deaths < MaxDeaths /\ deaths' = deaths + 1
  /\ mail' \in {mail, mail \cup {lane[l].contact}}
  /\ LaneDone(l)
  /\ UNCHANGED <<broadcast, created, retries, row, at, walk, drained, owed, accepted,
                 audience, changes, stopped>>

WalkStep(w) == \/ Fetch(w) \/ ReadBroadcast(w) \/ ClaimBroadcast(w) \/ ReadPage(w)
               \/ Heartbeat(w) \/ InsertRow(w) \/ EnqueuePage(w) \/ EndWalk(w)
EndStep(p) == Probe(p) \/ Finish(p) \/ FlipParked(p) \/ FlipQueued(p) \/ Refund(p)
LaneStep(l) == \/ \E c \in Contacts : FetchMail(l, c)
               \/ \E pc \in {"look", "park"} : ReadRow(l, pc)
               \/ \E pc \in {"claim", "park"} : Look(l, pc)
               \/ Claim(l) \/ Submit(l) \/ Unclaim(l) \/ Park(l)
DrainStep(d) == \/ DrainPick(d) \/ DrainEnqueue(d) \/ DrainFails(d) \/ DrainGive(d)
                \/ DrainReparked(d)
                \/ \E c \in Contacts : DrainRelease(d, c) \/ DrainRepark(d, c)

Next ==
  \/ Schedule \/ Stop \/ Rekick
  \/ \E d \in Drains : DrainStep(d)
  \/ \E p \in Crons : CronFinalize(p)
  \/ \E c \in Contacts : Change(c) \/ Requeue(c) \/ FailStalled(c)
  \/ \E w \in Walkers : WalkStep(w)
  \/ \E l \in Lanes : LaneStep(l) \/ LaneDies(l)
  \/ \E p \in Procs : EndStep(p) \/ Die(p)

Spec == Init /\ [][Next]_vars

(* Walks, lanes and drains that are alive go on, and the crons run.  Strong *)
(* fairness says that a pause, a hold and a refusal do not come back every  *)
(* time: a walk gets past its checks, a lane past its own, and the drain    *)
(* releases and enqueues, if they try again and again.                      *)
Fairness ==
  /\ WF_vars(Rekick)
  /\ \A w \in Walkers :
       /\ WF_vars(WalkStep(w) \/ EndStep(w))
       /\ SF_vars(ReadBroadcast(w) /\ at'[w] = "claim")
       /\ SF_vars(ClaimBroadcast(w) /\ at'[w] = "page")
       /\ SF_vars(Heartbeat(w) /\ at'[w] = "insert")
  /\ \A l \in Lanes :
       /\ WF_vars(LaneStep(l))
       /\ SF_vars(Mine(l) = "queued" /\ ReadRow(l, "look"))
       /\ SF_vars(Mine(l) = "queued" /\ Look(l, "claim"))
       /\ SF_vars(Mine(l) = "queued" /\ Claim(l)) /\ SF_vars(Submit(l))
  /\ \A c \in Contacts : WF_vars(Requeue(c)) /\ WF_vars(FailStalled(c))
  /\ \A d \in Drains :
       /\ WF_vars(DrainStep(d) \/ EndStep(d))
       /\ SF_vars(moved[d] # {} /\ DrainEnqueue(d))
       /\ \A c \in Contacts : SF_vars(DrainRelease(d, c) /\ c \in moved'[d])
  /\ \A p \in Crons : WF_vars(CronFinalize(p) \/ EndStep(p))

(* A broadcast that nobody stops.                                           *)
FairSpec == Init /\ [][Next /\ status' # "canceled"]_vars /\ Fairness

-----------------------------------------------------------------------------
(* A broadcast whose walk has ended, or that counts as sent, has a row for  *)
(* everyone who was in the audience all along - whichever walks died,       *)
(* overlapped or resumed from a cursor another one wrote.                   *)
EveryoneReached ==
  walked \/ status = "sent" => \A c \in Contacts \ everOut : row[c] # "none"

(* No stop, park, re-park or refusal gives back more than was charged: the  *)
(* counter covers every row that may go out or went.                        *)
ChargesCovered ==
  accepted >= Cardinality({c \in Contacts : row[c] \in {"queued", "claimed", "sent"}})

(* Once the stop has answered, no row is claimed any more: neither one a    *)
(* racing page wrote or a drain released afterwards, nor one a lane had     *)
(* read before.  Except one that a second lane had read before the stop,    *)
(* when SES refused it to a first and the first has yet to park it.         *)
StopHolds ==
  [][stopped => \A c \in Contacts :
       row'[c] = "claimed" =>
         \/ row[c] = "claimed"
         \/ \E l \in Lanes : lane[l] = [pc |-> "park", contact |-> c]]_vars

(* A broadcast that was sent off and not stopped ends as sent: through lost *)
(* jobs, pauses, screening, parked rows and failed enqueues.                *)
Finishes == status = "scheduled" ~> status = "sent"

(* The end of a send: sent means that no row waits.  Refuted: between the   *)
(* probe and the update of one finalizer, a walk may write its last rows    *)
(* and end.                                                                 *)
SentIsDone == status = "sent" => \A c \in Contacts : row[c] \notin Open

(* A stopped broadcast leaves nothing parked once everyone is back: no      *)
(* sweep looks at it again.  Refuted: a lane parks between the two flips.   *)
StopReachesAll ==
  stopped /\ (\A p \in Procs : at[p] = "idle") /\ (\A l \in Lanes : lane[l].pc = "idle")
    => In("parked") = {}
=============================================================================
