------------------------------ MODULE FreeBurst -----------------------------
(***************************************************************************)
(* The burst allowance of one Free pool: a virtual clock that every lane   *)
(* books its mail on, the slot a row keeps from its booking, and the gate  *)
(* that defers a row until its slot.  Rows are read long before they are   *)
(* booked, are held and come back, and two lanes may have the same row.    *)
(*                                                                         *)
(* An action is one statement, or one commit with what its locks keep      *)
(* others from seeing.                                                     *)
(***************************************************************************)
EXTENDS Integers, FiniteSets

CONSTANTS
  Emails, NoEmail,
  Cost,     \* the time the recipients of each email take to refill
  Window,   \* FREE_BURST_WINDOW_MS: the time a spent allowance takes to refill
  Most,     \* the cost of the largest message
  Lanes,    \* email.send workers
  Slack,    \* the longest a booking waits for its locks, its commit included
  Horizon   \* bound: the last instant

ASSUME BurstAssumption ==
  /\ IsFiniteSet(Emails) /\ NoEmail \notin Emails
  /\ Cost \in [Emails -> 1..Most]
  /\ Window \in Nat \ {0} /\ Most \in Nat /\ Slack \in Nat /\ Horizon \in Nat

VARIABLES
  now,
  tat,      \* free_pool_bursts.tat, 0 before the first booking
  row,      \* of each email: queued, away (held, parked, ended) or sent; its free_burst_at
  lane,     \* what each lane holds in memory
  booked,   \* observer: the bookings committed so far
  gone      \* observer: when an email that was sent passed the gate on a slot

vars == <<now, tat, row, lane, booked, gone>>

NoTime == -1
Times == Nat \cup {NoTime}
Later(a, b) == IF a > b THEN a ELSE b

IdleLane == [pc |-> "idle", email |-> NoEmail, slot |-> NoTime, asked |-> NoTime,
             dated |-> NoTime, passed |-> NoTime]
InBooking == {"lock", "book", "gate"}

(* What a lane holds between its steps.                                     *)
LanesTyped ==
  /\ lane \in [Lanes -> [pc : {"idle", "check", "send"} \cup InBooking,
                         email : Emails \cup {NoEmail}, slot : Times, asked : Times,
                         dated : Times, passed : Times]]
  /\ \A l \in Lanes : /\ lane[l].pc # "idle" => lane[l].email \in Emails
                      /\ lane[l].pc = "book" => lane[l].dated # NoTime

(* Every variable has its type.                                             *)
TypeOK ==
  /\ now \in Nat /\ tat \in Nat /\ LanesTyped
  /\ row \in [Emails -> [status : {"queued", "away", "sent"}, slot : Times]]
  /\ booked \subseteq [email : Emails, start : Nat, slot : Nat]
  /\ gone \in [Emails -> Times]

Init ==
  /\ now = 0 /\ tat = 0
  /\ row = [e \in Emails |-> [status |-> "queued", slot |-> NoTime]]
  /\ lane = [l \in Lanes |-> IdleLane]
  /\ booked = {} /\ gone = [e \in Emails |-> NoTime]

(* No slot yet, or one that is a window old.                                *)
Spent(slot, t) == slot = NoTime \/ slot + Window <= t
Mine(l) == row[lane[l].email]
Locked(e) == \E l \in Lanes : lane[l].pc = "book" /\ lane[l].email = e
LaneDone(l) == lane' = [lane EXCEPT ![l] = IdleLane]
LetThrough(l, t) ==
  lane' = [lane EXCEPT ![l] = [IdleLane EXCEPT !.pc = "send", !.email = lane[l].email,
                                               !.passed = t]]

-----------------------------------------------------------------------------
(* A job of the row is fetched: at its wake-up, before it, or by the sweep  *)
(* or the drain.  The row is read with the slot it has.                     *)
ReadRow(l, e) ==
  /\ lane[l].pc = "idle" /\ row[e].status = "queued"
  /\ lane' = [lane EXCEPT ![l] = [IdleLane EXCEPT !.pc = "check", !.email = e,
                                                  !.slot = row[e].slot]]
  /\ UNCHANGED <<now, tat, row, booked, gone>>

(* The slot as read, while it is good, decides at once: the row waits for   *)
(* it, or goes on.                                                          *)
CheckSlot(l) ==
  /\ lane[l].pc = "check"
  /\ IF Spent(lane[l].slot, now)
     THEN lane' = [lane EXCEPT ![l].pc = "lock", ![l].asked = now]
     ELSE IF lane[l].slot > now THEN LaneDone(l) ELSE LetThrough(l, now)
  /\ UNCHANGED <<now, tat, row, booked, gone>>

(* Mutant: the slot is not read again under the lock.                       *)
LockRowBlind(l) ==
  /\ lane[l].pc = "lock" /\ ~Locked(lane[l].email)
  /\ \/ Mine(l).status # "queued" /\ LetThrough(l, NoTime)
     \/ /\ Mine(l).status = "queued"
        /\ lane' = [lane EXCEPT ![l].pc = "book", ![l].dated = now]
  /\ UNCHANGED <<now, tat, row, booked, gone>>

(* The row is locked and read again: one that is not queued has no slot, a  *)
(* slot another lane booked is taken over, else the booking gets its date.  *)
LockRow(l) ==
  /\ lane[l].pc = "lock" /\ ~Locked(lane[l].email)
  /\ \/ Mine(l).status # "queued" /\ LetThrough(l, NoTime)
     \/ /\ Mine(l).status = "queued" /\ ~Spent(Mine(l).slot, lane[l].asked)
        /\ lane' = [lane EXCEPT ![l].pc = "gate", ![l].slot = Mine(l).slot]
     \/ /\ Mine(l).status = "queued" /\ Spent(Mine(l).slot, lane[l].asked)
        /\ lane' = [lane EXCEPT ![l].pc = "book", ![l].dated = now]
  /\ UNCHANGED <<now, tat, row, booked, gone>>

(* Mutant: the clock starts anew with every booking.                        *)
BookFromNow(l) ==
  LET e == lane[l].email
      start == lane[l].dated
      slot == Later(lane[l].dated, start + Cost[e] - Window) IN
  /\ lane[l].pc = "book"
  /\ tat' = start + Cost[e]
  /\ row' = [row EXCEPT ![e].slot = slot]
  /\ booked' = booked \cup {[email |-> e, start |-> start, slot |-> slot]}
  /\ lane' = [lane EXCEPT ![l].pc = "gate", ![l].slot = slot]
  /\ UNCHANGED <<now, gone>>

(* Mutant: the slot may lie in the past.                                    *)
BookEarlier(l) ==
  LET e == lane[l].email
      start == Later(tat, lane[l].dated)
      slot == start + Cost[e] - Window IN
  /\ lane[l].pc = "book"
  /\ tat' = start + Cost[e]
  /\ row' = [row EXCEPT ![e].slot = slot]
  /\ booked' = booked \cup {[email |-> e, start |-> start, slot |-> slot]}
  /\ lane' = [lane EXCEPT ![l].pc = "gate", ![l].slot = slot]
  /\ UNCHANGED <<now, gone>>

(* bookFreeBurst and the update of the row, seen by others at the commit:   *)
(* the pool's row is locked from its upsert on.  The date may be older than *)
(* another booking's that came first.                                       *)
Book(l) ==
  LET e == lane[l].email
      start == Later(tat, lane[l].dated)
      slot == Later(lane[l].dated, start + Cost[e] - Window) IN
  /\ lane[l].pc = "book"
  /\ tat' = start + Cost[e]
  /\ row' = [row EXCEPT ![e].slot = slot]
  /\ booked' = booked \cup {[email |-> e, start |-> start, slot |-> slot]}
  /\ lane' = [lane EXCEPT ![l].pc = "gate", ![l].slot = slot]
  /\ UNCHANGED <<now, gone>>

(* Before its slot the row goes back to the queue, else it goes on.         *)
Gate(l) ==
  /\ lane[l].pc = "gate"
  /\ IF lane[l].slot > now THEN LaneDone(l) ELSE LetThrough(l, now)
  /\ UNCHANGED <<now, tat, row, booked, gone>>

(* Past all other checks the row is claimed and SES takes it; or it is not  *)
(* queued any more, is held, or SES refuses it.                             *)
Claim(l) ==
  /\ lane[l].pc = "send" /\ LaneDone(l)
  /\ \/ /\ Mine(l).status = "queued" /\ ~Locked(lane[l].email)
        /\ row' = [row EXCEPT ![lane[l].email].status = "sent"]
        /\ gone' = [gone EXCEPT ![lane[l].email] = lane[l].passed]
     \/ UNCHANGED <<row, gone>>
  /\ UNCHANGED <<now, tat, booked>>

(* A park, a hold or a claim takes a row out of the queue, and the drain or *)
(* a released claim brings it back with the slot it had.                    *)
Leave(e) ==
  /\ row[e].status = "queued" /\ ~Locked(e)
  /\ row' = [row EXCEPT ![e].status = "away"]
  /\ UNCHANGED <<now, tat, lane, booked, gone>>

Return(e) ==
  /\ row[e].status = "away"
  /\ row' = [row EXCEPT ![e].status = "queued"]
  /\ UNCHANGED <<now, tat, lane, booked, gone>>

(* A worker dies: a booking that has not committed rolls back.              *)
Die(l) ==
  /\ lane[l].pc # "idle" /\ LaneDone(l)
  /\ UNCHANGED <<now, tat, row, booked, gone>>

(* Time passes, but no booking takes longer than Slack.                     *)
Tick ==
  /\ now < Horizon /\ now' = now + 1
  /\ \A l \in Lanes : lane[l].pc \in InBooking => now < lane[l].asked + Slack
  /\ UNCHANGED <<tat, row, lane, booked, gone>>

LaneStep(l) == \/ \E e \in Emails : ReadRow(l, e)
               \/ CheckSlot(l) \/ LockRow(l) \/ Book(l) \/ Gate(l) \/ Claim(l) \/ Die(l)

Next ==
  \/ Tick
  \/ \E l \in Lanes : LaneStep(l)
  \/ \E e \in Emails : Leave(e) \/ Return(e)

Spec == Init /\ [][Next]_vars

-----------------------------------------------------------------------------
(* The allowance is not spent on one row twice: whichever lanes, wake-ups   *)
(* and retries had it, the slots it was booked are a window apart at least. *)
BookedOnce ==
  \A x, y \in booked :
    x.email = y.email /\ x # y => x.slot + Window <= y.slot \/ y.slot + Window <= x.slot

(* What the mail that goes through the gate between two instants costs.     *)
Mass(e) == {e} \X (1..Cost[e])
MassGone(a, b) == UNION {Mass(e) : e \in {f \in Emails : gone[f] \in a..b}}

(* However rows are held, come back and pass together, the recipients let   *)
(* through within a time are what that time refills, one burst (or one      *)
(* message larger than it), and the slots of the window before that were    *)
(* kept.  Mail that found no slot (see NoneUnbooked) is not counted.        *)
PassesPaced ==
  \A d, e \in Emails :
    gone[d] # NoTime /\ gone[d] <= gone[e]
      => Cardinality(MassGone(gone[d], gone[e]))
           <= gone[e] - gone[d] + Later(Window, Most) + Window + Slack - 1

(* The gate lets nothing through without a slot.  Refuted: a row that is    *)
(* away when it is locked, and back before the claim.                       *)
NoneUnbooked == \A e \in Emails : row[e].status = "sent" => gone[e] # NoTime
=============================================================================
