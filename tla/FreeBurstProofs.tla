--------------------------- MODULE FreeBurstProofs -------------------------
(***************************************************************************)
(* Theorems about FreeBurst, for any messages, lanes, window and clock: no *)
(* row is booked again within a window of its slot, and the mail let       *)
(* through within a time costs no more than the allowance has for it.      *)
(***************************************************************************)
EXTENDS FreeBurst, FiniteSetTheorems, TLAPS

Bulk == Later(Window, Most)

(* A booking takes its stretch of the virtual clock, and its slot is where  *)
(* that stretch comes into reach: at its end less a window, or at its date. *)
Placed(x) ==
  /\ x.start + Cost[x.email] <= x.slot + Window
  /\ x.slot + Window <= x.start + Bulk
  /\ x.start + Cost[x.email] <= tat
Apart(x, y) ==
  x.start + Cost[x.email] <= y.start \/ y.start + Cost[y.email] <= x.start

(* The stretches of two bookings do not overlap.                            *)
ClockInv ==
  /\ \A x \in booked : Placed(x)
  /\ \A x, y \in booked : x # y => Apart(x, y)

(* A row keeps the slot of its latest booking.                              *)
HasSlot(e, s) == \E x \in booked : x.email = e /\ x.slot = s
Newest(e) ==
  /\ row[e].slot = NoTime => \A x \in booked : x.email # e
  /\ row[e].slot # NoTime =>
       HasSlot(e, row[e].slot) /\ \A x \in booked : x.email = e => x.slot <= row[e].slot

(* An email that passes at an instant has a booking that allows it.         *)
Backed(e, t) ==
  \E x \in booked : x.email = e /\ x.slot <= t /\ t < x.slot + Window + Slack

(* A lane that books holds the row's lock, with a slot that was spent when  *)
(* it asked; the slot it holds later was booked, and was good.              *)
LaneOk(l) ==
  /\ lane[l].pc \in InBooking =>
       lane[l].asked # NoTime /\ lane[l].asked <= now /\ now <= lane[l].asked + Slack
  /\ lane[l].pc = "book" =>
       lane[l].asked <= lane[l].dated /\ Spent(Mine(l).slot, lane[l].asked)
  /\ lane[l].pc = "gate" =>
       /\ lane[l].slot # NoTime /\ lane[l].asked < lane[l].slot + Window
       /\ HasSlot(lane[l].email, lane[l].slot)
  /\ lane[l].pc = "check" =>
       lane[l].slot = NoTime \/ HasSlot(lane[l].email, lane[l].slot)
  /\ lane[l].pc = "send" =>
       lane[l].passed = NoTime \/ Backed(lane[l].email, lane[l].passed)

OneLock ==
  \A l, m \in Lanes :
    lane[l].pc = "book" /\ lane[m].pc = "book" /\ lane[l].email = lane[m].email => l = m

(* The inductive invariant.                                                 *)
PaceInv ==
  /\ TypeOK /\ ClockInv /\ OneLock /\ BookedOnce
  /\ \A e \in Emails : Newest(e) /\ (gone[e] # NoTime => Backed(e, gone[e]))
  /\ \A l \in Lanes : LaneOk(l)

-----------------------------------------------------------------------------
LEMMA DoneTyped ==
  ASSUME LanesTyped, NEW l \in Lanes, LaneDone(l)
  PROVE  LanesTyped'
BY DEF LanesTyped, LaneDone, IdleLane, Times, NoTime, InBooking

LEMMA ThroughTyped ==
  ASSUME LanesTyped, NEW l \in Lanes, lane[l].pc # "idle", NEW t \in Times,
         LetThrough(l, t)
  PROVE  LanesTyped'
BY DEF LanesTyped, LetThrough, IdleLane, Times, NoTime, InBooking

(* Every variable has its type.                                             *)
THEOREM BurstTyping == Spec => []TypeOK
<1> USE BurstAssumption DEF BurstAssumption
<1>1. Init => TypeOK
  BY DEF Init, TypeOK, LanesTyped, Times, NoTime, InBooking, IdleLane
<1>2. TypeOK /\ [Next]_vars => TypeOK'
  <2> SUFFICES ASSUME TypeOK, [Next]_vars PROVE TypeOK'
    OBVIOUS
  <2>a. LanesTyped /\ now \in Times
    <3>1. LanesTyped
      BY DEF TypeOK
    <3>2. now \in Times
      BY DEF TypeOK, Times
    <3> QED BY <3>1, <3>2
  <2>c. ASSUME NEW l \in Lanes, lane[l].pc # "idle"
        PROVE  lane[l].email \in Emails /\ row[lane[l].email].slot \in Times
    <3>1. lane[l].email \in Emails
      BY <2>a, <2>c DEF LanesTyped
    <3> QED BY <3>1 DEF TypeOK
  <2>b. ASSUME LanesTyped', now' = now, UNCHANGED <<tat, row, booked, gone>> PROVE TypeOK'
    BY <2>b DEF TypeOK, LanesTyped
  <2>1. CASE Tick
    BY <2>1 DEF Tick, TypeOK, LanesTyped
  <2>2. ASSUME NEW l \in Lanes, NEW e \in Emails, ReadRow(l, e) PROVE TypeOK'
    <3>1. row[e].slot \in Times
      BY DEF TypeOK
    <3>2. LanesTyped'
      BY <2>2, <2>a, <3>1 DEF ReadRow, LanesTyped, IdleLane, Times, NoTime, InBooking
    <3> QED BY <2>2, <2>b, <3>2 DEF ReadRow
  <2>3. ASSUME NEW l \in Lanes, CheckSlot(l) PROVE TypeOK'
    <3>1. CASE lane' = [lane EXCEPT ![l].pc = "lock", ![l].asked = now]
      <4>1. LanesTyped'
        BY <2>3, <2>a, <3>1, ZenonT(60) DEF CheckSlot, LanesTyped, InBooking
      <4> QED BY <2>3, <2>b, <4>1 DEF CheckSlot
    <3>2. CASE LaneDone(l) \/ LetThrough(l, now)
      BY <2>3, <2>a, <2>b, <3>2, DoneTyped, ThroughTyped DEF CheckSlot
    <3> QED BY <2>3, <3>1, <3>2 DEF CheckSlot
  <2>4. ASSUME NEW l \in Lanes, LockRow(l) PROVE TypeOK'
    <3>1. CASE LetThrough(l, NoTime)
      <4>1. NoTime \in Times
        BY DEF Times
      <4> QED BY <2>4, <2>a, <2>b, <3>1, <4>1, ThroughTyped DEF LockRow
    <3>2. CASE lane' = [lane EXCEPT ![l].pc = "gate", ![l].slot = Mine(l).slot]
      <4>1. lane[l].email \in Emails /\ Mine(l).slot \in Times
        BY <2>4, <2>c DEF LockRow, Mine
      <4>2. LanesTyped'
        BY <2>4, <2>a, <3>2, <4>1, ZenonT(60) DEF LanesTyped, InBooking
      <4> QED BY <2>4, <2>b, <4>2 DEF LockRow
    <3>3. CASE lane' = [lane EXCEPT ![l].pc = "book", ![l].dated = now]
      <4>1. lane[l].email \in Emails /\ now \in Times /\ now # NoTime
        <5>1. now # NoTime
          BY DEF TypeOK, NoTime
        <5> QED BY <2>4, <2>a, <2>c, <5>1 DEF LockRow
      <4>2. LanesTyped'
        BY <2>4, <2>a, <3>3, <4>1, ZenonT(60) DEF LanesTyped, InBooking
      <4> QED BY <2>4, <2>b, <4>2 DEF LockRow
    <3> QED BY <2>4, <3>1, <3>2, <3>3 DEF LockRow
  <2>5. ASSUME NEW l \in Lanes, Book(l) PROVE TypeOK'
    <3> DEFINE e == lane[l].email
               start == Later(tat, lane[l].dated)
               slot == Later(lane[l].dated, start + Cost[e] - Window)
    <3>1. e \in Emails /\ tat \in Nat
      <4>1. tat \in Nat
        BY DEF TypeOK
      <4> QED BY <2>5, <2>c, <4>1 DEF Book
    <3>2. Cost[e] \in Nat /\ Window \in Nat
      BY <3>1
    <3>3. lane[l].dated \in Nat
      BY <2>5, <2>a DEF Book, LanesTyped, Times
    <3>4. start \in Nat /\ slot \in Nat
      BY <3>1, <3>2, <3>3 DEF Later
    <3>5. /\ tat' = start + Cost[e] /\ row' = [row EXCEPT ![e].slot = slot]
          /\ booked' = booked \cup {[email |-> e, start |-> start, slot |-> slot]}
          /\ lane' = [lane EXCEPT ![l].pc = "gate", ![l].slot = slot]
          /\ UNCHANGED <<now, gone>>
      BY <2>5 DEF Book
    <3> HIDE DEF start, slot
    <3>6. LanesTyped'
      <4>1. slot \in Times
        BY <3>4 DEF Times
      <4> QED BY <2>a, <3>1, <3>5, <4>1, ZenonT(60) DEF LanesTyped, InBooking
    <3>7. tat' \in Nat /\ booked' \subseteq [email : Emails, start : Nat, slot : Nat]
      BY <3>1, <3>2, <3>4, <3>5 DEF TypeOK
    <3>8. row' \in [Emails -> [status : {"queued", "away", "sent"}, slot : Times]]
      BY <3>1, <3>4, <3>5 DEF TypeOK, Times
    <3> QED BY <3>5, <3>6, <3>7, <3>8 DEF TypeOK, LanesTyped
  <2>6. ASSUME NEW l \in Lanes, Gate(l) PROVE TypeOK'
    BY <2>6, <2>a, <2>b, DoneTyped, ThroughTyped DEF Gate
  <2>7. ASSUME NEW l \in Lanes, Claim(l) PROVE TypeOK'
    <3>1. LanesTyped'
      BY <2>7, <2>a, DoneTyped DEF Claim
    <3>2. row' \in [Emails -> [status : {"queued", "away", "sent"}, slot : Times]]
      BY <2>7 DEF Claim, TypeOK
    <3>3. gone' \in [Emails -> Times]
      BY <2>7, <2>a DEF Claim, TypeOK, LanesTyped
    <3> QED BY <2>7, <3>1, <3>2, <3>3 DEF TypeOK, LanesTyped, Claim
  <2>8. ASSUME NEW l \in Lanes, Die(l) PROVE TypeOK'
    BY <2>8, <2>a, <2>b, DoneTyped DEF Die
  <2>9. ASSUME NEW e \in Emails, Leave(e) PROVE TypeOK'
    BY <2>9 DEF Leave, TypeOK, LanesTyped
  <2>10. ASSUME NEW e \in Emails, Return(e) PROVE TypeOK'
    BY <2>10 DEF Return, TypeOK, LanesTyped
  <2>11. CASE UNCHANGED vars
    BY <2>11 DEF vars, TypeOK, LanesTyped
  <2> QED
    BY <2>1, <2>2, <2>3, <2>4, <2>5, <2>6, <2>7, <2>8, <2>9, <2>10, <2>11
    DEF Next, LaneStep
<1> QED BY <1>1, <1>2, PTL DEF Spec

-----------------------------------------------------------------------------
(* What was booked stays booked.                                            *)
LEMMA StaysBooked ==
  ASSUME booked \subseteq booked'
  PROVE  /\ \A e, s : HasSlot(e, s) => HasSlot(e, s)'
         /\ \A e, t : Backed(e, t) => Backed(e, t)'
BY DEF HasSlot, Backed

(* A slot that is booked and good backs whoever passes in time.             *)
LEMMA Backs ==
  ASSUME TypeOK, NEW e, NEW s \in Nat, HasSlot(e, s), NEW t \in Nat,
         s <= t, t < s + Window + Slack
  PROVE  Backed(e, t)
BY DEF HasSlot, Backed

(* Steps that book nothing and touch no slot leave the clock and the rows.  *)
LEMMA NothingBooked ==
  ASSUME PaceInv, tat' = tat, booked' = booked,
         \A e \in Emails : row'[e].slot = row[e].slot
  PROVE  ClockInv' /\ BookedOnce' /\ \A e \in Emails : Newest(e)'
<1>1. ClockInv' /\ BookedOnce'
  BY DEF PaceInv, ClockInv, BookedOnce, Placed, Apart
<1>2. \A e \in Emails : Newest(e)'
  BY DEF PaceInv, Newest, HasSlot
<1> QED BY <1>1, <1>2

(* A lane left alone keeps its part, if the rows' slots stay.               *)
LEMMA LaneKeeps ==
  ASSUME PaceInv, NEW m \in Lanes, lane'[m] = lane[m], now' = now,
         booked \subseteq booked',
         lane[m].pc = "book" => row'[lane[m].email].slot = row[lane[m].email].slot
  PROVE  LaneOk(m)'
<1>1. LaneOk(m)
  BY DEF PaceInv
<1>2. lane[m].pc = "book" => Mine(m)'.slot = Mine(m).slot
  BY DEF Mine
<1>3. /\ \A e, s : HasSlot(e, s) => HasSlot(e, s)'
      /\ \A e, t : Backed(e, t) => Backed(e, t)'
  BY StaysBooked
<1>4. HasSlot(lane[m].email, lane[m].slot) => HasSlot(lane[m].email, lane[m].slot)'
  BY <1>3, StaysBooked
<1>5. Backed(lane[m].email, lane[m].passed) => Backed(lane[m].email, lane[m].passed)'
  BY <1>3, StaysBooked
<1> QED BY <1>1, <1>2, <1>4, <1>5 DEF LaneOk, Spent, InBooking

(* Emails keep what backs their passing.                                    *)
LEMMA GoneKeeps ==
  ASSUME PaceInv, booked \subseteq booked', gone' = gone
  PROVE  \A e \in Emails : gone'[e] # NoTime => Backed(e, gone[e])'
BY StaysBooked DEF PaceInv, Backed

(* A lane that holds nothing is in order.                                   *)
LEMMA IdleOk ==
  ASSUME TypeOK, NEW l \in Lanes, LaneDone(l)
  PROVE  LaneOk(l)'
<1>1. lane'[l] = IdleLane
  BY DEF LaneDone, TypeOK, LanesTyped
<1>2. lane'[l].pc = "idle"
  BY <1>1 DEF IdleLane
<1> QED BY <1>2 DEF LaneOk, InBooking

(* A lane that was let through has its backing.                             *)
LEMMA ThroughOk ==
  ASSUME TypeOK, NEW l \in Lanes, NEW t, LetThrough(l, t), booked' = booked,
         t = NoTime \/ Backed(lane[l].email, t)
  PROVE  LaneOk(l)'
<1>1. lane'[l].pc = "send" /\ lane'[l].email = lane[l].email /\ lane'[l].passed = t
  BY DEF LetThrough, TypeOK, LanesTyped, IdleLane
<1>2. t = NoTime \/ Backed(lane[l].email, t)'
  BY <1>1 DEF Backed
<1>3. lane'[l].passed = NoTime \/ Backed(lane[l].email, lane[l].passed)'
  BY <1>1, <1>2 DEF Backed
<1> QED BY <1>1, <1>3 DEF LaneOk, InBooking

(* A step of a lane that books nothing, locks nothing and sends nothing.    *)
LEMMA LaneMoves ==
  ASSUME PaceInv, TypeOK', NEW l \in Lanes, \A m \in Lanes \ {l} : lane'[m] = lane[m],
         UNCHANGED <<now, tat, row, booked, gone>>, LaneOk(l)', lane'[l].pc # "book"
  PROVE  PaceInv'
<1>1. ClockInv' /\ BookedOnce' /\ \A e \in Emails : Newest(e)'
  BY NothingBooked
<1>2. ASSUME NEW m \in Lanes PROVE LaneOk(m)'
  BY <1>2, LaneKeeps
<1>3. OneLock'
  BY DEF PaceInv, OneLock
<1>4. \A e \in Emails : gone'[e] # NoTime => Backed(e, gone[e])'
  BY GoneKeeps
<1> QED BY <1>1, <1>2, <1>3, <1>4 DEF PaceInv

(* Time passes.                                                             *)
LEMMA TickKeeps ==
  ASSUME PaceInv, TypeOK', Tick
  PROVE  PaceInv'
<1> USE DEF Tick
<1>1. ClockInv' /\ BookedOnce' /\ \A e \in Emails : Newest(e)'
  BY NothingBooked
<1>2. ASSUME NEW m \in Lanes PROVE LaneOk(m)'
  <2>1. LaneOk(m)
    BY DEF PaceInv
  <2>2. HasSlot(lane[m].email, lane[m].slot) => HasSlot(lane[m].email, lane[m].slot)'
    BY DEF HasSlot
  <2>3. Backed(lane[m].email, lane[m].passed) => Backed(lane[m].email, lane[m].passed)'
    BY DEF Backed
  <2>4. lane[m].pc \in InBooking =>
          lane[m].asked # NoTime /\ lane[m].asked <= now' /\ now' <= lane[m].asked + Slack
    <3>1. now \in Nat /\ lane[m].asked \in Times /\ Slack \in Nat
      BY BurstAssumption DEF BurstAssumption, PaceInv, TypeOK, LanesTyped
    <3> QED BY <2>1, <3>1 DEF LaneOk, Times, NoTime
  <2>5. Mine(m)' = Mine(m)
    BY DEF Mine
  <2> QED BY <2>1, <2>2, <2>3, <2>4, <2>5 DEF LaneOk, Spent
<1>3. OneLock'
  BY DEF PaceInv, OneLock
<1>4. \A e \in Emails : gone'[e] # NoTime => Backed(e, gone[e])'
  BY GoneKeeps
<1> QED BY <1>1, <1>2, <1>3, <1>4 DEF PaceInv

(* The lanes' own steps, one by one.                                        *)
LEMMA ReadKeeps ==
  ASSUME PaceInv, TypeOK', NEW l \in Lanes, NEW e \in Emails, ReadRow(l, e)
  PROVE  PaceInv'
<1> USE DEF ReadRow
<1>1. /\ lane'[l].pc = "check" /\ lane'[l].email = e /\ lane'[l].slot = row[e].slot
      /\ \A m \in Lanes \ {l} : lane'[m] = lane[m]
  BY DEF PaceInv, TypeOK, LanesTyped, IdleLane
<1>2. row[e].slot = NoTime \/ HasSlot(e, row[e].slot)
  BY DEF PaceInv, Newest
<1>3. lane'[l].slot = NoTime \/ HasSlot(lane[l].email, lane[l].slot)'
  BY <1>1, <1>2 DEF HasSlot
<1>4. LaneOk(l)'
  BY <1>1, <1>3 DEF LaneOk, InBooking
<1> QED BY <1>1, <1>4, LaneMoves

LEMMA CheckKeeps ==
  ASSUME PaceInv, TypeOK', NEW l \in Lanes, CheckSlot(l)
  PROVE  PaceInv'
<1> USE DEF CheckSlot
<1>1. \A m \in Lanes \ {l} : lane'[m] = lane[m]
  BY DEF PaceInv, TypeOK, LanesTyped, LaneDone, LetThrough
<1>2. CASE Spent(lane[l].slot, now)
  <2>1. lane'[l].pc = "lock" /\ lane'[l].asked = now
    BY <1>2 DEF PaceInv, TypeOK, LanesTyped
  <2>2. now \in Nat /\ Slack \in Nat
    BY BurstAssumption DEF BurstAssumption, PaceInv, TypeOK
  <2>3. LaneOk(l)'
    BY <2>1, <2>2 DEF LaneOk, InBooking, NoTime
  <2> QED BY <1>1, <2>1, <2>3, LaneMoves
<1>3. CASE ~Spent(lane[l].slot, now) /\ LaneDone(l)
  <2>1. LaneOk(l)' /\ lane'[l].pc # "book"
    BY <1>3, IdleOk DEF PaceInv, LaneDone, TypeOK, LanesTyped, IdleLane
  <2> QED BY <1>1, <2>1, LaneMoves
<1>4. CASE ~Spent(lane[l].slot, now) /\ lane[l].slot <= now /\ LetThrough(l, now)
  <2>1. lane[l].slot \in Nat /\ now \in Nat /\ Window \in Nat /\ Slack \in Nat
    BY <1>4, BurstAssumption
    DEF BurstAssumption, PaceInv, TypeOK, LanesTyped, Times, Spent
  <2>2. HasSlot(lane[l].email, lane[l].slot)
    BY <1>4 DEF PaceInv, LaneOk, Spent
  <2>3. Backed(lane[l].email, now)
    <3>1. now < lane[l].slot + Window + Slack
      BY <1>4, <2>1 DEF Spent
    <3> QED BY <1>4, <2>1, <2>2, <3>1, Backs DEF PaceInv
  <2>4. LaneOk(l)' /\ lane'[l].pc # "book"
    BY <1>4, <2>3, ThroughOk DEF PaceInv, LetThrough, TypeOK, LanesTyped, IdleLane
  <2> QED BY <1>1, <2>4, LaneMoves
<1>5. lane[l].slot > now \/ lane[l].slot <= now
  BY DEF PaceInv, TypeOK, LanesTyped, Times, NoTime
<1> QED BY <1>2, <1>3, <1>4, <1>5

LEMMA GateKeeps ==
  ASSUME PaceInv, TypeOK', NEW l \in Lanes, Gate(l)
  PROVE  PaceInv'
<1> USE DEF Gate
<1>1. \A m \in Lanes \ {l} : lane'[m] = lane[m]
  BY DEF PaceInv, TypeOK, LanesTyped, LaneDone, LetThrough
<1>2. /\ lane[l].slot \in Nat /\ lane[l].asked \in Nat /\ now \in Nat
      /\ Window \in Nat /\ Slack \in Nat
  BY BurstAssumption
  DEF BurstAssumption, PaceInv, TypeOK, LanesTyped, Times, LaneOk, InBooking
<1>3. /\ HasSlot(lane[l].email, lane[l].slot) /\ lane[l].asked < lane[l].slot + Window
      /\ now <= lane[l].asked + Slack
  BY DEF PaceInv, LaneOk, InBooking
<1>4. CASE LaneDone(l)
  <2>1. LaneOk(l)' /\ lane'[l].pc # "book"
    BY <1>4, IdleOk DEF PaceInv, LaneDone, TypeOK, LanesTyped, IdleLane
  <2> QED BY <1>1, <2>1, LaneMoves
<1>5. CASE lane[l].slot <= now /\ LetThrough(l, now)
  <2>1. Backed(lane[l].email, now)
    <3>1. now < lane[l].slot + Window + Slack
      BY <1>2, <1>3
    <3> QED BY <1>2, <1>3, <1>5, <3>1, Backs DEF PaceInv
  <2>2. LaneOk(l)' /\ lane'[l].pc # "book"
    BY <1>5, <2>1, ThroughOk DEF PaceInv, LetThrough, TypeOK, LanesTyped, IdleLane
  <2> QED BY <1>1, <2>2, LaneMoves
<1>6. lane[l].slot > now \/ lane[l].slot <= now
  BY <1>2
<1> QED BY <1>4, <1>5, <1>6

LEMMA LockKeeps ==
  ASSUME PaceInv, TypeOK', NEW l \in Lanes, LockRow(l)
  PROVE  PaceInv'
<1> USE DEF LockRow
<1>1. \A m \in Lanes \ {l} : lane'[m] = lane[m]
  BY DEF PaceInv, TypeOK, LanesTyped, LetThrough
<1>2. lane[l].asked \in Nat /\ lane[l].asked <= now /\ now <= lane[l].asked + Slack
  BY DEF PaceInv, TypeOK, LanesTyped, Times, LaneOk, InBooking
<1>3. lane[l].email \in Emails
  BY DEF PaceInv, TypeOK, LanesTyped
<1>4. CASE LetThrough(l, NoTime)
  <2>1. LaneOk(l)' /\ lane'[l].pc # "book"
    BY <1>4, ThroughOk DEF PaceInv, LetThrough, TypeOK, LanesTyped, IdleLane
  <2> QED BY <1>1, <2>1, LaneMoves
<1>5. CASE /\ ~Spent(Mine(l).slot, lane[l].asked)
           /\ lane' = [lane EXCEPT ![l].pc = "gate", ![l].slot = Mine(l).slot]
  <2>1. /\ lane'[l].pc = "gate" /\ lane'[l].slot = Mine(l).slot
        /\ lane'[l].email = lane[l].email /\ lane'[l].asked = lane[l].asked
    BY <1>5 DEF PaceInv, TypeOK, LanesTyped
  <2>2. Mine(l).slot # NoTime /\ HasSlot(lane[l].email, Mine(l).slot)
    BY <1>3, <1>5 DEF PaceInv, Newest, Mine, Spent
  <2>3. lane[l].asked < Mine(l).slot + Window
    <3>1. Mine(l).slot \in Nat /\ Window \in Nat
      BY <1>3, <2>2, BurstAssumption DEF BurstAssumption, PaceInv, TypeOK, Mine, Times
    <3> QED BY <1>2, <1>5, <3>1 DEF Spent
  <2>4. HasSlot(lane[l].email, lane[l].slot)'
    BY <2>1, <2>2 DEF HasSlot
  <2>5. LaneOk(l)'
    BY <1>2, <2>1, <2>2, <2>3, <2>4 DEF LaneOk, InBooking, NoTime
  <2> QED BY <1>1, <2>1, <2>5, LaneMoves
<1>6. CASE /\ Spent(Mine(l).slot, lane[l].asked)
           /\ lane' = [lane EXCEPT ![l].pc = "book", ![l].dated = now]
  <2>1. /\ lane'[l].pc = "book" /\ lane'[l].dated = now
        /\ lane'[l].email = lane[l].email /\ lane'[l].asked = lane[l].asked
    BY <1>6 DEF PaceInv, TypeOK, LanesTyped
  <2>2. Mine(l)' = Mine(l)
    BY <2>1 DEF Mine
  <2>3. LaneOk(l)'
    BY <1>2, <1>6, <2>1, <2>2 DEF LaneOk, InBooking, Spent, NoTime
  <2>4. OneLock'
    BY <1>1, <2>1 DEF PaceInv, OneLock, Locked
  <2>5. ClockInv' /\ BookedOnce' /\ \A e \in Emails : Newest(e)'
    BY NothingBooked
  <2>6. ASSUME NEW m \in Lanes PROVE LaneOk(m)'
    BY <1>1, <2>3, <2>6, LaneKeeps
  <2>7. \A e \in Emails : gone'[e] # NoTime => Backed(e, gone[e])'
    BY GoneKeeps
  <2> QED BY <2>4, <2>5, <2>6, <2>7 DEF PaceInv
<1> QED BY <1>4, <1>5, <1>6

LEMMA DieKeeps ==
  ASSUME PaceInv, TypeOK', NEW l \in Lanes, Die(l)
  PROVE  PaceInv'
<1> USE DEF Die
<1>1. \A m \in Lanes \ {l} : lane'[m] = lane[m]
  BY DEF PaceInv, TypeOK, LanesTyped, LaneDone
<1>2. LaneOk(l)' /\ lane'[l].pc # "book"
  BY IdleOk DEF PaceInv, LaneDone, TypeOK, LanesTyped, IdleLane
<1> QED BY <1>1, <1>2, LaneMoves

(* A row that leaves the queue, comes back or is sent keeps its slot.       *)
LEMMA SlotsStay ==
  ASSUME PaceInv, NEW e \in Emails, NEW s, row' = [row EXCEPT ![e].status = s]
  PROVE  \A f \in Emails : row'[f].slot = row[f].slot
BY DEF PaceInv, TypeOK

LEMMA ClaimKeeps ==
  ASSUME PaceInv, TypeOK', NEW l \in Lanes, Claim(l)
  PROVE  PaceInv'
<1> USE DEF Claim
<1>1. \A m \in Lanes \ {l} : lane'[m] = lane[m]
  BY DEF PaceInv, TypeOK, LanesTyped, LaneDone
<1>2. LaneOk(l)' /\ lane'[l].pc # "book"
  BY IdleOk DEF PaceInv, LaneDone, TypeOK, LanesTyped, IdleLane
<1>3. lane[l].email \in Emails /\ (lane[l].passed = NoTime \/ Backed(lane[l].email, lane[l].passed))
  BY DEF PaceInv, TypeOK, LanesTyped, LaneOk
<1>4. \A f \in Emails : row'[f].slot = row[f].slot
  BY <1>3, SlotsStay
<1>5. ClockInv' /\ BookedOnce' /\ \A f \in Emails : Newest(f)'
  BY <1>4, NothingBooked
<1>6. ASSUME NEW m \in Lanes PROVE LaneOk(m)'
  <2>1. lane[m].pc = "book" => lane[m].email \in Emails
    BY <1>6 DEF PaceInv, TypeOK, LanesTyped
  <2> QED BY <1>1, <1>2, <1>4, <1>6, <2>1, LaneKeeps
<1>7. OneLock'
  BY <1>1, <1>2 DEF PaceInv, OneLock
<1>8. ASSUME NEW e \in Emails, gone'[e] # NoTime PROVE Backed(e, gone[e])'
  <2>a. gone \in [Emails -> Times]
    BY DEF PaceInv, TypeOK
  <2>b. gone' = gone \/ gone' = [gone EXCEPT ![lane[l].email] = lane[l].passed]
    OBVIOUS
  <2>1. gone'[e] = gone[e] \/ (e = lane[l].email /\ gone'[e] = lane[l].passed)
    BY <1>3, <2>a, <2>b
  <2>2. Backed(e, gone'[e])
    BY <1>3, <1>8, <2>1 DEF PaceInv
  <2> QED BY <2>2 DEF Backed
<1> QED BY <1>5, <1>6, <1>7, <1>8 DEF PaceInv

(* A row leaves the queue or comes back.                                    *)
LEMMA RowKeeps ==
  ASSUME PaceInv, TypeOK', NEW e \in Emails, Leave(e) \/ Return(e)
  PROVE  PaceInv'
<1> USE DEF Leave, Return
<1>1. \A f \in Emails : row'[f].slot = row[f].slot
  BY SlotsStay
<1>2. ClockInv' /\ BookedOnce' /\ \A f \in Emails : Newest(f)'
  BY <1>1, NothingBooked
<1>3. ASSUME NEW m \in Lanes PROVE LaneOk(m)'
  <2>1. lane[m].pc = "book" => lane[m].email \in Emails
    BY <1>3 DEF PaceInv, TypeOK, LanesTyped
  <2> QED BY <1>1, <1>3, <2>1, LaneKeeps
<1>4. OneLock'
  BY DEF PaceInv, OneLock
<1>5. \A f \in Emails : gone'[f] # NoTime => Backed(f, gone[f])'
  BY GoneKeeps
<1> QED BY <1>2, <1>3, <1>4, <1>5 DEF PaceInv

(* The booking: its stretch begins where the clock stands, so that it is    *)
(* apart from every other; and the row's last slot was spent, so that no    *)
(* slot of the row is within a window of the new one.                       *)
LEMMA BookKeeps ==
  ASSUME PaceInv, TypeOK', NEW l \in Lanes, Book(l)
  PROVE  PaceInv'
<1>a. PICK e, start : e = lane[l].email /\ start = Later(tat, lane[l].dated)
  OBVIOUS
<1>b. PICK slot : slot = Later(lane[l].dated, start + Cost[e] - Window)
  OBVIOUS
<1>c. PICK new : new = [email |-> e, start |-> start, slot |-> slot]
  OBVIOUS
<1>1. /\ tat' = start + Cost[e] /\ row' = [row EXCEPT ![e].slot = slot]
      /\ booked' = booked \cup {new}
      /\ lane' = [lane EXCEPT ![l].pc = "gate", ![l].slot = slot]
      /\ now' = now /\ gone' = gone /\ lane[l].pc = "book"
  BY <1>a, <1>b, <1>c DEF Book
<1>2. /\ e \in Emails /\ lane[l].dated \in Nat /\ lane[l].asked \in Nat /\ tat \in Nat
      /\ lane[l].asked <= lane[l].dated /\ Spent(row[e].slot, lane[l].asked)
      /\ lane[l].asked <= now /\ now <= lane[l].asked + Slack
  BY <1>1, <1>a DEF PaceInv, TypeOK, LanesTyped, Times, LaneOk, InBooking, Mine
<1>3. /\ Cost[e] \in Nat /\ Cost[e] <= Most /\ Most \in Nat /\ Window \in Nat \ {0}
  BY <1>2, BurstAssumption DEF BurstAssumption
<1>4. /\ start \in Nat /\ slot \in Nat /\ tat <= start /\ lane[l].dated <= slot
      /\ start + Cost[e] <= slot + Window /\ slot + Window <= start + Bulk
  BY <1>a, <1>b, <1>2, <1>3 DEF Later, Bulk
<1>5. new.email = e /\ new.start = start /\ new.slot = slot
  BY <1>c
<1>6. \A x \in booked : x.email \in Emails /\ x.start \in Nat /\ x.slot \in Nat
                         /\ Cost[x.email] \in Nat
  BY BurstAssumption DEF BurstAssumption, PaceInv, TypeOK
<1>7. ClockInv'
  <2>1. ASSUME NEW x \in booked PROVE Placed(x)' /\ x.start + Cost[x.email] <= start
    BY <1>1, <1>2, <1>3, <1>4, <1>6, <2>1 DEF PaceInv, ClockInv, Placed
  <2>2. Placed(new)'
    BY <1>1, <1>3, <1>4, <1>5 DEF Placed
  <2>3. ASSUME NEW x \in booked', NEW y \in booked', x # y PROVE Apart(x, y)
    <3>1. CASE x \in booked /\ y \in booked
      BY <2>3, <3>1 DEF PaceInv, ClockInv
    <3>2. CASE x = new \/ y = new
      BY <1>1, <1>5, <2>1, <2>3, <3>2 DEF Apart
    <3> QED BY <1>1, <3>1, <3>2
  <2> QED BY <1>1, <2>1, <2>2, <2>3 DEF ClockInv, Apart
<1>8. ASSUME NEW x \in booked, x.email = e PROVE x.slot + Window <= slot
  <2>1. row[e].slot # NoTime /\ x.slot <= row[e].slot
    BY <1>2, <1>8 DEF PaceInv, Newest
  <2>2. row[e].slot \in Nat /\ row[e].slot + Window <= lane[l].asked
    BY <1>2, <2>1 DEF PaceInv, TypeOK, Times, Spent
  <2> QED BY <1>2, <1>3, <1>4, <1>6, <2>1, <2>2
<1>9. BookedOnce'
  <2> SUFFICES ASSUME NEW x \in booked', NEW y \in booked', x.email = y.email, x # y
               PROVE  x.slot + Window <= y.slot \/ y.slot + Window <= x.slot
    BY DEF BookedOnce
  <2>1. CASE x \in booked /\ y \in booked
    BY <2>1 DEF PaceInv, BookedOnce
  <2>2. CASE x = new /\ y \in booked
    BY <1>5, <1>8, <2>2
  <2>3. CASE y = new /\ x \in booked
    BY <1>5, <1>8, <2>3
  <2> QED BY <1>1, <2>1, <2>2, <2>3
<1>10. ASSUME NEW f \in Emails PROVE Newest(f)'
  <2>1. CASE f = e
    <3>1. row'[f].slot = slot /\ slot # NoTime
      BY <1>1, <1>2, <1>4, <2>1 DEF PaceInv, TypeOK, NoTime
    <3>2. HasSlot(f, slot)'
      BY <1>1, <1>5, <2>1 DEF HasSlot
    <3>3. \A x \in booked' : x.email = f => x.slot <= slot
      BY <1>1, <1>3, <1>4, <1>5, <1>6, <1>8, <2>1
    <3>4. HasSlot(f, row[f].slot)'
      BY <3>1, <3>2 DEF HasSlot
    <3> QED BY <3>1, <3>3, <3>4 DEF Newest
  <2>2. CASE f # e
    <3>1. row'[f].slot = row[f].slot /\ new.email # f
      BY <1>1, <1>5, <2>2 DEF PaceInv, TypeOK
    <3>2. Newest(f)
      BY DEF PaceInv
    <3> QED BY <1>1, <3>1, <3>2 DEF Newest, HasSlot
  <2> QED BY <2>1, <2>2
<1>11. ASSUME NEW m \in Lanes PROVE LaneOk(m)'
  <2>1. CASE m = l
    <3>1. /\ lane'[l].pc = "gate" /\ lane'[l].slot = slot /\ lane'[l].email = e
          /\ lane'[l].asked = lane[l].asked
      BY <1>1, <1>a DEF PaceInv, TypeOK, LanesTyped
    <3>2. HasSlot(lane[l].email, lane[l].slot)'
      BY <1>1, <1>5, <3>1 DEF HasSlot
    <3>3. slot # NoTime /\ lane[l].asked # NoTime /\ lane[l].asked < slot + Window
      BY <1>2, <1>3, <1>4 DEF NoTime
    <3> QED BY <1>1, <1>2, <2>1, <3>1, <3>2, <3>3 DEF LaneOk, InBooking
  <2>2. CASE m # l
    <3>1. lane'[m] = lane[m]
      BY <1>1, <2>2 DEF PaceInv, TypeOK, LanesTyped
    <3>2. lane[m].pc = "book" => row'[lane[m].email].slot = row[lane[m].email].slot
      <4> SUFFICES ASSUME lane[m].pc = "book" PROVE row'[lane[m].email] = row[lane[m].email]
        OBVIOUS
      <4>1. lane[m].email # e /\ lane[m].email \in Emails
        BY <1>1, <1>a, <2>2 DEF PaceInv, OneLock, TypeOK, LanesTyped
      <4> QED BY <1>1, <4>1 DEF PaceInv, TypeOK
    <3> QED BY <1>1, <3>1, <3>2, LaneKeeps
  <2> QED BY <2>1, <2>2
<1>12. OneLock'
  BY <1>1 DEF PaceInv, OneLock, TypeOK, LanesTyped
<1>13. \A f \in Emails : gone'[f] # NoTime => Backed(f, gone[f])'
  BY <1>1, GoneKeeps
<1> QED BY <1>7, <1>9, <1>10, <1>11, <1>12, <1>13 DEF PaceInv

-----------------------------------------------------------------------------
LEMMA PaceStart ==
  ASSUME Init, TypeOK
  PROVE  PaceInv
<1> USE DEF Init, NoTime, InBooking, IdleLane
<1>1. ClockInv /\ BookedOnce /\ OneLock
  BY DEF ClockInv, BookedOnce, OneLock
<1>2. \A e \in Emails : Newest(e) /\ (gone[e] # NoTime => Backed(e, gone[e]))
  BY DEF Newest
<1>3. \A l \in Lanes : LaneOk(l)
  BY DEF LaneOk
<1> QED BY <1>1, <1>2, <1>3 DEF PaceInv

LEMMA PaceStep ==
  ASSUME PaceInv, TypeOK', [Next]_vars
  PROVE  PaceInv'
<1>1. CASE Tick
  BY <1>1, TickKeeps
<1>2. ASSUME NEW l \in Lanes, LaneStep(l) PROVE PaceInv'
  BY <1>2, ReadKeeps, CheckKeeps, LockKeeps, BookKeeps, GateKeeps, ClaimKeeps, DieKeeps
  DEF LaneStep
<1>3. ASSUME NEW e \in Emails, Leave(e) \/ Return(e) PROVE PaceInv'
  BY <1>3, RowKeeps
<1>4. CASE UNCHANGED vars
  BY <1>4 DEF vars, PaceInv, ClockInv, Placed, Apart, OneLock, BookedOnce, Newest, HasSlot,
              Backed, LaneOk, Mine, Spent, InBooking
<1> QED BY <1>1, <1>2, <1>3, <1>4 DEF Next

THEOREM PaceHolds == Spec => []PaceInv
<1>1. Init /\ TypeOK => PaceInv
  BY PaceStart
<1>2. PaceInv /\ TypeOK' /\ [Next]_vars => PaceInv'
  BY PaceStep
<1> QED BY <1>1, <1>2, BurstTyping, PTL DEF Spec

(* Two lanes that have one row, a row that is held and comes back, and a    *)
(* worker that dies between a booking and the gate: no row is booked again  *)
(* within a window of its slot.                                             *)
THEOREM SlotsBookedOnce == Spec => []BookedOnce
<1>1. PaceInv => BookedOnce
  BY DEF PaceInv
<1> QED BY <1>1, PaceHolds, PTL

-----------------------------------------------------------------------------
(* The mail let through between two instants is one message's cost after    *)
(* the other on the virtual clock, and the stretch of the clock that is in  *)
(* reach between them is as long as the bound.                              *)
LEMMA Paced ==
  ASSUME PaceInv
  PROVE  PassesPaced
<1> SUFFICES ASSUME NEW d \in Emails, NEW e \in Emails, gone[d] # NoTime, gone[d] <= gone[e]
             PROVE  Cardinality(MassGone(gone[d], gone[e]))
                      <= gone[e] - gone[d] + Later(Window, Most) + Window + Slack - 1
  BY DEF PassesPaced
<1> DEFINE a == gone[d]
           b == gone[e]
           Gone == {f \in Emails : gone[f] \in a..b}
           B == [f \in Gone |->
                  CHOOSE x \in booked : x.email = f /\ x.slot <= gone[f]
                                        /\ gone[f] < x.slot + Window + Slack]
           first == a - Slack - Bulk + 1
           last == b + Window
           At == [u \in MassGone(a, b) |-> B[u[1]].start + u[2]]
<1>1. /\ a \in Nat /\ b \in Nat /\ a <= b /\ Window \in Nat \ {0} /\ Most \in Nat
      /\ Slack \in Nat /\ Cost \in [Emails -> 1..Most] /\ gone \in [Emails -> Times]
  BY BurstAssumption DEF BurstAssumption, PaceInv, TypeOK, Times, NoTime
<1>2. Bulk \in Nat /\ Bulk >= 1 /\ first \in Int /\ last \in Int
  BY <1>1 DEF Bulk, Later
<1>3. ASSUME NEW f \in Gone
      PROVE  /\ f \in Emails /\ gone[f] \in Nat /\ a <= gone[f] /\ gone[f] <= b
             /\ B[f] \in booked /\ B[f].email = f /\ B[f].slot <= gone[f]
             /\ gone[f] < B[f].slot + Window + Slack
  <2>1. f \in Emails /\ gone[f] \in a..b
    BY <1>3
  <2>2. gone[f] \in Nat /\ a <= gone[f] /\ gone[f] <= b
    BY <1>1, <2>1
  <2>3. Backed(f, gone[f])
    BY <2>1, <2>2 DEF PaceInv, NoTime
  <2>4. \E x \in booked : x.email = f /\ x.slot <= gone[f] /\ gone[f] < x.slot + Window + Slack
    BY <2>3 DEF Backed
  <2> QED BY <2>1, <2>2, <2>4
<1>4. ASSUME NEW f \in Gone, NEW i \in 1..Cost[f]
      PROVE  B[f].start + i \in first + 1..last
  <2>1. B[f].start \in Nat /\ B[f].slot \in Nat /\ Cost[f] \in Nat /\ gone[f] \in Nat
    BY <1>1, <1>3 DEF PaceInv, TypeOK
  <2>2. /\ B[f].start + Cost[f] <= B[f].slot + Window
        /\ B[f].slot + Window <= B[f].start + Bulk
    BY <1>3 DEF PaceInv, ClockInv, Placed
  <2>3. /\ a <= gone[f] /\ gone[f] <= b /\ B[f].slot <= gone[f]
        /\ gone[f] < B[f].slot + Window + Slack
    BY <1>3
  <2>4. 1 <= i /\ i <= Cost[f] /\ i \in Nat
    BY <2>1, <1>4
  <2> HIDE DEF B, Gone
  <2> QED BY <1>1, <1>2, <2>1, <2>2, <2>3, <2>4
<1> HIDE DEF B
<1>5. ASSUME NEW u \in MassGone(a, b)
      PROVE  u = <<u[1], u[2]>> /\ u[1] \in Gone /\ u[2] \in 1..Cost[u[1]]
  BY <1>5 DEF MassGone, Mass
<1>6. At \in [MassGone(a, b) -> first + 1..last]
  <2>1. \A u \in MassGone(a, b) : B[u[1]].start + u[2] \in first + 1..last
    BY <1>4, <1>5
  <2> QED BY <2>1
<1>7. ASSUME NEW u \in MassGone(a, b), NEW v \in MassGone(a, b), At[u] = At[v]
      PROVE  u = v
  <2> DEFINE f == u[1]
             g == v[1]
  <2>1. /\ f \in Gone /\ g \in Gone /\ u[2] \in 1..Cost[f] /\ v[2] \in 1..Cost[g]
        /\ u = <<f, u[2]>> /\ v = <<g, v[2]>>
    BY <1>5
  <2>2. /\ B[f] \in booked /\ B[g] \in booked /\ B[f].email = f /\ B[g].email = g
        /\ f \in Emails /\ g \in Emails
    BY <1>3, <2>1
  <2>3. B[f].start \in Nat /\ B[g].start \in Nat /\ Cost[f] \in Nat /\ Cost[g] \in Nat
    BY <1>1, <2>2 DEF PaceInv, TypeOK
  <2>4. B[f].start + u[2] = B[g].start + v[2]
    BY <1>7
  <2>5. f = g
    <3> SUFFICES ASSUME f # g PROVE FALSE
      OBVIOUS
    <3>1. B[f].start + Cost[f] <= B[g].start \/ B[g].start + Cost[g] <= B[f].start
      BY <2>2 DEF PaceInv, ClockInv, Apart
    <3> HIDE DEF f, g
    <3> QED BY <2>1, <2>3, <2>4, <3>1
  <2>6. u[2] = v[2]
    BY <2>1, <2>3, <2>4, <2>5
  <2> QED BY <2>1, <2>5, <2>6
<1>8. At \in Injection(MassGone(a, b), first + 1..last)
  BY <1>6, <1>7 DEF Injection, IsInjective
<1>9. IsFiniteSet(first + 1..last)
      /\ Cardinality(first + 1..last) = IF first + 1 > last THEN 0 ELSE last - (first + 1) + 1
  BY <1>2, FS_Interval, SMTT(40)
<1>10. Cardinality(MassGone(a, b)) <= Cardinality(first + 1..last)
  BY <1>8, <1>9, FS_Injection
<1>11. Cardinality(first + 1..last) = b - a + Bulk + Window + Slack - 1
  <2>1. ~(first + 1 > last) /\ last - (first + 1) + 1 = b - a + Bulk + Window + Slack - 1
    BY <1>1, <1>2
  <2> HIDE DEF first, last
  <2> QED BY <1>9, <2>1
<1> QED BY <1>10, <1>11 DEF Bulk

(* The mail let through between two passings costs no more than the         *)
(* allowance refilled between them, a burst, and the slots kept before.     *)
THEOREM MailIsPaced == Spec => []PassesPaced
<1>1. PaceInv => PassesPaced
  BY Paced
<1> QED BY <1>1, PaceHolds, PTL
=============================================================================
