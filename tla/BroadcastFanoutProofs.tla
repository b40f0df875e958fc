----------------------- MODULE BroadcastFanoutProofs ------------------------
(***************************************************************************)
(* Theorems about BroadcastFanout, for any audience, any size of page and  *)
(* any number of walks, lanes, drains and sweeps: every variable has its   *)
(* type, a finished walk has reached everyone, the counter covers the rows *)
(* that went out or may go out, and no row is claimed behind a stop.       *)
(***************************************************************************)
EXTENDS BroadcastFanout, FiniteSetTheorems, TLAPS

(* The contacts a walk must reach up to a point have their row.             *)
ReachedTo(n) == \A c \in Contacts \ everOut : c <= n => row[c] # "none"
ReachedAll == \A c \in Contacts \ everOut : row[c] # "none"

(* A page leaves out nobody below its end who has no row yet.               *)
PageClosed(w) ==
  \A c \in Contacts \ everOut, d \in walk[w].page :
    c <= d => c \in walk[w].page \/ row[c] # "none"

(* What a walk has dealt with in its page has a row.                        *)
PageWritten(w) ==
  \A c \in walk[w].page \ walk[w].todo : c \in everOut \/ row[c] # "none"

WalkInv(w) ==
  /\ ReachedTo(walk[w].cursor)
  /\ at[w] \in {"beat", "insert"} => PageClosed(w)
  /\ at[w] = "insert" => PageWritten(w)
  /\ at[w] = "end" => ReachedAll

(* The inductive invariant: what is stored, or held by any walk, never runs *)
(* ahead of the rows.                                                       *)
ReachInv ==
  /\ out \subseteq everOut
  /\ ReachedTo(cursor)
  /\ \A w \in Walkers : WalkInv(w)
  /\ walked \/ status = "sent" => ReachedAll

-----------------------------------------------------------------------------
LEMMA InTyped ==
  ASSUME FanoutAssumption, NEW s
  PROVE  /\ In(s) \subseteq Contacts /\ Cardinality(In(s)) \in Nat
<1>1. In(s) \subseteq Contacts
  BY DEF In
<1>2. IsFiniteSet(In(s))
  BY <1>1, FS_Subset DEF FanoutAssumption
<1> QED
  BY <1>1, <1>2, FS_CardinalityType

(* Every variable has its type.                                             *)
THEOREM FanoutTyping == Spec => []TypeOK
<1>1. Init => TypeOK
  <2> SUFFICES ASSUME Init PROVE TypeOK
    OBVIOUS
  <2>1. walk \in [Walkers -> Walks] /\ lane \in [Lanes -> [pc : LaneSteps, contact : Contacts \cup {0}]]
    BY DEF Init, Walks, NoWalk, IdleLane, LaneSteps
  <2>2. \A l \in Lanes : lane[l].pc = "idle"
    BY DEF Init, IdleLane
  <2>3. /\ at \in [Procs -> Places] /\ moved \in [Procs -> SUBSET Contacts]
        /\ page \in [Drains -> SUBSET Contacts] /\ owed \in [Procs -> Nat]
    BY DEF Init, Places
  <2> QED
    BY <2>1, <2>2, <2>3, FanoutAssumption DEF Init, TypeOK, FanoutAssumption, Statuses, RowStates
<1>2. TypeOK /\ [Next]_vars => TypeOK'
  <2> SUFFICES ASSUME TypeOK, [Next]_vars PROVE TypeOK'
    OBVIOUS
  <2> USE FanoutAssumption DEF TypeOK, FanoutAssumption, Statuses, RowStates, Procs,
      Places, LaneSteps, broadcast, jobs, drained, bounds, audience
  <2>1. CASE Schedule
    BY <2>1 DEF Schedule
  <2>2. CASE Stop
    BY <2>2 DEF Stop, Goto
  <2>3. CASE Rekick
    BY <2>3 DEF Rekick
  <2>4. ASSUME NEW c \in Contacts, Change(c) PROVE TypeOK'
    BY <2>4 DEF Change
  <2>5. ASSUME NEW c \in Contacts, Requeue(c) PROVE TypeOK'
    BY <2>5 DEF Requeue
  <2>6. ASSUME NEW c \in Contacts, FailStalled(c) PROVE TypeOK'
    BY <2>6 DEF FailStalled, Put
  <2>7. ASSUME NEW w \in Walkers, Fetch(w) PROVE TypeOK'
    <3>1. retries' \in Nat /\ walk' = walk
      BY <2>7 DEF Fetch
    <3> QED BY <2>7, <3>1 DEF Fetch, Goto
  <2>8. ASSUME NEW w \in Walkers, ReadBroadcast(w) PROVE TypeOK'
    <3>1. walk' \in [Walkers -> Walks]
      BY <2>8 DEF ReadBroadcast, Walks, NoWalk
    <3> QED BY <2>8, <3>1 DEF ReadBroadcast, Goto
  <2>9. ASSUME NEW w \in Walkers, ClaimBroadcast(w) PROVE TypeOK'
    <3>1. walk' \in [Walkers -> Walks]
      BY <2>9 DEF ClaimBroadcast, Walks, NoWalk
    <3> QED BY <2>9, <3>1 DEF ClaimBroadcast, Goto
  <2>10. ASSUME NEW w \in Walkers, ReadPage(w) PROVE TypeOK'
    <3>1. walk' \in [Walkers -> Walks]
      BY <2>10, SMTT(40) DEF ReadPage, Walks, NoWalk
    <3> QED BY <2>10, <3>1 DEF ReadPage, Goto
  <2>11. ASSUME NEW w \in Walkers, Heartbeat(w) PROVE TypeOK'
    <3>1. walk' = [walk EXCEPT ![w] = NoWalk] \/ walk' = walk
          \/ \E s \in SUBSET Contacts : walk' = [walk EXCEPT ![w].todo = s]
      BY <2>11 DEF Heartbeat, LeaveWalk, Walks
    <3>2. walk' \in [Walkers -> Walks]
      BY <3>1 DEF Walks, NoWalk
    <3>3. cursor' \in Contacts \cup {0}
      BY <2>11 DEF Heartbeat, Walks
    <3>4. at' \in [Procs -> Places] /\ created' \in BOOLEAN
      BY <2>11 DEF Heartbeat, LeaveWalk, Goto
    <3> QED BY <2>11, <3>2, <3>3, <3>4 DEF Heartbeat
  <2>12. ASSUME NEW w \in Walkers, InsertRow(w) PROVE TypeOK'
    <3>1. walk' \in [Walkers -> Walks]
      BY <2>12, SMTT(40) DEF InsertRow, Walks, NoWalk
    <3> QED BY <2>12, <3>1 DEF InsertRow, Put
  <2>13. ASSUME NEW w \in Walkers, EnqueuePage(w) PROVE TypeOK'
    <3>1. walk' \in [Walkers -> Walks]
      BY <2>13 DEF EnqueuePage, Walks, NoWalk
    <3>2. mail' \subseteq Contacts
      BY <2>13 DEF EnqueuePage, Walks
    <3> QED BY <2>13, <3>1, <3>2 DEF EnqueuePage, Goto
  <2>14. ASSUME NEW w \in Walkers, EndWalk(w) PROVE TypeOK'
    <3>1. walk' \in [Walkers -> Walks]
      BY <2>14 DEF EndWalk, Walks, NoWalk, LeaveWalk
    <3> QED BY <2>14, <3>1 DEF EndWalk, Goto, LeaveWalk
  <2>15. ASSUME NEW p \in Procs, Probe(p) PROVE TypeOK'
    BY <2>15 DEF Probe, Goto
  <2>16. ASSUME NEW p \in Procs, Finish(p) PROVE TypeOK'
    BY <2>16 DEF Finish, Goto
  <2>17. ASSUME NEW p \in Crons, CronFinalize(p) PROVE TypeOK'
    BY <2>17 DEF CronFinalize, Goto
  <2>18. ASSUME NEW p \in Procs, FlipParked(p) PROVE TypeOK'
    BY <2>18, InTyped DEF FlipParked, Goto, Cancel
  <2>19. ASSUME NEW p \in Procs, FlipQueued(p) PROVE TypeOK'
    BY <2>19, InTyped DEF FlipQueued, Goto, Cancel
  <2>20. ASSUME NEW p \in Procs, Refund(p) PROVE TypeOK'
    BY <2>20 DEF Refund, Goto, Give
  <2>21. ASSUME NEW l \in Lanes, NEW c \in Contacts, FetchMail(l, c) PROVE TypeOK'
    BY <2>21 DEF FetchMail
  <2>22. ASSUME NEW l \in Lanes, NEW pc \in {"look", "park"}, ReadRow(l, pc) PROVE TypeOK'
    BY <2>22 DEF ReadRow, LaneAt, LaneDone, IdleLane
  <2>23. ASSUME NEW l \in Lanes, NEW pc \in {"claim", "park"}, Look(l, pc) PROVE TypeOK'
    BY <2>23 DEF Look, LaneAt, LaneDone, IdleLane, Put, Give
  <2>24. ASSUME NEW l \in Lanes, Claim(l) PROVE TypeOK'
    BY <2>24, SMTT(30) DEF Claim, LaneAt, LaneDone, IdleLane, Put
  <2>25. ASSUME NEW l \in Lanes, Submit(l) PROVE TypeOK'
    BY <2>25 DEF Submit, LaneDone, IdleLane, Put
  <2>26. ASSUME NEW l \in Lanes, Unclaim(l) PROVE TypeOK'
    BY <2>26 DEF Unclaim, LaneAt, Put
  <2>27. ASSUME NEW l \in Lanes, Park(l) PROVE TypeOK'
    BY <2>27 DEF Park, LaneDone, IdleLane, Put, Give
  <2>28. ASSUME NEW d \in Drains, DrainPick(d) PROVE TypeOK'
    BY <2>28, InTyped DEF DrainPick, Goto
  <2>29. ASSUME NEW d \in Drains, NEW c \in Contacts, DrainRelease(d, c) PROVE TypeOK'
    BY <2>29 DEF DrainRelease, Put
  <2>30. ASSUME NEW d \in Drains, DrainEnqueue(d) PROVE TypeOK'
    BY <2>30 DEF DrainEnqueue, Goto
  <2>31. ASSUME NEW d \in Drains, DrainFails(d) PROVE TypeOK'
    BY <2>31 DEF DrainFails, Goto
  <2>32. ASSUME NEW d \in Drains, NEW c \in Contacts, DrainRepark(d, c) PROVE TypeOK'
    BY <2>32 DEF DrainRepark, Put, Goto
  <2>33. ASSUME NEW d \in Drains, DrainGive(d) PROVE TypeOK'
    BY <2>33 DEF DrainGive, Goto, Give
  <2>34. ASSUME NEW d \in Drains, DrainReparked(d) PROVE TypeOK'
    BY <2>34 DEF DrainReparked, Goto
  <2>35. ASSUME NEW p \in Procs, Die(p) PROVE TypeOK'
    <3>1. walk' \in [Walkers -> Walks] /\ page' \in [Drains -> SUBSET Contacts]
      BY <2>35 DEF Die, Walks, NoWalk
    <3>2. retries' \in Nat /\ deaths' \in Nat
      BY <2>35 DEF Die
    <3>3. /\ at' \in [Procs -> Places] /\ moved' \in [Procs -> SUBSET Contacts]
          /\ owed' \in [Procs -> Nat]
      BY <2>35 DEF Die, Goto
    <3> QED BY <2>35, <3>1, <3>2, <3>3 DEF Die
  <2>36. ASSUME NEW l \in Lanes, LaneDies(l) PROVE TypeOK'
    BY <2>36 DEF LaneDies, LaneDone, IdleLane
  <2>37. CASE UNCHANGED vars
    BY <2>37 DEF vars
  <2> QED
    BY <2>1, <2>2, <2>3, <2>4, <2>5, <2>6, <2>7, <2>8, <2>9, <2>10, <2>11, <2>12,
       <2>13, <2>14, <2>15, <2>16, <2>17, <2>18, <2>19, <2>20, <2>21, <2>22, <2>23,
       <2>24, <2>25, <2>26, <2>27, <2>28, <2>29, <2>30, <2>31, <2>32, <2>33, <2>34,
       <2>35, <2>36, <2>37, ZenonT(60)
    DEF Next, WalkStep, EndStep, LaneStep, DrainStep
<1> QED BY <1>1, <1>2, PTL DEF Spec

-----------------------------------------------------------------------------
(* A row is never taken back.                                               *)
LEMMA RowsStay ==
  ASSUME TypeOK, [Next]_vars, NEW c \in Contacts, row[c] # "none"
  PROVE  row'[c] # "none"
<1> USE DEF TypeOK, Put
<1>1. CASE Schedule
  BY <1>1 DEF Schedule
<1>2. CASE Stop
  BY <1>2 DEF Stop, Goto
<1>3. CASE Rekick
  BY <1>3 DEF Rekick
<1>4. ASSUME NEW b \in Contacts, Change(b) PROVE row'[c] # "none"
  BY <1>4 DEF Change
<1>5. ASSUME NEW b \in Contacts, Requeue(b) PROVE row'[c] # "none"
  BY <1>5 DEF Requeue
<1>6. ASSUME NEW b \in Contacts, FailStalled(b) PROVE row'[c] # "none"
  BY <1>6 DEF FailStalled, Put
<1>7. ASSUME NEW w \in Walkers, Fetch(w) PROVE row'[c] # "none"
  BY <1>7 DEF Fetch, Goto
<1>8. ASSUME NEW w \in Walkers, ReadBroadcast(w) PROVE row'[c] # "none"
  BY <1>8 DEF ReadBroadcast, Goto
<1>9. ASSUME NEW w \in Walkers, ClaimBroadcast(w) PROVE row'[c] # "none"
  BY <1>9 DEF ClaimBroadcast, Goto
<1>10. ASSUME NEW w \in Walkers, ReadPage(w) PROVE row'[c] # "none"
  BY <1>10 DEF ReadPage, Goto
<1>11. ASSUME NEW w \in Walkers, Heartbeat(w) PROVE row'[c] # "none"
  BY <1>11 DEF Heartbeat, Goto, LeaveWalk
<1>12. ASSUME NEW w \in Walkers, InsertRow(w) PROVE row'[c] # "none"
  BY <1>12 DEF InsertRow, Put
<1>13. ASSUME NEW w \in Walkers, EnqueuePage(w) PROVE row'[c] # "none"
  BY <1>13 DEF EnqueuePage, Goto
<1>14. ASSUME NEW w \in Walkers, EndWalk(w) PROVE row'[c] # "none"
  BY <1>14 DEF EndWalk, Goto, LeaveWalk
<1>15. ASSUME NEW p \in Procs, Probe(p) PROVE row'[c] # "none"
  BY <1>15 DEF Probe, Goto
<1>16. ASSUME NEW p \in Procs, Finish(p) PROVE row'[c] # "none"
  BY <1>16 DEF Finish, Goto
<1>17. ASSUME NEW p \in Crons, CronFinalize(p) PROVE row'[c] # "none"
  BY <1>17 DEF CronFinalize, Goto
<1>18. ASSUME NEW p \in Procs, FlipParked(p) PROVE row'[c] # "none"
  BY <1>18 DEF FlipParked, Goto, Cancel
<1>19. ASSUME NEW p \in Procs, FlipQueued(p) PROVE row'[c] # "none"
  BY <1>19 DEF FlipQueued, Goto, Cancel
<1>20. ASSUME NEW p \in Procs, Refund(p) PROVE row'[c] # "none"
  BY <1>20 DEF Refund, Goto, Give
<1>21. ASSUME NEW l \in Lanes, NEW b \in Contacts, FetchMail(l, b) PROVE row'[c] # "none"
  BY <1>21 DEF FetchMail
<1>22. ASSUME NEW l \in Lanes, NEW pc \in {"look", "park"}, ReadRow(l, pc) PROVE row'[c] # "none"
  BY <1>22 DEF ReadRow, LaneAt, LaneDone, IdleLane
<1>23. ASSUME NEW l \in Lanes, NEW pc \in {"claim", "park"}, Look(l, pc) PROVE row'[c] # "none"
  BY <1>23 DEF Look, LaneAt, LaneDone, IdleLane, Put, Give
<1>24. ASSUME NEW l \in Lanes, Claim(l) PROVE row'[c] # "none"
  BY <1>24 DEF Claim, LaneAt, LaneDone, IdleLane, Put
<1>25. ASSUME NEW l \in Lanes, Submit(l) PROVE row'[c] # "none"
  BY <1>25 DEF Submit, LaneDone, IdleLane, Put
<1>26. ASSUME NEW l \in Lanes, Unclaim(l) PROVE row'[c] # "none"
  BY <1>26 DEF Unclaim, LaneAt, Put
<1>27. ASSUME NEW l \in Lanes, Park(l) PROVE row'[c] # "none"
  BY <1>27 DEF Park, LaneDone, IdleLane, Put, Give
<1>28. ASSUME NEW d \in Drains, DrainPick(d) PROVE row'[c] # "none"
  BY <1>28 DEF DrainPick, Goto
<1>29. ASSUME NEW d \in Drains, NEW b \in Contacts, DrainRelease(d, b) PROVE row'[c] # "none"
  BY <1>29 DEF DrainRelease, Put
<1>30. ASSUME NEW d \in Drains, DrainEnqueue(d) PROVE row'[c] # "none"
  BY <1>30 DEF DrainEnqueue, Goto
<1>31. ASSUME NEW d \in Drains, DrainFails(d) PROVE row'[c] # "none"
  BY <1>31 DEF DrainFails, Goto
<1>32. ASSUME NEW d \in Drains, NEW b \in Contacts, DrainRepark(d, b) PROVE row'[c] # "none"
  BY <1>32 DEF DrainRepark, Put, Goto
<1>33. ASSUME NEW d \in Drains, DrainGive(d) PROVE row'[c] # "none"
  BY <1>33 DEF DrainGive, Goto, Give
<1>34. ASSUME NEW d \in Drains, DrainReparked(d) PROVE row'[c] # "none"
  BY <1>34 DEF DrainReparked, Goto
<1>35. ASSUME NEW p \in Procs, Die(p) PROVE row'[c] # "none"
  BY <1>35 DEF Die, Goto
<1>36. ASSUME NEW l \in Lanes, LaneDies(l) PROVE row'[c] # "none"
  BY <1>36 DEF LaneDies, LaneDone, IdleLane
<1>37. CASE UNCHANGED vars
  BY <1>37 DEF vars
<1> QED
  BY <1>1, <1>2, <1>3, <1>4, <1>5, <1>6, <1>7, <1>8, <1>9, <1>10, <1>11, <1>12,
     <1>13, <1>14, <1>15, <1>16, <1>17, <1>18, <1>19, <1>20, <1>21, <1>22, <1>23,
     <1>24, <1>25, <1>26, <1>27, <1>28, <1>29, <1>30, <1>31, <1>32, <1>33, <1>34,
     <1>35, <1>36, <1>37
  DEF Next, WalkStep, EndStep, LaneStep, DrainStep

(* A step that leaves every walk what it holds, and where it holds it.      *)
Quiet ==
  /\ UNCHANGED <<walk, cursor, walked>>
  /\ out' \subseteq everOut' /\ everOut \subseteq everOut'
  /\ \A w \in Walkers : at'[w] \in {"beat", "insert", "end"} => at'[w] = at[w]
  /\ status' = "sent" => status = "sent" \/ walked

(* A walk that is left alone keeps its part of the invariant.               *)
LEMMA WalkKeeps ==
  ASSUME TypeOK, [Next]_vars, NEW w \in Walkers, WalkInv(w), walk'[w] = walk[w],
         everOut \subseteq everOut', at'[w] \in {"beat", "insert", "end"} => at'[w] = at[w]
  PROVE  WalkInv(w)'
<1>1. \A c \in Contacts \ everOut' : c \in Contacts \ everOut /\ (row[c] # "none" => row'[c] # "none")
  BY RowsStay
<1>2. walk[w].page \subseteq Contacts
  BY DEF TypeOK, Walks
<1>3. ReachedTo(walk[w].cursor)'
  BY <1>1 DEF WalkInv, ReachedTo
<1>4. at'[w] \in {"beat", "insert"} => PageClosed(w)'
  BY <1>1, <1>2 DEF WalkInv, PageClosed
<1>5. at'[w] = "insert" => PageWritten(w)'
  <2> SUFFICES ASSUME at'[w] = "insert", NEW c \in walk[w].page \ walk[w].todo,
                      c \notin everOut'
               PROVE  row'[c] # "none"
    BY DEF PageWritten
  <2>1. c \in Contacts /\ c \notin everOut /\ row[c] # "none"
    BY <1>2 DEF WalkInv, PageWritten
  <2> QED BY <2>1, RowsStay
<1>6. at'[w] = "end" => ReachedAll'
  BY <1>1 DEF WalkInv, ReachedAll
<1> QED BY <1>3, <1>4, <1>5, <1>6 DEF WalkInv

(* A walk that has just begun, or was put down, holds nothing.              *)
LEMMA WalkEmpty ==
  ASSUME NEW w \in Walkers, walk'[w] = NoWalk, at'[w] \notin {"beat", "insert", "end"}
  PROVE  WalkInv(w)'
<1>1. walk'[w].cursor = 0 /\ \A c \in Contacts : ~(c <= 0)
  BY FanoutAssumption DEF NoWalk, FanoutAssumption
<1>2. ReachedTo(walk[w].cursor)'
  BY <1>1 DEF ReachedTo
<1> QED BY <1>2 DEF WalkInv

(* Between its pages a walk is only bound by its cursor.                    *)
LEMMA WalkResumed ==
  ASSUME NEW w \in Walkers, ReachedTo(walk[w].cursor)',
         at'[w] \notin {"beat", "insert", "end"}
  PROVE  WalkInv(w)'
BY DEF WalkInv

(* What is stored keeps its part.                                           *)
LEMMA StoredKeeps ==
  ASSUME TypeOK, ReachInv, [Next]_vars, everOut \subseteq everOut', cursor' = cursor,
         walked' = walked, status' = "sent" => status = "sent" \/ walked
  PROVE  /\ ReachedTo(cursor)'
         /\ (walked \/ status = "sent" => ReachedAll)'
BY RowsStay DEF ReachInv, ReachedTo, ReachedAll

LEMMA QuietKeeps ==
  ASSUME TypeOK, ReachInv, [Next]_vars, Quiet
  PROVE  ReachInv'
<1>1. (out \subseteq everOut)'
  BY DEF Quiet
<1>2. ReachedTo(cursor)' /\ (walked \/ status = "sent" => ReachedAll)'
  BY StoredKeeps DEF Quiet
<1>3. ASSUME NEW w \in Walkers PROVE WalkInv(w)'
  BY WalkKeeps DEF ReachInv, Quiet
<1> QED BY <1>1, <1>2, <1>3 DEF ReachInv

LEMMA QuietSteps ==
  ASSUME TypeOK, ReachInv, [Next]_vars
  PROVE  \/ Quiet
         \/ \E w \in Walkers : \/ ReadBroadcast(w) \/ ClaimBroadcast(w) \/ ReadPage(w)
                               \/ Heartbeat(w) \/ InsertRow(w) \/ EnqueuePage(w) \/ EndWalk(w)
         \/ \E p \in Procs : Die(p)
<1> USE DEF TypeOK, ReachInv, Quiet, Procs, Goto, broadcast, jobs, drained, bounds, audience
<1>1. CASE Schedule
  BY <1>1 DEF Schedule
<1>2. CASE Stop
  BY <1>2 DEF Stop
<1>3. CASE Rekick
  BY <1>3 DEF Rekick
<1>4. ASSUME NEW c \in Contacts, Change(c) PROVE Quiet
  BY <1>4 DEF Change
<1>5. ASSUME NEW c \in Contacts, Requeue(c) PROVE Quiet
  BY <1>5 DEF Requeue
<1>6. ASSUME NEW c \in Contacts, FailStalled(c) PROVE Quiet
  BY <1>6 DEF FailStalled
<1>7. ASSUME NEW w \in Walkers, Fetch(w) PROVE Quiet
  BY <1>7 DEF Fetch
<1>8. ASSUME NEW p \in Procs, Probe(p) PROVE Quiet
  BY <1>8 DEF Probe
<1>9. ASSUME NEW p \in Procs, Finish(p) PROVE Quiet
  BY <1>9 DEF Finish
<1>10. ASSUME NEW p \in Crons, CronFinalize(p) PROVE Quiet
  BY <1>10 DEF CronFinalize
<1>11. ASSUME NEW p \in Procs, FlipParked(p) PROVE Quiet
  BY <1>11 DEF FlipParked
<1>12. ASSUME NEW p \in Procs, FlipQueued(p) PROVE Quiet
  BY <1>12 DEF FlipQueued
<1>13. ASSUME NEW p \in Procs, Refund(p) PROVE Quiet
  BY <1>13 DEF Refund
<1>14. ASSUME NEW l \in Lanes, NEW c \in Contacts, FetchMail(l, c) PROVE Quiet
  BY <1>14 DEF FetchMail
<1>15. ASSUME NEW l \in Lanes, NEW pc \in {"look", "park"}, ReadRow(l, pc) PROVE Quiet
  BY <1>15 DEF ReadRow
<1>16. ASSUME NEW l \in Lanes, NEW pc \in {"claim", "park"}, Look(l, pc) PROVE Quiet
  BY <1>16 DEF Look
<1>17. ASSUME NEW l \in Lanes, Claim(l) PROVE Quiet
  BY <1>17 DEF Claim
<1>18. ASSUME NEW l \in Lanes, Submit(l) PROVE Quiet
  BY <1>18 DEF Submit
<1>19. ASSUME NEW l \in Lanes, Unclaim(l) PROVE Quiet
  BY <1>19 DEF Unclaim
<1>20. ASSUME NEW l \in Lanes, Park(l) PROVE Quiet
  BY <1>20 DEF Park
<1>21. ASSUME NEW d \in Drains, DrainPick(d) PROVE Quiet
  BY <1>21 DEF DrainPick
<1>22. ASSUME NEW d \in Drains, NEW c \in Contacts, DrainRelease(d, c) PROVE Quiet
  BY <1>22 DEF DrainRelease
<1>23. ASSUME NEW d \in Drains, DrainEnqueue(d) PROVE Quiet
  BY <1>23 DEF DrainEnqueue
<1>24. ASSUME NEW d \in Drains, DrainFails(d) PROVE Quiet
  BY <1>24 DEF DrainFails
<1>25. ASSUME NEW d \in Drains, NEW c \in Contacts, DrainRepark(d, c) PROVE Quiet
  BY <1>25 DEF DrainRepark
<1>26. ASSUME NEW d \in Drains, DrainGive(d) PROVE Quiet
  BY <1>26 DEF DrainGive
<1>27. ASSUME NEW d \in Drains, DrainReparked(d) PROVE Quiet
  BY <1>27 DEF DrainReparked
<1>28. ASSUME NEW l \in Lanes, LaneDies(l) PROVE Quiet
  BY <1>28 DEF LaneDies
<1>29. CASE UNCHANGED vars
  BY <1>29 DEF vars
<1> QED
  BY <1>1, <1>2, <1>3, <1>4, <1>5, <1>6, <1>7, <1>8, <1>9, <1>10, <1>11, <1>12, <1>13,
     <1>14, <1>15, <1>16, <1>17, <1>18, <1>19, <1>20, <1>21, <1>22, <1>23, <1>24,
     <1>25, <1>26, <1>27, <1>28, <1>29
  DEF Next, WalkStep, EndStep, LaneStep, DrainStep

(* The invariant is inductive.                                              *)
LEMMA ReachStep ==
  ASSUME TypeOK, ReachInv, [Next]_vars
  PROVE  ReachInv'
<1>1. CASE Quiet
  BY <1>1, QuietKeeps
<1>2. ASSUME NEW w \in Walkers, ReadBroadcast(w) PROVE ReachInv'
  <2> USE <1>2 DEF ReadBroadcast, broadcast, audience, Goto
  <2>1. (out \subseteq everOut)' /\ everOut' = everOut
    BY DEF ReachInv
  <2>2. ReachedTo(cursor)' /\ (walked \/ status = "sent" => ReachedAll)'
    BY <2>1, StoredKeeps
  <2>3. ASSUME NEW v \in Walkers, v # w PROVE WalkInv(v)'
    <3>1. walk'[v] = walk[v] /\ at'[v] = at[v]
      BY <2>3 DEF TypeOK, Procs
    <3> QED BY <2>1, <3>1, WalkKeeps DEF ReachInv
  <2>4. at'[w] \notin {"beat", "insert", "end"}
    BY DEF TypeOK, Procs
  <2>5. ASSUME walk' = walk PROVE WalkInv(w)'
    <3>1. walk'[w] = walk[w]
      BY <2>5
    <3>2. ReachedTo(walk[w].cursor)'
      BY <2>1, <3>1 DEF ReachInv, WalkInv, ReachedTo
    <3> QED BY <2>4, <3>2, WalkResumed
  <2>6. ASSUME walk' = [walk EXCEPT ![w] = [NoWalk EXCEPT !.cursor = cursor]]
        PROVE  WalkInv(w)'
    <3>1. walk'[w].cursor = cursor
      BY <2>6 DEF TypeOK, NoWalk
    <3>2. ReachedTo(walk[w].cursor)'
      BY <2>1, <2>2, <3>1 DEF ReachedTo
    <3> QED BY <2>4, <3>2, WalkResumed
  <2>7. \/ walk' = walk
        \/ walk' = [walk EXCEPT ![w] = [NoWalk EXCEPT !.cursor = cursor]]
    OBVIOUS
  <2> QED BY <2>1, <2>2, <2>3, <2>5, <2>6, <2>7 DEF ReachInv
<1>3. ASSUME NEW w \in Walkers, ClaimBroadcast(w) PROVE ReachInv'
  <2> USE <1>3 DEF ClaimBroadcast, broadcast, audience, Goto
  <2>1. (out \subseteq everOut)' /\ everOut' = everOut
    BY DEF ReachInv
  <2>2. ReachedTo(cursor)' /\ (walked \/ status = "sent" => ReachedAll)'
    BY <2>1, StoredKeeps
  <2>3. ASSUME NEW v \in Walkers, v # w PROVE WalkInv(v)'
    <3>1. walk'[v] = walk[v] /\ at'[v] = at[v]
      BY <2>3 DEF TypeOK, Procs
    <3> QED BY <2>1, <3>1, WalkKeeps DEF ReachInv
  <2>4. at'[w] \notin {"beat", "insert", "end"}
    BY DEF TypeOK, Procs
  <2>5. walk'[w] = walk[w] \/ walk'[w] = NoWalk
    BY DEF TypeOK
  <2>6. WalkInv(w)'
    BY <2>1, <2>4, <2>5, WalkKeeps, WalkEmpty DEF ReachInv
  <2> QED BY <2>1, <2>2, <2>3, <2>6 DEF ReachInv
<1>4. ASSUME NEW w \in Walkers, ReadPage(w) PROVE ReachInv'
  <2> USE <1>4 DEF broadcast, audience, Goto
  <2>1. (out \subseteq everOut)' /\ everOut' = everOut /\ row' = row
    BY DEF ReachInv, ReadPage
  <2>2. ReachedTo(cursor)' /\ (walked \/ status = "sent" => ReachedAll)'
    BY <2>1, StoredKeeps DEF ReadPage
  <2>3. ASSUME NEW v \in Walkers, v # w PROVE WalkInv(v)'
    <3>1. walk'[v] = walk[v] /\ at'[v] = at[v]
      BY <2>3 DEF TypeOK, Procs, ReadPage
    <3> QED BY <2>1, <3>1, WalkKeeps DEF ReachInv
  <2>4. PICK p \in SUBSET Contacts :
          /\ IsPage(walk[w].cursor, p)
          /\ walk' = [walk EXCEPT ![w].page = p]
          /\ at' = [at EXCEPT ![w] = IF p = {} THEN "end" ELSE "beat"]
    BY DEF ReadPage
  <2>5. walk'[w].cursor = walk[w].cursor /\ walk'[w].page = p
    BY <2>4 DEF TypeOK, Walks
  <2>6. at'[w] = IF p = {} THEN "end" ELSE "beat"
    BY <2>4 DEF TypeOK, Procs
  <2>7. ReachedTo(walk[w].cursor)'
    BY <2>1, <2>5 DEF ReachInv, WalkInv, ReachedTo
  <2>8. ASSUME NEW c \in Contacts \ everOut, c \notin p, row[c] = "none"
        PROVE  c > walk[w].cursor /\ \A d \in p : d < c
    <3>1. c \in Contacts \ out /\ ~(c <= walk[w].cursor)
      BY <2>8 DEF ReachInv, WalkInv, ReachedTo
    <3>2. walk[w].cursor \in Nat /\ c \in Nat /\ p \subseteq Nat
      <4>1. walk[w].cursor \in Contacts \cup {0}
        BY DEF TypeOK, Walks
      <4>2. Contacts \subseteq Nat /\ \A n \in Contacts \cup {0} : n \in Nat
        BY FanoutAssumption DEF FanoutAssumption
      <4>3. walk[w].cursor \in Nat
        BY <4>1, <4>2
      <4>4. c \in Nat /\ p \subseteq Nat
        BY <4>2
      <4> QED BY <4>3, <4>4
    <3>3. c > walk[w].cursor
      BY <3>1, <3>2
    <3> QED BY <2>4, <2>8, <3>1, <3>2, <3>3 DEF IsPage
  <2>9. PageClosed(w)'
    <3> SUFFICES ASSUME NEW c \in Contacts \ everOut, NEW d \in p, c <= d, c \notin p
                 PROVE  row[c] # "none"
      BY <2>1, <2>5 DEF PageClosed
    <3>1. c \in Nat /\ d \in Nat
      BY FanoutAssumption DEF FanoutAssumption
    <3> QED BY <2>8, <3>1
  <2>10. p = {} => ReachedAll'
    <3> SUFFICES ASSUME p = {}, NEW c \in Contacts \ everOut, row[c] = "none"
                 PROVE  FALSE
      BY <2>1 DEF ReachedAll
    <3>1. c > walk[w].cursor /\ c \in Contacts \ out
      BY <2>8 DEF ReachInv
    <3>2. Cardinality(p) = 0 /\ Batch # 0
      BY FS_EmptySet, FanoutAssumption DEF FanoutAssumption
    <3> QED BY <2>4, <3>1, <3>2 DEF IsPage
  <2>11. WalkInv(w)'
    BY <2>6, <2>7, <2>9, <2>10 DEF WalkInv
  <2> QED BY <2>1, <2>2, <2>3, <2>11 DEF ReachInv
<1>5. ASSUME NEW w \in Walkers, Heartbeat(w) PROVE ReachInv'
  <2> USE <1>5 DEF audience, Goto
  <2>1. (out \subseteq everOut)' /\ everOut' = everOut /\ row' = row /\ walked' = walked
    BY DEF ReachInv, Heartbeat
  <2>2. ReachedTo(cursor)' /\ (walked \/ status = "sent" => ReachedAll)'
    BY <2>1 DEF ReachInv, WalkInv, ReachedTo, ReachedAll, Heartbeat
  <2>3. ASSUME NEW v \in Walkers, v # w PROVE WalkInv(v)'
    <3>1. walk'[v] = walk[v] /\ at'[v] = at[v]
      BY <2>3 DEF TypeOK, Procs, Heartbeat, LeaveWalk
    <3> QED BY <2>1, <3>1, WalkKeeps DEF ReachInv
  <2>4. ASSUME walk' = [walk EXCEPT ![w] = NoWalk], at'[w] \notin {"beat", "insert", "end"}
        PROVE  WalkInv(w)'
    <3>1. walk'[w] = NoWalk
      BY <2>4 DEF TypeOK
    <3> QED BY <2>4, <3>1, WalkEmpty
  <2>5. ASSUME NEW skip \in SUBSET (walk[w].page \cap out),
               walk' = [walk EXCEPT ![w].todo = walk[w].page \ skip], at'[w] = "insert"
        PROVE  WalkInv(w)'
    <3>1. /\ walk'[w].cursor = walk[w].cursor /\ walk'[w].page = walk[w].page
          /\ walk'[w].todo = walk[w].page \ skip
      BY <2>5 DEF TypeOK, Walks
    <3>2. at[w] = "beat"
      BY DEF Heartbeat
    <3>3. ReachedTo(walk[w].cursor)' /\ PageClosed(w)'
      BY <2>1, <3>1, <3>2 DEF ReachInv, WalkInv, ReachedTo, PageClosed
    <3>4. PageWritten(w)'
      BY <2>1, <3>1 DEF ReachInv, PageWritten
    <3> QED BY <2>5, <3>3, <3>4 DEF WalkInv
  <2>6. \/ walk' = [walk EXCEPT ![w] = NoWalk] /\ at'[w] \notin {"beat", "insert", "end"}
        \/ \E skip \in SUBSET (walk[w].page \cap out) :
             walk' = [walk EXCEPT ![w].todo = walk[w].page \ skip] /\ at'[w] = "insert"
    <3>1. at'[w] = "insert" \/ at'[w] \notin {"beat", "insert", "end"}
      BY DEF Heartbeat, LeaveWalk, TypeOK, Procs
    <3> QED BY <3>1 DEF Heartbeat, LeaveWalk, TypeOK, Procs
  <2>7. WalkInv(w)'
    BY <2>4, <2>5, <2>6
  <2> QED BY <2>1, <2>2, <2>3, <2>7 DEF ReachInv
<1>6. ASSUME NEW w \in Walkers, InsertRow(w) PROVE ReachInv'
  <2> USE <1>6 DEF broadcast, audience
  <2>1. (out \subseteq everOut)' /\ everOut' = everOut /\ at' = at
    BY DEF ReachInv, InsertRow
  <2>2. ReachedTo(cursor)' /\ (walked \/ status = "sent" => ReachedAll)'
    BY <2>1, StoredKeeps DEF InsertRow
  <2>3. ASSUME NEW v \in Walkers, v # w PROVE WalkInv(v)'
    <3>1. walk'[v] = walk[v] /\ at'[v] = at[v]
      BY <2>3 DEF TypeOK, Procs, InsertRow
    <3> QED BY <2>1, <3>1, WalkKeeps DEF ReachInv
  <2>4. PICK c \in walk[w].todo :
          /\ row'[c] # "none"
          /\ walk'[w].cursor = walk[w].cursor /\ walk'[w].page = walk[w].page
          /\ walk'[w].todo = walk[w].todo \ {c}
    BY DEF InsertRow, Put, TypeOK, Walks
  <2>5. walk[w].page \subseteq Contacts
    BY DEF TypeOK, Walks
  <2>6. ReachedTo(walk[w].cursor)' /\ PageClosed(w)'
    BY <2>1, <2>4, <2>5, RowsStay DEF InsertRow, ReachInv, WalkInv, ReachedTo, PageClosed
  <2>7. PageWritten(w)'
    <3> SUFFICES ASSUME NEW b \in walk[w].page \ (walk[w].todo \ {c}), b \notin everOut
                 PROVE  row'[b] # "none"
      BY <2>1, <2>4 DEF PageWritten
    <3>1. CASE b = c
      BY <2>4, <3>1
    <3>2. CASE b # c
      BY <2>5, <3>2, RowsStay DEF InsertRow, ReachInv, WalkInv, PageWritten
    <3> QED BY <3>1, <3>2
  <2>8. WalkInv(w)'
    BY <2>1, <2>6, <2>7 DEF WalkInv, InsertRow
  <2> QED BY <2>1, <2>2, <2>3, <2>8 DEF ReachInv
<1>7. ASSUME NEW w \in Walkers, EnqueuePage(w) PROVE ReachInv'
  <2> USE <1>7 DEF broadcast, audience, Goto
  <2>1. (out \subseteq everOut)' /\ everOut' = everOut /\ row' = row
    BY DEF ReachInv, EnqueuePage
  <2>2. ReachedTo(cursor)' /\ (walked \/ status = "sent" => ReachedAll)'
    BY <2>1, StoredKeeps DEF EnqueuePage
  <2>3. ASSUME NEW v \in Walkers, v # w PROVE WalkInv(v)'
    <3>1. walk'[v] = walk[v] /\ at'[v] = at[v]
      BY <2>3 DEF TypeOK, Procs, EnqueuePage
    <3> QED BY <2>1, <3>1, WalkKeeps DEF ReachInv
  <2>4. PICK d \in walk[w].page : walk' = [walk EXCEPT ![w] = [NoWalk EXCEPT !.cursor = d]]
    BY DEF EnqueuePage
  <2>5. walk'[w].cursor = d /\ at'[w] = "page"
    BY <2>4 DEF TypeOK, NoWalk, EnqueuePage, Procs
  <2>6. ReachedTo(walk[w].cursor)'
    <3> SUFFICES ASSUME NEW c \in Contacts \ everOut, c <= d PROVE row[c] # "none"
      BY <2>1, <2>5 DEF ReachedTo
    <3>1. c \in walk[w].page \/ row[c] # "none"
      BY DEF ReachInv, WalkInv, PageClosed, EnqueuePage
    <3> QED BY <3>1 DEF ReachInv, WalkInv, PageWritten, EnqueuePage
  <2>7. WalkInv(w)'
    BY <2>5, <2>6 DEF WalkInv
  <2> QED BY <2>1, <2>2, <2>3, <2>7 DEF ReachInv
<1>8. ASSUME NEW w \in Walkers, EndWalk(w) PROVE ReachInv'
  <2> USE <1>8 DEF audience, Goto
  <2>1. (out \subseteq everOut)' /\ everOut' = everOut /\ row' = row /\ status' = status
    BY DEF ReachInv, EndWalk
  <2>2. ReachedAll
    BY DEF ReachInv, WalkInv, EndWalk
  <2>3. ReachedTo(cursor)' /\ ReachedAll'
    BY <2>1, <2>2 DEF ReachedTo, ReachedAll
  <2>4. ASSUME NEW v \in Walkers, v # w PROVE WalkInv(v)'
    <3>1. walk'[v] = walk[v] /\ at'[v] = at[v]
      BY <2>4 DEF TypeOK, Procs, EndWalk, LeaveWalk
    <3> QED BY <2>1, <3>1, WalkKeeps DEF ReachInv
  <2>5. walk'[w] = NoWalk /\ at'[w] \notin {"beat", "insert", "end"}
    BY DEF TypeOK, EndWalk, LeaveWalk, Procs
  <2>6. WalkInv(w)'
    BY <2>5, WalkEmpty
  <2> QED BY <2>1, <2>3, <2>4, <2>6 DEF ReachInv
<1>9. ASSUME NEW p \in Procs, Die(p) PROVE ReachInv'
  <2> USE <1>9 DEF broadcast, Goto
  <2>1. /\ out' = out /\ everOut' = everOut
    BY DEF Die, audience
  <2>2. ReachedTo(cursor)' /\ (walked \/ status = "sent" => ReachedAll)'
    BY <2>1, StoredKeeps DEF Die
  <2>3. ASSUME NEW v \in Walkers PROVE WalkInv(v)'
    <3>1. CASE v = p
      BY <3>1, WalkEmpty DEF Die, TypeOK, Procs
    <3>2. CASE v # p
      BY <2>1, <3>2, WalkKeeps DEF Die, TypeOK, ReachInv
    <3> QED BY <3>1, <3>2
  <2> QED BY <2>1, <2>2, <2>3 DEF ReachInv
<1> QED
  BY <1>1, <1>2, <1>3, <1>4, <1>5, <1>6, <1>7, <1>8, <1>9, QuietSteps

(* A broadcast whose walk has ended, or that counts as sent, has a row for  *)
(* everyone who was in the audience all along, however many walks overlap.  *)
THEOREM EveryoneIsReached == Spec => []EveryoneReached
<1>1. Init => ReachInv
  BY FanoutAssumption
  DEF Init, ReachInv, WalkInv, ReachedTo, NoWalk, FanoutAssumption, Procs
<1>2. TypeOK /\ ReachInv /\ [Next]_vars => ReachInv'
  BY ReachStep
<1>3. ReachInv => EveryoneReached
  BY DEF ReachInv, ReachedAll, EveryoneReached
<1> QED BY <1>1, <1>2, <1>3, FanoutTyping, PTL DEF Spec

-----------------------------------------------------------------------------
(* Every row that went out or may go out, and every unit a process has yet  *)
(* to give back, is a unit of the counter of its own.                       *)
Covered == {c \in Contacts : row[c] \in {"queued", "claimed", "sent"}}
Debt == {x \in Procs \X (Nat \ {0}) : x[2] <= owed[x[1]]}

(* The inductive invariant: the counter covers the rows and the debts.      *)
DebtInv == IsFiniteSet(Debt) /\ Cardinality(Covered) + Cardinality(Debt) <= accepted

LEMMA CoveredFinite ==
  /\ IsFiniteSet(Covered) /\ Cardinality(Covered) \in Nat
  /\ IsFiniteSet(Covered') /\ Cardinality(Covered') \in Nat
<1>1. Covered \in SUBSET Contacts /\ Covered' \in SUBSET Contacts
  BY DEF Covered
<1> QED BY <1>1, FS_Subset, FS_CardinalityType, FanoutAssumption DEF FanoutAssumption

(* No more rows and no more debts: the counter may stay.                    *)
LEMMA Steady ==
  ASSUME DebtInv, TypeOK, Covered' \subseteq Covered, Debt' \subseteq Debt,
         accepted' = accepted
  PROVE  DebtInv'
<1>1. Cardinality(Covered') <= Cardinality(Covered)
  BY CoveredFinite, FS_Subset
<1>2. /\ IsFiniteSet(Debt') /\ Cardinality(Debt') <= Cardinality(Debt)
      /\ Cardinality(Debt) \in Nat /\ Cardinality(Debt') \in Nat
  BY FS_Subset, FS_CardinalityType DEF DebtInv
<1> QED BY <1>1, <1>2, CoveredFinite DEF DebtInv, TypeOK

(* A row is written, or released, with its unit.                            *)
LEMMA OneMore ==
  ASSUME DebtInv, TypeOK, NEW c, Covered' \subseteq Covered \cup {c}, Debt' = Debt,
         accepted' = accepted + 1
  PROVE  DebtInv'
<1>1. IsFiniteSet(Covered \cup {c}) /\ Cardinality(Covered \cup {c}) <= Cardinality(Covered) + 1
  BY CoveredFinite, FS_AddElement, SMTT(40)
<1>2. Cardinality(Covered') <= Cardinality(Covered \cup {c})
  BY <1>1, FS_Subset
<1>3. Cardinality(Covered \cup {c}) \in Nat /\ Cardinality(Debt) \in Nat
  BY <1>1, FS_CardinalityType DEF DebtInv
<1> QED BY <1>1, <1>2, <1>3, CoveredFinite DEF DebtInv, TypeOK

(* A row that leaves takes its unit along.                                  *)
LEMMA OneLess ==
  ASSUME DebtInv, TypeOK, NEW c \in Covered, Covered' \subseteq Covered \ {c},
         Debt' = Debt, Give(1)
  PROVE  DebtInv'
<1>1. IsFiniteSet(Covered \ {c}) /\ Cardinality(Covered \ {c}) = Cardinality(Covered) - 1
  BY CoveredFinite, FS_RemoveElement
<1>2. Cardinality(Covered') <= Cardinality(Covered \ {c})
  BY <1>1, FS_Subset
<1>3. Cardinality(Debt) \in Nat /\ Cardinality(Covered \ {c}) \in Nat
  BY <1>1, FS_CardinalityType DEF DebtInv
<1> QED BY <1>1, <1>2, <1>3, CoveredFinite DEF DebtInv, TypeOK, Give

(* A row that leaves may leave a debt of one unit behind.                   *)
LEMMA OneOwed ==
  ASSUME DebtInv, TypeOK, NEW c \in Covered, Covered' \subseteq Covered \ {c},
         NEW x, Debt' \subseteq Debt \cup {x}, accepted' = accepted
  PROVE  DebtInv'
<1>1. IsFiniteSet(Covered \ {c}) /\ Cardinality(Covered \ {c}) = Cardinality(Covered) - 1
  BY CoveredFinite, FS_RemoveElement
<1>2. Cardinality(Covered') <= Cardinality(Covered \ {c})
  BY <1>1, FS_Subset
<1>3. IsFiniteSet(Debt \cup {x}) /\ Cardinality(Debt \cup {x}) <= Cardinality(Debt) + 1
  <2>1. Cardinality(Debt) \in Nat
    BY FS_CardinalityType DEF DebtInv
  <2> QED BY <2>1, FS_AddElement DEF DebtInv
<1>4. IsFiniteSet(Debt') /\ Cardinality(Debt') <= Cardinality(Debt \cup {x})
  BY <1>3, FS_Subset
<1>5. /\ Cardinality(Debt) \in Nat /\ Cardinality(Debt') \in Nat
      /\ Cardinality(Debt \cup {x}) \in Nat /\ Cardinality(Covered \ {c}) \in Nat
  BY <1>1, <1>3, <1>4, FS_CardinalityType DEF DebtInv
<1> QED BY <1>1, <1>2, <1>3, <1>4, <1>5, CoveredFinite DEF DebtInv, TypeOK

(* The units a to b of one process.                                         *)
LEMMA Column ==
  ASSUME NEW p, NEW a \in Nat \ {0}, NEW b \in Nat, a <= b + 1
  PROVE  IsFiniteSet({p} \X (a..b)) /\ Cardinality({p} \X (a..b)) = b + 1 - a
<1>1. IsFiniteSet({p}) /\ Cardinality({p}) = 1
  BY FS_Singleton
<1>2. IsFiniteSet(a..b) /\ Cardinality(a..b) = b + 1 - a
  <2>1. a \in Int /\ b \in Int
    OBVIOUS
  <2>2. IsFiniteSet(a..b) /\ Cardinality(a..b) = IF a > b THEN 0 ELSE b - a + 1
    BY <2>1, FS_Interval
  <2> QED BY <2>1, <2>2
<1>3. /\ IsFiniteSet({p} \X (a..b))
      /\ Cardinality({p} \X (a..b)) = Cardinality({p}) * Cardinality(a..b)
  BY <1>1, <1>2, FS_Product
<1> QED BY <1>1, <1>2, <1>3

(* A round of the stop moves the queued rows to the debts of its process.   *)
LEMMA FlipBalances ==
  ASSUME DebtInv, TypeOK, NEW p \in Procs, FlipQueued(p)
  PROVE  DebtInv'
<1> DEFINE Q == In("queued")
           n == Cardinality(Q)
           Moved == {p} \X ((owed[p] + 1) .. (owed[p] + n))
<1>1. /\ Q \in SUBSET Covered /\ Covered' = Covered \ Q
      /\ accepted' = accepted /\ owed' = [owed EXCEPT ![p] = @ + n]
  BY DEF FlipQueued, Cancel, Covered, In
<1>2. IsFiniteSet(Q) /\ n \in Nat
  BY <1>1, CoveredFinite, FS_Subset, FS_CardinalityType
<1> HIDE DEF n, Q
<1>3. Cardinality(Covered') = Cardinality(Covered) - n
  <2>1. Covered \cap Q = Q
    BY <1>1
  <2>2. Cardinality(Covered \ Q) = Cardinality(Covered) - Cardinality(Covered \cap Q)
    BY CoveredFinite, FS_Difference
  <2> QED BY <1>1, <2>1, <2>2 DEF n
<1>4. IsFiniteSet(Moved) /\ Cardinality(Moved) = n
  <2>1. owed[p] \in Nat
    BY DEF TypeOK
  <2>2. /\ owed[p] + 1 \in Nat \ {0} /\ owed[p] + n \in Nat
        /\ owed[p] + 1 <= owed[p] + n + 1 /\ owed[p] + n + 1 - (owed[p] + 1) = n
    BY <1>2, <2>1
  <2> HIDE DEF Moved
  <2>3. /\ IsFiniteSet({p} \X ((owed[p] + 1) .. (owed[p] + n)))
        /\ Cardinality({p} \X ((owed[p] + 1) .. (owed[p] + n))) = owed[p] + n + 1 - (owed[p] + 1)
    BY <2>2, Column
  <2> QED BY <2>2, <2>3 DEF Moved
<1>5. Debt' \subseteq Debt \cup Moved
  <2> SUFFICES ASSUME NEW q \in Procs, NEW k \in Nat \ {0}, k <= owed'[q],
                      ~(k <= owed[q])
               PROVE  <<q, k>> \in Moved
    BY DEF Debt
  <2>1. owed \in [Procs -> Nat]
    BY DEF TypeOK
  <2>2. q = p /\ k \in (owed[p] + 1) .. (owed[p] + n)
    BY <1>1, <1>2, <2>1
  <2> QED BY <2>2
<1> HIDE DEF Moved
<1>6. /\ IsFiniteSet(Debt \cup Moved)
      /\ Cardinality(Debt \cup Moved) = Cardinality(Debt) + n - Cardinality(Debt \cap Moved)
  BY <1>4, FS_Union DEF DebtInv
<1>7. IsFiniteSet(Debt') /\ Cardinality(Debt') <= Cardinality(Debt \cup Moved)
  BY <1>5, <1>6, FS_Subset
<1>8. /\ Cardinality(Debt) \in Nat /\ Cardinality(Debt') \in Nat
      /\ Cardinality(Debt \cup Moved) \in Nat /\ Cardinality(Debt \cap Moved) \in Nat
  BY <1>6, <1>7, FS_CardinalityType, FS_Intersection DEF DebtInv
<1> QED
  BY <1>1, <1>2, <1>3, <1>6, <1>7, <1>8, CoveredFinite DEF DebtInv, TypeOK

(* A process gives back what it owes.                                       *)
LEMMA GiveBalances ==
  ASSUME DebtInv, TypeOK, NEW p \in Procs, row' = row, Give(owed[p]),
         owed' = [owed EXCEPT ![p] = 0]
  PROVE  DebtInv'
<1> DEFINE Mass == {p} \X (1 .. owed[p])
<1>1. owed \in [Procs -> Nat] /\ owed[p] \in Nat
  BY DEF TypeOK
<1>2. IsFiniteSet(Mass) /\ Cardinality(Mass) = owed[p]
  <2>1. 1 \in Nat \ {0} /\ 1 <= owed[p] + 1 /\ owed[p] + 1 - 1 = owed[p]
    BY <1>1
  <2> HIDE DEF Mass
  <2>2. /\ IsFiniteSet({p} \X (1 .. owed[p]))
        /\ Cardinality({p} \X (1 .. owed[p])) = owed[p] + 1 - 1
    BY <1>1, <2>1, Column
  <2> QED BY <2>1, <2>2 DEF Mass
<1>3. Mass \in SUBSET Debt /\ Debt' = Debt \ Mass
  <2>1. ASSUME NEW x \in Mass PROVE x \in Debt
    BY <1>1 DEF Debt
  <2>2. ASSUME NEW q \in Procs, NEW k \in Nat \ {0}
        PROVE  k <= owed'[q] <=> k <= owed[q] /\ <<q, k>> \notin Mass
    BY <1>1
  <2>3. ASSUME NEW x \in Procs \X (Nat \ {0})
        PROVE  x[2] <= owed'[x[1]] <=> x[2] <= owed[x[1]] /\ x \notin Mass
    <3>1. x = <<x[1], x[2]>> /\ x[1] \in Procs /\ x[2] \in Nat \ {0}
      OBVIOUS
    <3> QED BY <2>2, <3>1
  <2> HIDE DEF Mass
  <2> QED BY <2>1, <2>3 DEF Debt
<1> HIDE DEF Mass
<1>4. IsFiniteSet(Debt') /\ Cardinality(Debt') = Cardinality(Debt) - owed[p]
  <2>1. Debt \cap Mass = Mass
    BY <1>3
  <2>2. /\ IsFiniteSet(Debt \ Mass)
        /\ Cardinality(Debt \ Mass) = Cardinality(Debt) - Cardinality(Debt \cap Mass)
    BY FS_Difference DEF DebtInv
  <2> QED BY <1>2, <1>3, <2>1, <2>2
<1>5. Cardinality(Debt) \in Nat /\ Cardinality(Debt') \in Nat
  BY <1>4, FS_CardinalityType DEF DebtInv
<1>6. Covered' = Covered
  BY DEF Covered
<1> QED BY <1>1, <1>4, <1>5, <1>6, CoveredFinite DEF DebtInv, TypeOK, Give

(* The steps that neither charge nor give back.                             *)
Balanced == Covered' \subseteq Covered /\ Debt' \subseteq Debt /\ accepted' = accepted

(* The invariant is inductive.                                              *)
LEMMA DebtStep ==
  ASSUME TypeOK, DebtInv, [Next]_vars
  PROVE  DebtInv'
<1> USE DEF Covered, Debt, TypeOK
<1>1. CASE Schedule
  <2>1. Balanced
    BY <1>1 DEF Balanced, Schedule
  <2> QED BY <2>1, Steady DEF Balanced
<1>2. CASE Stop
  <2>1. Balanced
    BY <1>2 DEF Balanced, Stop
  <2> QED BY <2>1, Steady DEF Balanced
<1>3. CASE Rekick
  <2>1. Balanced
    BY <1>3 DEF Balanced, Rekick
  <2> QED BY <2>1, Steady DEF Balanced
<1>4. ASSUME NEW c \in Contacts, Change(c) PROVE DebtInv'
  <2>1. Balanced
    BY <1>4 DEF Balanced, Change
  <2> QED BY <2>1, Steady DEF Balanced
<1>5. ASSUME NEW c \in Contacts, Requeue(c) PROVE DebtInv'
  <2>1. Balanced
    BY <1>5 DEF Balanced, Requeue
  <2> QED BY <2>1, Steady DEF Balanced
<1>6. ASSUME NEW c \in Contacts, FailStalled(c) PROVE DebtInv'
  <2>1. Balanced
    BY <1>6 DEF Balanced, FailStalled, Put
  <2> QED BY <2>1, Steady DEF Balanced
<1>7. ASSUME NEW w \in Walkers, Fetch(w) PROVE DebtInv'
  <2>1. Balanced
    BY <1>7 DEF Balanced, Fetch
  <2> QED BY <2>1, Steady DEF Balanced
<1>8. ASSUME NEW w \in Walkers, ReadBroadcast(w) PROVE DebtInv'
  <2>1. Balanced
    BY <1>8 DEF Balanced, ReadBroadcast
  <2> QED BY <2>1, Steady DEF Balanced
<1>9. ASSUME NEW w \in Walkers, ClaimBroadcast(w) PROVE DebtInv'
  <2>1. Balanced
    BY <1>9 DEF Balanced, ClaimBroadcast
  <2> QED BY <2>1, Steady DEF Balanced
<1>10. ASSUME NEW w \in Walkers, ReadPage(w) PROVE DebtInv'
  <2>1. Balanced
    BY <1>10 DEF Balanced, ReadPage
  <2> QED BY <2>1, Steady DEF Balanced
<1>11. ASSUME NEW w \in Walkers, Heartbeat(w) PROVE DebtInv'
  <2>1. Balanced
    BY <1>11 DEF Balanced, Heartbeat
  <2> QED BY <2>1, Steady DEF Balanced
<1>12. ASSUME NEW w \in Walkers, EnqueuePage(w) PROVE DebtInv'
  <2>1. Balanced
    BY <1>12 DEF Balanced, EnqueuePage
  <2> QED BY <2>1, Steady DEF Balanced
<1>13. ASSUME NEW w \in Walkers, EndWalk(w) PROVE DebtInv'
  <2>1. Balanced
    BY <1>13 DEF Balanced, EndWalk
  <2> QED BY <2>1, Steady DEF Balanced
<1>14. ASSUME NEW p \in Procs, Probe(p) PROVE DebtInv'
  <2>1. Balanced
    BY <1>14 DEF Balanced, Probe
  <2> QED BY <2>1, Steady DEF Balanced
<1>15. ASSUME NEW p \in Procs, Finish(p) PROVE DebtInv'
  <2>1. Balanced
    BY <1>15 DEF Balanced, Finish
  <2> QED BY <2>1, Steady DEF Balanced
<1>16. ASSUME NEW p \in Crons, CronFinalize(p) PROVE DebtInv'
  <2>1. Balanced
    BY <1>16 DEF Balanced, CronFinalize
  <2> QED BY <2>1, Steady DEF Balanced
<1>17. ASSUME NEW p \in Procs, FlipParked(p) PROVE DebtInv'
  <2>1. Balanced
    BY <1>17 DEF Balanced, FlipParked, Cancel, In
  <2> QED BY <2>1, Steady DEF Balanced
<1>18. ASSUME NEW l \in Lanes, NEW c \in Contacts, FetchMail(l, c) PROVE DebtInv'
  <2>1. Balanced
    BY <1>18 DEF Balanced, FetchMail
  <2> QED BY <2>1, Steady DEF Balanced
<1>19. ASSUME NEW l \in Lanes, NEW pc \in {"look", "park"}, ReadRow(l, pc) PROVE DebtInv'
  <2>1. Balanced
    BY <1>19 DEF Balanced, ReadRow
  <2> QED BY <2>1, Steady DEF Balanced
<1>20. ASSUME NEW l \in Lanes, Claim(l) PROVE DebtInv'
  <2>1. Balanced
    BY <1>20 DEF Balanced, Claim, Put, Mine
  <2> QED BY <2>1, Steady DEF Balanced
<1>21. ASSUME NEW l \in Lanes, Submit(l) PROVE DebtInv'
  <2>1. Balanced
    BY <1>21 DEF Balanced, Submit, Put, Mine
  <2> QED BY <2>1, Steady DEF Balanced
<1>22. ASSUME NEW l \in Lanes, Unclaim(l) PROVE DebtInv'
  <2>1. Balanced
    BY <1>22 DEF Balanced, Unclaim, Put, Mine
  <2> QED BY <2>1, Steady DEF Balanced
<1>23. ASSUME NEW d \in Drains, DrainPick(d) PROVE DebtInv'
  <2>1. Balanced
    BY <1>23 DEF Balanced, DrainPick
  <2> QED BY <2>1, Steady DEF Balanced
<1>24. ASSUME NEW d \in Drains, DrainEnqueue(d) PROVE DebtInv'
  <2>1. Balanced
    BY <1>24 DEF Balanced, DrainEnqueue
  <2> QED BY <2>1, Steady DEF Balanced
<1>25. ASSUME NEW d \in Drains, DrainFails(d) PROVE DebtInv'
  <2>1. Balanced
    BY <1>25 DEF Balanced, DrainFails
  <2> QED BY <2>1, Steady DEF Balanced
<1>26. ASSUME NEW d \in Drains, DrainReparked(d) PROVE DebtInv'
  <2>1. Balanced
    BY <1>26 DEF Balanced, DrainReparked
  <2> QED BY <2>1, Steady DEF Balanced
<1>27. ASSUME NEW p \in Procs, Die(p) PROVE DebtInv'
  <2>1. Balanced
    BY <1>27 DEF Balanced, Die
  <2> QED BY <2>1, Steady DEF Balanced
<1>28. ASSUME NEW l \in Lanes, LaneDies(l) PROVE DebtInv'
  <2>1. Balanced
    BY <1>28 DEF Balanced, LaneDies
  <2> QED BY <2>1, Steady DEF Balanced
<1>29. ASSUME NEW w \in Walkers, InsertRow(w) PROVE DebtInv'
  <2>1. Debt' = Debt
    BY <1>29 DEF InsertRow
  <2>2. PICK c \in walk[w].todo :
          \/ row[c] = "none" /\ Put(c, "queued") /\ accepted' = accepted + 1
          \/ row[c] = "none" /\ Put(c, "parked") /\ UNCHANGED accepted
          \/ UNCHANGED <<row, accepted>>
    BY <1>29 DEF InsertRow
  <2>3. CASE row[c] = "none" /\ Put(c, "queued") /\ accepted' = accepted + 1
    <3>1. Covered' \subseteq Covered \cup {c}
      BY <2>3 DEF Put
    <3> QED BY <2>1, <2>3, <3>1, OneMore
  <2>4. CASE row[c] = "none" /\ Put(c, "parked") /\ UNCHANGED accepted
    <3>1. Covered' \subseteq Covered
      BY <2>4 DEF Put
    <3> QED BY <2>1, <2>4, <3>1, Steady
  <2>5. CASE UNCHANGED <<row, accepted>>
    BY <2>1, <2>5, Steady
  <2> QED BY <2>2, <2>3, <2>4, <2>5
<1>30. ASSUME NEW d \in Drains, NEW c \in Contacts, DrainRelease(d, c) PROVE DebtInv'
  <2>1. Debt' = Debt
    BY <1>30 DEF DrainRelease
  <2>2. CASE row[c] = "parked" /\ Put(c, "queued") /\ accepted' = accepted + 1
    <3>1. Covered' \subseteq Covered \cup {c}
      BY <2>2 DEF Put
    <3> QED BY <2>1, <2>2, <3>1, OneMore
  <2>3. CASE UNCHANGED <<row, accepted>>
    BY <2>1, <2>3, Steady
  <2> QED BY <1>30, <2>2, <2>3 DEF DrainRelease
<1>31. ASSUME NEW l \in Lanes, NEW pc \in {"claim", "park"}, Look(l, pc) PROVE DebtInv'
  <2>1. Debt' = Debt
    BY <1>31 DEF Look
  <2>2. CASE Mine(l) = "queued" /\ Put(lane[l].contact, "canceled") /\ Give(1)
    <3>1. lane[l].contact \in Covered /\ Covered' \subseteq Covered \ {lane[l].contact}
      BY <2>2 DEF Put, Mine
    <3> QED BY <2>1, <2>2, <3>1, OneLess
  <2>3. CASE UNCHANGED <<row, accepted>>
    BY <2>1, <2>3, Steady
  <2> QED BY <1>31, <2>2, <2>3 DEF Look
<1>32. ASSUME NEW l \in Lanes, Park(l) PROVE DebtInv'
  <2>1. Debt' = Debt
    BY <1>32 DEF Park
  <2>2. CASE Mine(l) = "queued" /\ Put(lane[l].contact, "parked") /\ Give(1)
    <3>1. lane[l].contact \in Covered /\ Covered' \subseteq Covered \ {lane[l].contact}
      BY <2>2 DEF Put, Mine
    <3> QED BY <2>1, <2>2, <3>1, OneLess
  <2>3. CASE UNCHANGED <<row, accepted>>
    BY <2>1, <2>3, Steady
  <2> QED BY <1>32, <2>2, <2>3 DEF Park
<1>33. ASSUME NEW p \in Procs, FlipQueued(p) PROVE DebtInv'
  BY <1>33, FlipBalances
<1>34. ASSUME NEW p \in Procs, Refund(p) PROVE DebtInv'
  BY <1>34, GiveBalances DEF Refund
<1>35. ASSUME NEW d \in Drains, DrainGive(d) PROVE DebtInv'
  <2>1. d \in Procs
    BY DEF Procs
  <2> QED BY <1>35, <2>1, GiveBalances DEF DrainGive
<1>36. ASSUME NEW d \in Drains, NEW c \in Contacts, DrainRepark(d, c) PROVE DebtInv'
  <2>1. d \in Procs /\ accepted' = accepted
    BY <1>36 DEF Procs, DrainRepark
  <2>2. CASE row[c] = "queued"
    <3>1. Put(c, "parked") /\ owed' = [owed EXCEPT ![d] = 1]
      BY <1>36, <2>2 DEF DrainRepark
    <3>2. c \in Covered /\ Covered' \subseteq Covered \ {c}
      BY <2>2, <3>1 DEF Put
    <3>3. Debt' \subseteq Debt \cup {<<d, 1>>}
      <4> SUFFICES ASSUME NEW q \in Procs, NEW k \in Nat \ {0}, k <= owed'[q],
                          ~(k <= owed[q])
                   PROVE  <<q, k>> = <<d, 1>>
        OBVIOUS
      <4> QED BY <2>1, <3>1
    <3> QED BY <2>1, <3>2, <3>3, OneOwed
  <2>3. CASE row[c] # "queued"
    <3>1. UNCHANGED <<row, owed>>
      BY <1>36, <2>3 DEF DrainRepark
    <3>2. Covered' = Covered /\ Debt' = Debt
      BY <3>1
    <3> QED BY <2>1, <3>2, Steady
  <2> QED BY <2>2, <2>3
<1>37. CASE UNCHANGED vars
  <2>1. Balanced
    BY <1>37 DEF Balanced, vars
  <2> QED BY <2>1, Steady DEF Balanced
<1> QED
  BY <1>1, <1>2, <1>3, <1>4, <1>5, <1>6, <1>7, <1>8, <1>9, <1>10, <1>11, <1>12,
     <1>13, <1>14, <1>15, <1>16, <1>17, <1>18, <1>19, <1>20, <1>21, <1>22, <1>23,
     <1>24, <1>25, <1>26, <1>27, <1>28, <1>29, <1>30, <1>31, <1>32, <1>33, <1>34,
     <1>35, <1>36, <1>37
  DEF Next, WalkStep, EndStep, LaneStep, DrainStep

(* No stop, park, re-park or refusal gives back more than was charged.      *)
THEOREM ChargesStay == Spec => []ChargesCovered
<1>1. Init => DebtInv
  <2> SUFFICES ASSUME Init PROVE DebtInv
    OBVIOUS
  <2>1. Covered = {}
    BY DEF Init, Covered
  <2>2. Debt = {}
    <3> SUFFICES ASSUME NEW x \in Procs \X (Nat \ {0}), x[2] <= owed[x[1]] PROVE FALSE
      BY DEF Debt
    <3>1. owed[x[1]] = 0 /\ x[2] \in Nat \ {0}
      BY DEF Init
    <3> QED BY <3>1
  <2> QED BY <2>1, <2>2, FS_EmptySet DEF Init, DebtInv
<1>2. TypeOK /\ DebtInv /\ [Next]_vars => DebtInv'
  BY DebtStep
<1>3. TypeOK /\ DebtInv => ChargesCovered
  <2> SUFFICES ASSUME TypeOK, DebtInv PROVE accepted >= Cardinality(Covered)
    BY DEF ChargesCovered, Covered
  <2>1. Cardinality(Debt) \in Nat
    BY FS_CardinalityType DEF DebtInv
  <2> QED BY <2>1, CoveredFinite DEF TypeOK, DebtInv
<1> QED BY <1>1, <1>2, <1>3, FanoutTyping, PTL DEF Spec

-----------------------------------------------------------------------------
(* No row is claimed once the stop has answered.                            *)

SoleDrain == \A c, d \in Drains : c = d
SoleLane == \A l, m \in Lanes : l = m

(* The caller of the stop only sweeps, and nothing revives the broadcast.   *)
ApiInv ==
  /\ at[Api] \in {"idle", "parked", "queued", "refund"}
  /\ at[Api] # "idle" \/ stopped => status = "canceled"

(* Whoever has a contact in hand found its row.                             *)
HeldInv ==
  /\ \A c \in mail : row[c] # "none"
  /\ \A d \in Drains : \A c \in moved[d] : row[c] # "none"
  /\ \A w \in Walkers : \A c \in walk[w].batch : row[c] # "none"
  /\ \A l \in Lanes : lane[l].pc # "idle" => row[lane[l].contact] # "none"

(* What a drain has yet to release is parked, or was swept off: after the   *)
(* first flip of a round there is nothing left that it could release.       *)
PageInv ==
  \A d \in Drains : \A c \in page[d] :
    /\ row[c] \in {"parked", "canceled"}
    /\ at[Api] \in {"queued", "refund"} \/ stopped => row[c] = "canceled"

Swept == stopped \/ at[Api] = "refund"

ParkingBy(m, c) == lane[m].pc = "park" /\ lane[m].contact = c

(* A lane past its look may still claim its row only while another lane is  *)
(* about to park it.                                                        *)
LateClaims ==
  Swept => \A l \in Lanes :
    lane[l].pc = "claim" /\ row[lane[l].contact] = "queued"
      => \E m \in Lanes : ParkingBy(m, lane[l].contact)

StopInv == ApiInv /\ HeldInv /\ PageInv /\ LateClaims

(* How the row of a contact moves.                                          *)
MayMove(c) ==
  \/ row'[c] = row[c]
  \/ row[c] = "none" /\ row'[c] \in {"queued", "parked"}
  \/ row[c] = "parked" /\ row'[c] = "canceled"
  \/ row[c] = "parked" /\ row'[c] = "queued" /\ \E d \in Drains : c \in page[d] /\ c \notin page'[d]
  \/ row[c] = "queued" /\ row'[c] \in {"canceled", "ended", "parked"}
  \/ row[c] = "queued" /\ row'[c] = "claimed" /\ \E l \in Lanes : lane[l].pc = "claim" /\ lane[l].contact = c
  \/ row[c] = "claimed" /\ row'[c] \in {"sent", "ended"}
  \/ row[c] = "claimed" /\ row'[c] = "queued" /\ \E m \in Lanes : ParkingBy(m, c)'

LEMMA PutMoves ==
  ASSUME TypeOK, NEW b, NEW s, Put(b, s), NEW c \in Contacts
  PROVE  row'[c] = IF c = b THEN s ELSE row[c]
BY DEF Put, TypeOK

LEMMA CancelMoves ==
  ASSUME TypeOK, NEW cs, Cancel(cs), NEW c \in Contacts
  PROVE  row'[c] = IF c \in cs THEN "canceled" ELSE row[c]
BY DEF Cancel

LEMMA LaneGoes ==
  ASSUME TypeOK, NEW l \in Lanes, NEW pc, LaneAt(l, pc)
  PROVE  /\ lane'[l].pc = pc /\ lane'[l].contact = lane[l].contact
         /\ \A m \in Lanes \ {l} : lane'[m] = lane[m]
BY DEF LaneAt, TypeOK

LEMMA LaneStops ==
  ASSUME TypeOK, NEW l \in Lanes, LaneDone(l)
  PROVE  /\ lane'[l] = IdleLane
         /\ \A m \in Lanes \ {l} : lane'[m] = lane[m]
BY DEF LaneDone, TypeOK

LEMMA MineIs ==
  ASSUME TypeOK, NEW l \in Lanes, Mine(l) # "none"
  PROVE  lane[l].contact \in Contacts /\ Mine(l) = row[lane[l].contact]
BY DEF Mine

LEMMA RowMoves ==
  ASSUME TypeOK, [Next]_vars, NEW c \in Contacts
  PROVE  MayMove(c)
<1>1. ASSUME row' = row PROVE MayMove(c)
  BY <1>1 DEF MayMove
<1>2. ASSUME NEW w \in Walkers, WalkStep(w) PROVE MayMove(c)
  <2>1. CASE InsertRow(w)
    <3>1. PICK b \in walk[w].todo, s \in {"queued", "parked"} :
            row' = row \/ (row[b] = "none" /\ Put(b, s))
      BY <2>1 DEF InsertRow
    <3> QED BY <3>1, PutMoves DEF MayMove
  <2> QED BY <1>1, <1>2, <2>1 DEF WalkStep, Fetch, ReadBroadcast, ClaimBroadcast, ReadPage,
     Heartbeat, EnqueuePage, EndWalk
<1>3. ASSUME NEW p \in Procs, EndStep(p) PROVE MayMove(c)
  <2>1. CASE FlipParked(p)
    <3>1. row'[c] = IF row[c] = "parked" THEN "canceled" ELSE row[c]
      BY <2>1, CancelMoves DEF FlipParked, In
    <3> QED BY <3>1 DEF MayMove
  <2>2. CASE FlipQueued(p)
    <3>1. row'[c] = IF row[c] = "queued" THEN "canceled" ELSE row[c]
      BY <2>2, CancelMoves DEF FlipQueued, In
    <3> QED BY <3>1 DEF MayMove
  <2> QED BY <1>1, <1>3, <2>1, <2>2 DEF EndStep, Probe, Finish, Refund
<1>4. ASSUME NEW l \in Lanes, LaneStep(l) PROVE MayMove(c)
  <2> DEFINE b == lane[l].contact
  <2>1. ASSUME NEW s \in {"canceled", "ended", "parked"}, Mine(l) = "queued", Put(b, s)
        PROVE  MayMove(c)
    BY <2>1, MineIs, PutMoves DEF MayMove
  <2>2. CASE Claim(l) /\ Mine(l) = "queued" /\ Put(b, "claimed")
    <3>1. lane[l].pc = "claim" /\ row[b] = "queued"
      BY <2>2, MineIs DEF Claim
    <3> QED BY <2>2, <3>1, PutMoves DEF MayMove
  <2>3. CASE Submit(l) /\ Mine(l) = "claimed" /\ Put(b, "sent")
    BY <2>3, MineIs, PutMoves DEF MayMove
  <2>4. CASE Unclaim(l) /\ Mine(l) = "claimed" /\ Put(b, "queued")
    <3>1. lane'[l].pc = "park" /\ lane'[l].contact = b /\ row[b] = "claimed"
      BY <2>4, MineIs, LaneGoes DEF Unclaim, ParkingBy
    <3> QED BY <2>4, <3>1, PutMoves DEF MayMove, ParkingBy
  <2>5. ASSUME NEW pc, Look(l, pc) PROVE MayMove(c)
    BY <1>1, <2>1, <2>5 DEF Look
  <2>6. CASE Park(l)
    BY <1>1, <2>1, <2>6 DEF Park
  <2>7. CASE Claim(l)
    BY <1>1, <2>1, <2>2, <2>7 DEF Claim
  <2>8. CASE Submit(l)
    BY <1>1, <2>3, <2>8 DEF Submit
  <2>9. CASE Unclaim(l)
    BY <1>1, <2>4, <2>9 DEF Unclaim
  <2>10. ASSUME NEW pc, NEW b2, ReadRow(l, pc) \/ FetchMail(l, b2) PROVE MayMove(c)
    BY <1>1, <2>10 DEF ReadRow, FetchMail
  <2> QED BY <1>4, <2>5, <2>6, <2>7, <2>8, <2>9, <2>10 DEF LaneStep
<1>5. ASSUME NEW d \in Drains, DrainStep(d) PROVE MayMove(c)
  <2>1. ASSUME NEW b \in Contacts, DrainRelease(d, b) PROVE MayMove(c)
    <3>1. CASE row[b] = "parked" /\ Put(b, "queued")
      <4>1. b \in page[d] /\ b \notin page'[d]
        BY <2>1 DEF DrainRelease, TypeOK
      <4> QED BY <3>1, <4>1, PutMoves DEF MayMove
    <3> QED BY <1>1, <2>1, <3>1 DEF DrainRelease
  <2>2. ASSUME NEW b \in Contacts, DrainRepark(d, b) PROVE MayMove(c)
    <3>1. CASE row[b] = "queued" /\ Put(b, "parked")
      BY <3>1, PutMoves DEF MayMove
    <3> QED BY <1>1, <2>2, <3>1 DEF DrainRepark
  <2> QED BY <1>1, <1>5, <2>1, <2>2 DEF DrainStep, DrainPick, DrainEnqueue, DrainFails,
     DrainGive, DrainReparked
<1>6. ASSUME NEW b \in Contacts, FailStalled(b) PROVE MayMove(c)
  BY <1>6, PutMoves DEF FailStalled, MayMove
<1>7. ASSUME NEW l \in Lanes, LaneDies(l) PROVE MayMove(c)
  BY <1>1, <1>7 DEF LaneDies
<1>8. ASSUME NEW p \in Procs, Die(p) PROVE MayMove(c)
  BY <1>1, <1>8 DEF Die
<1>9. CASE Schedule \/ Stop \/ Rekick \/ UNCHANGED vars
  BY <1>1, <1>9 DEF Schedule, Stop, Rekick, vars
<1>10. ASSUME NEW b \in Contacts, Change(b) \/ Requeue(b) PROVE MayMove(c)
  BY <1>1, <1>10 DEF Change, Requeue
<1>11. ASSUME NEW p \in Crons, CronFinalize(p) PROVE MayMove(c)
  BY <1>1, <1>11 DEF CronFinalize
<1> QED BY <1>2, <1>3, <1>4, <1>5, <1>6, <1>7, <1>8, <1>9, <1>10, <1>11 DEF Next

(* How a lane moves: it takes a job, goes on with its contact or puts it    *)
(* down, and passes its look only while there is no stop.                   *)
LEMMA LanesMove ==
  ASSUME TypeOK, [Next]_vars, NEW l \in Lanes
  PROVE  \/ lane'[l] = lane[l]
         \/ lane'[l].pc = "idle"
         \/ lane'[l].pc = "read" /\ lane'[l].contact \in mail
         \/ /\ lane[l].pc # "idle" /\ lane'[l].contact = lane[l].contact
            /\ lane'[l].pc = "claim" => status # "canceled"
<1> DEFINE Goal == \/ lane'[l] = lane[l]
                   \/ lane'[l].pc = "idle"
                   \/ lane'[l].pc = "read" /\ lane'[l].contact \in mail
                   \/ /\ lane[l].pc # "idle" /\ lane'[l].contact = lane[l].contact
                      /\ lane'[l].pc = "claim" => status # "canceled"
<1> SUFFICES Goal
  OBVIOUS
<1>1. CASE lane' = lane
  BY <1>1
<1>2. ASSUME NEW m \in Lanes, LaneDone(m) PROVE Goal
  BY <1>2, LaneStops DEF IdleLane
<1>3. ASSUME NEW m \in Lanes, NEW pc, LaneAt(m, pc), lane[m].pc # "idle",
             pc = "claim" => status # "canceled"
      PROVE  Goal
  BY <1>3, LaneGoes
<1>4. ASSUME NEW m \in Lanes, NEW c \in Contacts, FetchMail(m, c) PROVE Goal
  <2>1. \A k \in Lanes : lane'[k] = IF k = m THEN [pc |-> "read", contact |-> c] ELSE lane[k]
    BY <1>4 DEF FetchMail, TypeOK
  <2> QED BY <1>4, <2>1 DEF FetchMail
<1> HIDE DEF Goal
<1>5. ASSUME NEW m \in Lanes, LaneStep(m) PROVE Goal
  <2>1. ASSUME NEW pc \in {"look", "park"}, ReadRow(m, pc) PROVE Goal
    BY <2>1, <1>2, <1>3 DEF ReadRow
  <2>2. ASSUME NEW pc \in {"claim", "park"}, Look(m, pc) PROVE Goal
    BY <2>2, <1>2, <1>3 DEF Look
  <2>3. CASE Claim(m)
    BY <2>3, <1>2, <1>3 DEF Claim
  <2>4. CASE Submit(m) \/ Park(m)
    BY <2>4, <1>2 DEF Submit, Park
  <2>5. CASE Unclaim(m)
    BY <2>5, <1>3 DEF Unclaim
  <2> QED BY <1>4, <1>5, <2>1, <2>2, <2>3, <2>4, <2>5 DEF LaneStep
<1>6. ASSUME NEW m \in Lanes, LaneDies(m) PROVE Goal
  BY <1>6, <1>2 DEF LaneDies
<1>7. ASSUME NEW w \in Walkers, WalkStep(w) PROVE lane' = lane
  BY <1>7 DEF WalkStep, Fetch, ReadBroadcast, ClaimBroadcast, ReadPage, Heartbeat, InsertRow,
     EnqueuePage, EndWalk
<1>8. ASSUME NEW p \in Procs, EndStep(p) \/ Die(p) PROVE lane' = lane
  BY <1>8 DEF EndStep, Probe, Finish, FlipParked, FlipQueued, Refund, Die
<1>9. ASSUME NEW d \in Drains, DrainStep(d) PROVE lane' = lane
  BY <1>9 DEF DrainStep, DrainPick, DrainRelease, DrainEnqueue, DrainFails, DrainRepark,
     DrainGive, DrainReparked
<1>10. ASSUME NEW c \in Contacts, Change(c) \/ Requeue(c) \/ FailStalled(c) PROVE lane' = lane
  BY <1>10 DEF Change, Requeue, FailStalled
<1>11. ASSUME NEW p \in Crons, CronFinalize(p) PROVE lane' = lane
  BY <1>11 DEF CronFinalize
<1>12. CASE Schedule \/ Stop \/ Rekick \/ UNCHANGED vars
  BY <1>12, <1>1 DEF Schedule, Stop, Rekick, vars
<1> QED BY <1>1, <1>5, <1>6, <1>7, <1>8, <1>9, <1>10, <1>11, <1>12 DEF Next

(* A lane about to park does so, or dies.                                   *)
LEMMA ParksOrDies ==
  ASSUME TypeOK, [Next]_vars, NEW m \in Lanes, NEW c \in Contacts, ParkingBy(m, c)
  PROVE  ParkingBy(m, c)' \/ row'[c] # "queued" \/ deaths < MaxDeaths
<1> DEFINE Goal == ParkingBy(m, c)' \/ row'[c] # "queued" \/ deaths < MaxDeaths
<1> SUFFICES Goal
  OBVIOUS
<1>1. CASE lane'[m] = lane[m]
  BY <1>1 DEF ParkingBy
<1>2. CASE Park(m)
  <2>1. CASE Mine(m) = "queued"
    BY <1>2, <2>1, PutMoves DEF Park, ParkingBy
  <2>2. CASE Mine(m) # "queued"
    BY <1>2, <2>2 DEF Park, ParkingBy, Mine
  <2> QED BY <2>1, <2>2
<1>3. CASE LaneDies(m)
  BY <1>3 DEF LaneDies
<1> HIDE DEF Goal
<1>4. ASSUME NEW l \in Lanes, LaneStep(l) PROVE Goal
  <2>1. CASE l = m
    BY <1>2, <1>4, <2>1 DEF ParkingBy, LaneStep, FetchMail, ReadRow, Look, Claim, Submit, Unclaim
  <2>2. CASE l # m
    <3>1. ASSUME NEW pc, LaneAt(l, pc) PROVE lane'[m] = lane[m]
      BY <2>2, <3>1, LaneGoes
    <3>2. ASSUME LaneDone(l) PROVE lane'[m] = lane[m]
      BY <2>2, <3>2, LaneStops
    <3>3. ASSUME NEW b, FetchMail(l, b) PROVE lane'[m] = lane[m]
      BY <2>2, <3>3 DEF FetchMail, TypeOK
    <3>4. lane'[m] = lane[m]
      BY <1>4, <3>1, <3>2, <3>3 DEF LaneStep, ReadRow, Look, Claim, Submit, Unclaim, Park
    <3> QED BY <1>1, <3>4
  <2> QED BY <2>1, <2>2
<1>5. ASSUME NEW l \in Lanes, LaneDies(l) PROVE Goal
  BY <1>1, <1>3, <1>5, LaneStops DEF LaneDies
<1>6. ASSUME NEW w \in Walkers, WalkStep(w) PROVE lane' = lane
  BY <1>6 DEF WalkStep, Fetch, ReadBroadcast, ClaimBroadcast, ReadPage, Heartbeat, InsertRow,
     EnqueuePage, EndWalk
<1>7. ASSUME NEW p \in Procs, EndStep(p) \/ Die(p) PROVE lane' = lane
  BY <1>7 DEF EndStep, Probe, Finish, FlipParked, FlipQueued, Refund, Die
<1>8. ASSUME NEW d \in Drains, DrainStep(d) PROVE lane' = lane
  BY <1>8 DEF DrainStep, DrainPick, DrainRelease, DrainEnqueue, DrainFails, DrainRepark,
     DrainGive, DrainReparked
<1>9. ASSUME NEW b \in Contacts, Change(b) \/ Requeue(b) \/ FailStalled(b) PROVE lane' = lane
  BY <1>9 DEF Change, Requeue, FailStalled
<1>10. ASSUME NEW p \in Crons, CronFinalize(p) PROVE lane' = lane
  BY <1>10 DEF CronFinalize
<1>11. CASE Schedule \/ Stop \/ Rekick \/ UNCHANGED vars
  BY <1>11, <1>1 DEF Schedule, Stop, Rekick, vars
<1> QED BY <1>1, <1>4, <1>5, <1>6, <1>7, <1>8, <1>9, <1>10, <1>11 DEF Next
(* A drain's page only shrinks, or is read while the broadcast goes out.    *)
Picked(d) ==
  /\ status \in {"sending", "sent"} /\ page'[d] = In("parked")
  /\ row' = row /\ at'[Api] = at[Api] /\ UNCHANGED stopped

LEMMA PagesMove ==
  ASSUME TypeOK, [Next]_vars, NEW d \in Drains
  PROVE  page'[d] \subseteq page[d] \/ Picked(d)
<1> USE DEF drained
<1>1. ASSUME page' = page PROVE page'[d] \subseteq page[d]
  BY <1>1
<1>2. ASSUME NEW e \in Drains, DrainStep(e) PROVE page'[d] \subseteq page[d] \/ Picked(d)
  <2>1. CASE DrainPick(e)
    <3>1. page'[d] = IF d = e THEN In("parked") ELSE page[d]
      BY <2>1 DEF DrainPick, TypeOK
    <3>2. at'[Api] = at[Api]
      BY <2>1, FanoutAssumption DEF DrainPick, Goto, TypeOK, Procs, FanoutAssumption
    <3> QED BY <2>1, <3>1, <3>2 DEF DrainPick, Picked
  <2>2. ASSUME NEW c \in Contacts, DrainRelease(e, c) PROVE page'[d] \subseteq page[d]
    BY <2>2 DEF DrainRelease, TypeOK
  <2> QED BY <1>1, <1>2, <2>1, <2>2 DEF DrainStep, DrainEnqueue, DrainFails, DrainRepark,
     DrainGive, DrainReparked
<1>3. ASSUME NEW w \in Walkers, WalkStep(w) PROVE page' = page
  BY <1>3 DEF WalkStep, Fetch, ReadBroadcast, ClaimBroadcast, ReadPage, Heartbeat, InsertRow,
     EnqueuePage, EndWalk
<1>4. ASSUME NEW p \in Procs, EndStep(p) PROVE page' = page
  BY <1>4 DEF EndStep, Probe, Finish, FlipParked, FlipQueued, Refund
<1>5. ASSUME NEW p \in Procs, Die(p) PROVE page'[d] \subseteq page[d]
  BY <1>5 DEF Die
<1>6. ASSUME NEW l \in Lanes, LaneStep(l) \/ LaneDies(l) PROVE page' = page
  BY <1>6 DEF LaneStep, FetchMail, ReadRow, Look, Claim, Submit, Unclaim, Park, LaneDies
<1>7. ASSUME NEW c \in Contacts, Change(c) \/ Requeue(c) \/ FailStalled(c) PROVE page' = page
  BY <1>7 DEF Change, Requeue, FailStalled
<1>8. ASSUME NEW p \in Crons, CronFinalize(p) PROVE page' = page
  BY <1>8 DEF CronFinalize
<1>9. CASE Schedule \/ Stop \/ Rekick \/ UNCHANGED vars
  BY <1>9, <1>1 DEF Schedule, Stop, Rekick, vars
<1> QED BY <1>1, <1>2, <1>3, <1>4, <1>5, <1>6, <1>7, <1>8, <1>9 DEF Next

(* How the caller of the stop moves.                                        *)
ApiMoves ==
  \/ at'[Api] = at[Api] /\ UNCHANGED stopped
  \/ at[Api] = "idle" /\ at'[Api] = "parked" /\ status' = "canceled" /\ UNCHANGED stopped
  \/ FlipParked(Api)
  \/ FlipQueued(Api)
  \/ at[Api] = "refund" /\ at'[Api] = "idle" /\ stopped'
  \/ at'[Api] = "idle" /\ UNCHANGED <<row, page, lane, stopped>>

LEMMA ApiStep ==
  ASSUME TypeOK, [Next]_vars, ApiInv
  PROVE  ApiMoves
<1> DEFINE Same == at'[Api] = at[Api] /\ UNCHANGED stopped
<1> USE DEF TypeOK
<1>1. Api \in Procs /\ Api \notin Walkers /\ Api \notin Crons /\ Api \notin Drains
  BY FanoutAssumption DEF Procs, FanoutAssumption
<1>2. ASSUME NEW p \in Procs \ {Api}, NEW pc, Goto(p, pc) PROVE at'[Api] = at[Api]
  BY <1>1, <1>2 DEF Goto
<1>3. ASSUME NEW w \in Walkers, WalkStep(w) PROVE Same
  <2>1. w \in Procs \ {Api}
    BY <1>1 DEF Procs
  <2> QED BY <1>2, <1>3, <2>1 DEF WalkStep, Fetch, ReadBroadcast, ClaimBroadcast, ReadPage,
     Heartbeat, InsertRow, EnqueuePage, EndWalk, LeaveWalk
<1>4. ASSUME NEW d \in Drains, DrainStep(d) PROVE Same
  <2>1. d \in Procs \ {Api}
    BY <1>1 DEF Procs
  <2> QED BY <1>2, <1>4, <2>1 DEF DrainStep, DrainPick, DrainRelease, DrainEnqueue, DrainFails,
     DrainRepark, DrainGive, DrainReparked
<1>5. ASSUME NEW p \in Crons, CronFinalize(p) PROVE Same
  <2>1. p \in Procs \ {Api}
    BY <1>1 DEF Procs
  <2> QED BY <1>2, <1>5, <2>1 DEF CronFinalize
<1>6. ASSUME NEW p \in Procs, EndStep(p) \/ Die(p) PROVE ApiMoves
  <2>1. CASE p # Api
    <3>1. Same
      BY <1>2, <1>6, <2>1 DEF EndStep, Probe, Finish, FlipParked, FlipQueued, Refund, Die
    <3> QED BY <3>1 DEF ApiMoves
  <2>2. CASE p = Api
    <3>1. CASE Probe(Api) \/ Finish(Api)
      BY <3>1 DEF ApiInv, Probe, Finish
    <3>2. CASE FlipParked(Api) \/ FlipQueued(Api)
      BY <3>2 DEF ApiMoves
    <3>3. CASE Refund(Api)
      BY <1>1, <3>3 DEF Refund, Goto, ApiMoves
    <3>4. CASE Die(Api)
      <4>1. page' = page
        BY <1>1, <3>4 DEF Die
      <4> QED BY <1>1, <3>4, <4>1 DEF Die, Goto, ApiMoves
    <3> QED BY <1>6, <2>2, <3>1, <3>2, <3>3, <3>4 DEF EndStep
  <2> QED BY <2>1, <2>2
<1>7. ASSUME NEW l \in Lanes, LaneStep(l) \/ LaneDies(l) PROVE Same
  BY <1>7 DEF LaneStep, FetchMail, ReadRow, Look, Claim, Submit, Unclaim, Park, LaneDies
<1>8. ASSUME NEW c \in Contacts, Change(c) \/ Requeue(c) \/ FailStalled(c) PROVE Same
  BY <1>8 DEF Change, Requeue, FailStalled
<1>9. CASE Schedule \/ Rekick \/ UNCHANGED vars
  BY <1>9 DEF Schedule, Rekick, vars, ApiMoves
<1>10. CASE Stop
  BY <1>1, <1>10 DEF Stop, Goto, ApiMoves
<1>11. Same => ApiMoves
  BY DEF ApiMoves
<1> HIDE DEF Same
<1> QED BY <1>3, <1>4, <1>5, <1>6, <1>7, <1>8, <1>9, <1>10, <1>11 DEF Next

(* Nothing revives a broadcast that was stopped.                            *)
LEMMA StaysCanceled ==
  ASSUME TypeOK, [Next]_vars, status = "canceled"
  PROVE  status' = "canceled"
<1> USE DEF broadcast
<1>1. ASSUME NEW w \in Walkers, WalkStep(w) PROVE status' = status
  BY <1>1 DEF WalkStep, Fetch, ReadBroadcast, ClaimBroadcast, ReadPage, Heartbeat, InsertRow,
     EnqueuePage, EndWalk
<1>2. ASSUME NEW p \in Procs, EndStep(p) \/ Die(p) PROVE status' = status
  BY <1>2 DEF EndStep, Probe, Finish, FlipParked, FlipQueued, Refund, Die
<1>3. ASSUME NEW l \in Lanes, LaneStep(l) \/ LaneDies(l) PROVE status' = status
  BY <1>3 DEF LaneStep, FetchMail, ReadRow, Look, Claim, Submit, Unclaim, Park, LaneDies
<1>4. ASSUME NEW d \in Drains, DrainStep(d) PROVE status' = status
  BY <1>4 DEF DrainStep, DrainPick, DrainRelease, DrainEnqueue, DrainFails, DrainRepark,
     DrainGive, DrainReparked
<1>5. ASSUME NEW c \in Contacts, Change(c) \/ Requeue(c) \/ FailStalled(c) PROVE status' = status
  BY <1>5 DEF Change, Requeue, FailStalled
<1>6. ASSUME NEW p \in Crons, CronFinalize(p) PROVE status' = status
  BY <1>6 DEF CronFinalize
<1>7. CASE Schedule \/ Stop \/ Rekick \/ UNCHANGED vars
  BY <1>7 DEF Schedule, Stop, Rekick, vars
<1> QED BY <1>1, <1>2, <1>3, <1>4, <1>5, <1>6, <1>7 DEF Next

LEMMA ApiKeeps ==
  ASSUME TypeOK, [Next]_vars, ApiInv
  PROVE  ApiInv'
<1>1. ApiMoves /\ (status = "canceled" => status' = "canceled")
  BY ApiStep, StaysCanceled
<1>2. Api \in Procs
  BY DEF Procs
<1> QED BY <1>1, <1>2 DEF ApiMoves, ApiInv, FlipParked, FlipQueued, Goto, TypeOK
(* Whatever is taken in hand has its row.                                   *)
LEMMA HeldKeeps ==
  ASSUME TypeOK, [Next]_vars, HeldInv
  PROVE  HeldInv'
<1> DEFINE R == {c \in Contacts : row[c] # "none"}
           R2 == {c \in Contacts : row'[c] # "none"}
           Got == /\ mail' \subseteq R2
                  /\ \A d \in Drains : moved'[d] \subseteq R2
                  /\ \A w \in Walkers : walk'[w].batch \subseteq R2
<1>1. R \subseteq R2
  BY RowsStay
<1>2. /\ mail \subseteq R /\ \A d \in Drains : moved[d] \subseteq R
      /\ \A w \in Walkers : walk[w].batch \subseteq R
      /\ \A l \in Lanes : lane[l].pc # "idle" => lane[l].contact \in R
  BY DEF HeldInv, TypeOK, Walks, Procs
<1>3. \A l \in Lanes : lane'[l].pc # "idle" => row'[lane'[l].contact] # "none"
  <2> SUFFICES ASSUME NEW l \in Lanes, lane'[l].pc # "idle"
               PROVE  lane'[l].contact \in R2
    OBVIOUS
  <2>1. lane'[l].contact \in R
    BY <1>2, LanesMove
  <2> QED BY <1>1, <2>1
<1>4. In("parked") \subseteq R
  BY DEF In
<1> HIDE DEF R, R2
<1>5. ASSUME mail' = mail, moved' = moved, walk' = walk PROVE Got
  BY <1>1, <1>2, <1>5
<1>6. ASSUME NEW w \in Walkers, WalkStep(w) PROVE Got
  <2>1. ASSUME walk' = [walk EXCEPT ![w] = NoWalk] PROVE \A v \in Walkers : walk'[v].batch \subseteq R2
    BY <1>1, <1>2, <2>1 DEF TypeOK, NoWalk
  <2>2. ASSUME NEW n, walk' = [walk EXCEPT ![w] = [NoWalk EXCEPT !.cursor = n]]
        PROVE  \A v \in Walkers : walk'[v].batch \subseteq R2
    BY <1>1, <1>2, <2>2 DEF TypeOK, NoWalk
  <2>3. ASSUME NEW n, walk' = [walk EXCEPT ![w].page = n] \/ walk' = [walk EXCEPT ![w].todo = n]
        PROVE  \A v \in Walkers : walk'[v].batch \subseteq R2
    BY <1>1, <1>2, <2>3 DEF TypeOK, Walks
  <2>4. ASSUME mail' = mail, moved' = moved, \A v \in Walkers : walk'[v].batch \subseteq R2 PROVE Got
    BY <1>1, <1>2, <2>4
  <2>5. CASE Fetch(w)
    BY <1>5, <2>5 DEF Fetch, drained
  <2>6. CASE ReadBroadcast(w)
    BY <1>5, <2>2, <2>4, <2>6 DEF ReadBroadcast, drained
  <2>7. CASE ClaimBroadcast(w)
    BY <1>5, <2>1, <2>4, <2>7 DEF ClaimBroadcast, drained, jobs
  <2>8. CASE ReadPage(w)
    BY <2>3, <2>4, <2>8 DEF ReadPage, drained, jobs
  <2>9. CASE Heartbeat(w)
    BY <2>1, <2>3, <2>4, <2>9 DEF Heartbeat, LeaveWalk, drained
  <2>10. CASE InsertRow(w)
    <3>1. PICK c \in walk[w].todo :
            \/ Put(c, "queued") /\ walk' = [walk EXCEPT ![w].todo = @ \ {c}, ![w].batch = @ \cup {c}]
            \/ walk' = [walk EXCEPT ![w].todo = @ \ {c}]
      BY <2>10 DEF InsertRow
    <3>2. c \in Contacts /\ UNCHANGED <<mail, moved>>
      BY <2>10 DEF InsertRow, jobs, drained, TypeOK, Walks
    <3>3. CASE Put(c, "queued") /\ walk' = [walk EXCEPT ![w].todo = @ \ {c}, ![w].batch = @ \cup {c}]
      <4>1. c \in R2
        BY <3>2, <3>3, PutMoves DEF R2
      <4>2. \A v \in Walkers : walk'[v].batch \subseteq walk[v].batch \cup {c}
        BY <3>3 DEF TypeOK, Walks
      <4> QED BY <1>1, <1>2, <2>4, <3>2, <4>1, <4>2
    <3>4. CASE walk' = [walk EXCEPT ![w].todo = @ \ {c}]
      BY <2>3, <2>4, <3>2, <3>4
    <3> QED BY <3>1, <3>3, <3>4
  <2>11. CASE EnqueuePage(w)
    <3>1. mail' \subseteq R2 /\ moved' = moved
      BY <1>1, <1>2, <2>11 DEF EnqueuePage, drained
    <3>2. \A v \in Walkers : walk'[v].batch \subseteq R2
      BY <2>2, <2>11 DEF EnqueuePage
    <3> QED BY <1>1, <1>2, <3>1, <3>2
  <2>12. CASE EndWalk(w)
    BY <2>1, <2>4, <2>12 DEF EndWalk, LeaveWalk, drained, jobs
  <2> QED BY <1>6, <2>5, <2>6, <2>7, <2>8, <2>9, <2>10, <2>11, <2>12 DEF WalkStep
<1>7. ASSUME NEW p \in Procs, EndStep(p) PROVE Got
  <2>1. CASE FlipParked(p)
    <3>1. \A d \in Drains : moved'[d] \subseteq moved[d] \cup In("parked")
      BY <2>1 DEF FlipParked, TypeOK, Procs
    <3> QED BY <1>1, <1>2, <1>4, <2>1, <3>1 DEF FlipParked, jobs
  <2>2. CASE FlipQueued(p)
    <3>1. \A d \in Drains : moved'[d] \subseteq moved[d]
      BY <2>2 DEF FlipQueued, TypeOK, Procs
    <3> QED BY <1>1, <1>2, <2>2, <3>1 DEF FlipQueued, jobs
  <2> QED BY <1>5, <1>7, <2>1, <2>2 DEF EndStep, Probe, Finish, Refund, jobs, drained
<1>8. ASSUME NEW l \in Lanes, LaneStep(l) PROVE Got
  <2>1. ASSUME NEW c \in Contacts, FetchMail(l, c) PROVE Got
    BY <1>1, <1>2, <2>1 DEF FetchMail, drained
  <2> QED BY <1>5, <1>8, <2>1 DEF LaneStep, ReadRow, Look, Claim, Submit, Unclaim, Park, jobs, drained
<1>9. ASSUME NEW l \in Lanes, LaneDies(l) PROVE Got
  BY <1>1, <1>2, <1>9 DEF LaneDies, drained
<1>10. ASSUME NEW d \in Drains, DrainStep(d) PROVE Got
  <2>1. ASSUME NEW c \in Contacts, DrainRelease(d, c) PROVE Got
    <3>1. moved' = moved \/ (row[c] = "parked" /\ moved' = [moved EXCEPT ![d] = @ \cup {c}])
      BY <2>1 DEF DrainRelease
    <3>2. \A e \in Drains : moved'[e] \subseteq moved[e] \cup In("parked")
      BY <3>1 DEF TypeOK, Procs, In
    <3> QED BY <1>1, <1>2, <1>4, <2>1, <3>2 DEF DrainRelease, jobs
  <2>2. ASSUME NEW c \in Contacts, DrainRepark(d, c) PROVE Got
    <3>1. \A e \in Drains : moved'[e] \subseteq moved[e]
      BY <2>2 DEF DrainRepark, TypeOK, Procs
    <3> QED BY <1>1, <1>2, <2>2, <3>1 DEF DrainRepark, jobs
  <2>3. CASE DrainEnqueue(d)
    <3>1. \A e \in Drains : moved'[e] \subseteq moved[e]
      BY <2>3 DEF DrainEnqueue, TypeOK, Procs
    <3> QED BY <1>1, <1>2, <2>3, <3>1 DEF DrainEnqueue
  <2>4. CASE DrainPick(d)
    BY <1>5, <2>4 DEF DrainPick, jobs
  <2> QED BY <1>5, <1>10, <2>1, <2>2, <2>3, <2>4 DEF DrainStep, DrainFails, DrainGive,
     DrainReparked, jobs, drained
<1>11. ASSUME NEW p \in Procs, Die(p) PROVE Got
  <2>1. \A d \in Drains : moved'[d] \subseteq moved[d]
    BY <1>11 DEF Die, TypeOK, Procs
  <2>2. \A w \in Walkers : walk'[w].batch \subseteq walk[w].batch
    BY <1>11 DEF Die, NoWalk
  <2> QED BY <1>1, <1>2, <1>11, <2>1, <2>2 DEF Die
<1>12. ASSUME NEW c \in Contacts, Change(c) \/ FailStalled(c) PROVE Got
  BY <1>5, <1>12 DEF Change, FailStalled, jobs, drained
<1>13. ASSUME NEW c \in Contacts, Requeue(c) PROVE Got
  <2>1. c \in R2
    BY <1>1, <1>13 DEF Requeue, R
  <2> QED BY <1>1, <1>2, <1>13, <2>1 DEF Requeue, drained
<1>14. ASSUME NEW p \in Crons, CronFinalize(p) PROVE Got
  BY <1>5, <1>14 DEF CronFinalize, jobs, drained
<1>15. ASSUME Schedule \/ Stop \/ Rekick \/ UNCHANGED vars PROVE Got
  BY <1>5, <1>15 DEF Schedule, Stop, Rekick, vars, jobs, drained
<1> HIDE DEF Got
<1>16. Got
  BY <1>6, <1>7, <1>8, <1>9, <1>10, <1>11, <1>12, <1>13, <1>14, <1>15 DEF Next
<1> QED BY <1>3, <1>16 DEF Got, R2, HeldInv

(* The page a drain has yet to release stays parked, or is swept off.       *)
LEMMA PageKeeps ==
  ASSUME TypeOK, [Next]_vars, ApiInv, PageInv, SoleDrain
  PROVE  PageInv'
<1> SUFFICES ASSUME NEW d \in Drains, NEW c \in page'[d]
             PROVE  /\ row'[c] \in {"parked", "canceled"}
                    /\ at'[Api] \in {"queued", "refund"} \/ stopped' => row'[c] = "canceled"
  BY DEF PageInv
<1>1. CASE Picked(d)
  <2>1. c \in Contacts /\ row'[c] = "parked"
    BY <1>1 DEF Picked, In
  <2>2. at'[Api] = "idle" /\ ~stopped'
    BY <1>1 DEF Picked, ApiInv
  <2> QED BY <2>1, <2>2
<1>2. CASE c \in page[d]
  <2>1. c \in Contacts
    BY <1>2 DEF TypeOK
  <2>2. row[c] \in {"parked", "canceled"} /\ (at[Api] \in {"queued", "refund"} \/ stopped => row[c] = "canceled")
    BY <1>2 DEF PageInv
  <2>3. \A e \in Drains : ~(c \in page[e] /\ c \notin page'[e])
    BY DEF SoleDrain
  <2>4. row'[c] = row[c] \/ row'[c] = "canceled"
    BY <2>1, <2>2, <2>3, RowMoves DEF MayMove
  <2>5. CASE FlipParked(Api)
    <3>1. row'[c] = IF c \in In("parked") THEN "canceled" ELSE row[c]
      BY <2>1, <2>5, CancelMoves DEF FlipParked
    <3> QED BY <2>1, <2>2, <3>1 DEF In
  <2>6. CASE ~FlipParked(Api)
    <3>1. at'[Api] \in {"queued", "refund"} \/ stopped' => at[Api] \in {"queued", "refund"} \/ stopped
      BY <2>6, ApiStep DEF ApiMoves, FlipQueued
    <3> QED BY <2>2, <2>4, <3>1
  <2> QED BY <2>5, <2>6
<1> QED BY <1>1, <1>2, PagesMove
(* A row that is swept off while a lane is past its look stays so, unless   *)
(* another lane, which had claimed it, is about to park it.                 *)
LEMMA LateKeeps ==
  ASSUME TypeOK, [Next]_vars, StopInv, SoleDrain, MaxDeaths = 0 \/ SoleLane
  PROVE  LateClaims'
<1> SUFFICES ASSUME Swept', NEW l \in Lanes, lane'[l].pc = "claim",
                    row'[lane'[l].contact] = "queued"
             PROVE  \E m \in Lanes : ParkingBy(m, lane[l].contact)'
  BY DEF LateClaims
<1>1. PICK c \in Contacts : c = lane'[l].contact
  BY LanesMove DEF TypeOK
<1>2. ApiMoves
  BY ApiStep DEF StopInv
<1>3. CASE FlipQueued(Api)
  <2>1. row'[c] = IF c \in In("queued") THEN "canceled" ELSE row[c]
    BY <1>1, <1>3, CancelMoves DEF FlipQueued
  <2> QED BY <1>1, <2>1 DEF In
<1>4. CASE ~FlipQueued(Api)
  <2>1. Swept /\ status = "canceled"
    <3>1. Api \in Procs
      BY DEF Procs
    <3> QED BY <1>2, <1>4, <3>1 DEF ApiMoves, Swept, FlipParked, Goto, StopInv, ApiInv, TypeOK
  <2>2. lane[l].pc = "claim" /\ lane[l].contact = c
    BY <1>1, <2>1, LanesMove
  <2>3. row[c] # "none" /\ \A d \in Drains : c \in page[d] => row[c] = "canceled"
    BY <2>1, <2>2 DEF StopInv, HeldInv, PageInv, Swept
  <2>4. CASE row[c] = "queued"
    <3>1. PICK m \in Lanes : ParkingBy(m, c)
      BY <2>1, <2>2, <2>4 DEF StopInv, LateClaims
    <3>2. ~(deaths < MaxDeaths)
      BY <2>2, <3>1 DEF SoleLane, ParkingBy, TypeOK
    <3>3. ParkingBy(m, c)'
      BY <1>1, <3>1, <3>2, ParksOrDies
    <3> QED BY <1>1, <3>3 DEF ParkingBy
  <2>5. CASE row[c] # "queued"
    BY <1>1, <2>3, <2>5, RowMoves DEF MayMove
  <2> QED BY <2>4, <2>5
<1> QED BY <1>3, <1>4

LEMMA StopInvHolds ==
  ASSUME SoleDrain, MaxDeaths = 0 \/ SoleLane
  PROVE  Spec => [](TypeOK /\ StopInv)
<1>1. Init => StopInv
  BY DEF Init, StopInv, ApiInv, HeldInv, PageInv, LateClaims, Swept, IdleLane, NoWalk, Procs
<1>2. TypeOK /\ StopInv /\ [Next]_vars => StopInv'
  BY ApiKeeps, HeldKeeps, PageKeeps, LateKeeps DEF StopInv
<1> QED BY <1>1, <1>2, FanoutTyping, PTL DEF Spec

(* Once the stop has answered, no row is claimed any more, except one that  *)
(* another lane is about to park - with one drain at a time, and where a    *)
(* lane that parks does not die beside another lane.                        *)
THEOREM StopsHold ==
  ASSUME SoleDrain, MaxDeaths = 0 \/ SoleLane
  PROVE  Spec => StopHolds
<1> DEFINE Held == stopped => \A c \in Contacts :
             row'[c] = "claimed" =>
               \/ row[c] = "claimed"
               \/ \E l \in Lanes : lane[l] = [pc |-> "park", contact |-> c]
<1>1. TypeOK /\ StopInv /\ [Next]_vars => Held
  <2> SUFFICES ASSUME TypeOK, StopInv, [Next]_vars, stopped, NEW c \in Contacts,
                      row'[c] = "claimed", row[c] # "claimed"
               PROVE  \E l \in Lanes : lane[l] = [pc |-> "park", contact |-> c]
    OBVIOUS
  <2>1. PICK l \in Lanes : row[c] = "queued" /\ lane[l].pc = "claim" /\ lane[l].contact = c
    BY RowMoves DEF MayMove
  <2>2. PICK m \in Lanes : ParkingBy(m, c)
    BY <2>1 DEF StopInv, LateClaims, Swept
  <2>3. lane[m] = [pc |-> "park", contact |-> c]
    BY <2>2 DEF ParkingBy, TypeOK
  <2> QED BY <2>3
<1>2. Spec => [](TypeOK /\ StopInv)
  BY StopInvHolds
<1> HIDE DEF Held
<1>3. Spec => [][Held]_vars
  BY <1>1, <1>2, PTL DEF Spec
<1> QED BY <1>3 DEF Held, StopHolds
=============================================================================
