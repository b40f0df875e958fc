--------------------------- MODULE EmailSendProofs ---------------------------
(* The safety theorems of EmailSend, for every number of emails, lanes,      *)
(* drains and retries.                                                       *)
EXTENDS EmailSend, FiniteSetTheorems, TLAPS

-----------------------------------------------------------------------------
(* Lemmas about the operators the actions are built from.                    *)

(* A recipient list counts as a natural number of units.                     *)
LEMMA UnitsNat == \A to \in SUBSET Recipients : Units(to) \in Nat
BY SendAssumption, FS_Subset, FS_CardinalityType DEF Units

(* The day of an instant of the clock is one of the counter's days.          *)
LEMMA DayInDays == \A t \in Times : Day(t) \in Days
<1> SUFFICES ASSUME NEW t \in Times PROVE Day(t) \in Days
  OBVIOUS
<1>1. t \in Nat /\ Horizon \in Nat /\ DayLength \in Nat \ {0} /\ t <= Horizon
  BY SendAssumption DEF Times
<1>2. t \div DayLength \in Nat /\ Horizon \div DayLength \in Nat
  BY <1>1
<1>3. t \div DayLength <= Horizon \div DayLength
  BY <1>1
<1> QED BY <1>2, <1>3 DEF Day, Days

(* The later of an instant, or none, and an instant is an instant.           *)
LEMMA LaterTime ==
  ASSUME NEW a \in Times \cup {NoTime}, NEW b \in Times
  PROVE  Later(a, b) \in Times
BY SendAssumption DEF Times, NoTime, Later

LEMMA ZeroTime == 0 \in Times
BY SendAssumption DEF Times

LEMMA AskedTime == ScheduleTimes \subseteq Times \cup {NoTime}
BY SendAssumption DEF Times

(* Ending a row keeps it a row.                                              *)
LEMMA EndedType ==
  ASSUME NEW r \in Rows(Times), NEW status \in Statuses, NEW why \in Reasons
  PROVE  /\ Ended(r, status, why) \in Rows(Times)
         /\ Ended(r, status, why).status = status
BY DEF Rows, Ended

LEMMA StatusCasType ==
  ASSUME NEW r \in Rows(Times), NEW next \in Statuses
  PROVE  StatusCas(r, next) \in Rows(Times)
BY DEF Rows, StatusCas

LEMMA StrippedType ==
  ASSUME NEW r \in Rows(Times), NEW to \in SUBSET Recipients
  PROVE  Stripped(r, to) \in Rows(Times)
BY DEF Rows, Stripped

LEMMA PutType ==
  ASSUME RowsOK, NEW e \in Emails, NEW r \in Rows(Times), Put(e, r)
  PROVE  RowsOK'
BY DEF RowsOK, Put

LEMMA RefuseType ==
  ASSUME RowsOK, NEW e \in Emails, Refuse(e)
  PROVE  RowsOK'
<1>1. row[e] \in Rows(Times) /\ "suppressed" \in Statuses /\ "ineligible" \in Reasons
  BY DEF RowsOK, Statuses, Reasons
<1>2. Ended(row[e], "suppressed", "ineligible") \in Rows(Times)
  BY <1>1, EndedType
<1> QED BY <1>2, PutType DEF Refuse, RowsOK

LEMMA InsertType ==
  ASSUME NEW e \in Emails, NEW at \in Times \cup {NoTime},
         NEW w \in [Emails -> Times \cup {NoTime}]
  PROVE  Insert(w, e, at) \in [Emails -> Times \cup {NoTime}]
BY LaterTime, ZeroTime DEF Insert

LEMMA FinishType ==
  ASSUME LanesOK, NEW l \in Lanes, Finish(l)
  PROVE  LanesOK'
<1>1. IdleLane \in LaneRecords /\ IdleLane.pc = "idle"
  BY DEF IdleLane, LaneRecords, LanePcs
<1> QED BY <1>1 DEF LanesOK, Finish

LEMMA GotoType ==
  ASSUME LanesOK, NEW l \in Lanes, NEW pc \in LanePcs, Goto(l, pc), lane[l].pc # "idle"
  PROVE  LanesOK'
<1>1. [lane[l] EXCEPT !.pc = pc] \in LaneRecords
  BY DEF LaneRecords, LanesOK
<1> QED BY <1>1 DEF LanesOK, LaneRecords, Goto

(* A failed job goes to a retry within the limit, or to the dead letters.    *)
LEMMA FailJobType ==
  ASSUME LanesOK, NEW l \in Lanes, lane[l].pc # "idle", FailJob(l),
         dead \subseteq Emails, retrying \subseteq Emails \X (1..RetryLimit)
  PROVE  dead' \subseteq Emails /\ retrying' \subseteq Emails \X (1..RetryLimit)
<1> DEFINE e == lane[l].email
           k == lane[l].tries
<1>1. e \in Emails /\ k \in (0..RetryLimit) \cup {NoTime}
  BY DEF LanesOK, LaneRecords
<1>2. k # NoTime /\ k < RetryLimit => <<e, k + 1>> \in Emails \X (1..RetryLimit)
  BY <1>1, SendAssumption DEF NoTime
<1> HIDE DEF k
<1> QED BY <1>1, <1>2 DEF FailJob, k

LEMMA ReserveType ==
  ASSUME QuotaOK, NEW e \in Emails, NEW day \in Days, NEW n \in Nat, Reserve(e, day, n)
  PROVE  QuotaOK'
BY DEF QuotaOK, Reserve

LEMMA ReleaseType ==
  ASSUME accepted \in [Days -> Nat], now \in Times, NEW n \in Nat, Release(n)
  PROVE  accepted' \in [Days -> Nat]
<1>1. Day(now) \in Days
  BY DayInDays
<1>2. Later(accepted[Day(now)] - n, 0) \in Nat
  BY <1>1 DEF Later
<1> QED BY <1>1, <1>2 DEF Release

LEMMA UnchargeType ==
  ASSUME charge \in [Emails -> [day : Days \cup {NoTime}, units : Nat]],
         NEW e \in Emails, Uncharge(e)
  PROVE  charge' \in [Emails -> [day : Days \cup {NoTime}, units : Nat]]
BY DEF Uncharge, NoCharge

-----------------------------------------------------------------------------
(* Every reachable state is well typed: the guards and assignments of every  *)
(* lane, drain, cron and API step keep the rows, the jobs, what each process *)
(* holds in memory and the quota counters in their types.                    *)
THEOREM Typing == Spec => []TypeOK
<1>1. Init => TypeOK
  <2> SUFFICES ASSUME Init PROVE TypeOK
    OBVIOUS
  <2>1. AbsentRow \in Rows(Times) /\ IdleLane \in LaneRecords /\ IdleDrain \in DrainRecords
    BY DEF AbsentRow, Rows, Reasons, IdleLane, LaneRecords, LanePcs, IdleDrain, DrainRecords
  <2>2. IdleLane.pc = "idle"
    BY DEF IdleLane
  <2>3. ClockOK /\ RowsOK /\ JobsOK /\ LanesOK /\ DrainsOK /\ QuotaOK
    BY <2>1, <2>2, ZeroTime DEF Init, ClockOK, RowsOK, JobsOK, LanesOK, DrainsOK,
       QuotaOK, NoCharge
  <2>4. EventOK
    BY DEF Init, EventOK, NoEvent, SesStatuses
  <2> QED BY <2>3, <2>4 DEF TypeOK
<1>2. TypeOK /\ [Next]_vars => TypeOK'
  <2> SUFFICES ASSUME TypeOK, [Next]_vars PROVE TypeOK'
    OBVIOUS
  <2> ClockOK /\ RowsOK /\ JobsOK /\ LanesOK /\ DrainsOK /\ EventOK /\ QuotaOK
    BY DEF TypeOK
  <2>1. ASSUME NEW e \in Emails, NEW to \in SUBSET Recipients, NEW at \in ScheduleTimes, Accept(e, to, at) PROVE TypeOK'
    <3>1. at \in Times \cup {NoTime} /\ now \in Times /\ Later(at, now) \in Times
      BY <2>1, AskedTime, LaterTime DEF ClockOK
    <3>2. Day(Later(at, now)) \in Days
      BY <2>1, <3>1, DayInDays
    <3>3. RowsOK'
      BY <2>1, <3>1, <3>2, PutType DEF Accept, RowsOK, Rows, AbsentRow, Statuses, Reasons
    <3>4. JobsOK'
      BY <2>1, <3>1, <3>2 DEF Accept, JobsOK
    <3>5. QuotaOK'
      BY <2>1, <3>1, <3>2, UnitsNat, ReserveType DEF Accept, QuotaOK, quota
    <3> QED BY <2>1, <3>3, <3>4, <3>5 DEF TypeOK, ClockOK, LanesOK, DrainsOK, EventOK,
       Accept, rows, queue, quota, bounds
  <2>2. ASSUME NEW e \in Emails, Enqueue(e) PROVE TypeOK'
    <3>1. row[e].scheduledAt \in Times \cup {NoTime}
      BY <2>2 DEF RowsOK, Rows
    <3>2. JobsOK'
      BY <2>2, <3>1, InsertType DEF Enqueue, JobsOK
    <3> QED BY <2>2, <3>2 DEF TypeOK, ClockOK, RowsOK, LanesOK, DrainsOK, EventOK,
       QuotaOK, Enqueue, rows, queue, quota, bounds
  <2>3. ASSUME NEW e \in Emails, LoseEnqueue(e) PROVE TypeOK'
    <3>1. JobsOK'
      BY <2>3 DEF LoseEnqueue, JobsOK
    <3> QED BY <2>3, <3>1 DEF TypeOK, ClockOK, RowsOK, LanesOK, DrainsOK, EventOK,
       QuotaOK, LoseEnqueue, rows, queue, quota, bounds
  <2>4. ASSUME NEW e \in Emails, Cancel(e) PROVE TypeOK'
    <3>1. RowsOK'
      BY <2>4, PutType DEF Cancel, RowsOK, Rows, Statuses
    <3>2. QuotaOK'
      BY <2>4, UnchargeType DEF Cancel, QuotaOK
    <3> QED BY <2>4, <3>1, <3>2 DEF TypeOK, ClockOK, JobsOK, LanesOK, DrainsOK, EventOK,
       Cancel, rows, queue, quota, bounds
  <2>5. ASSUME NEW e \in Emails, NEW at \in ScheduleTimes \ {NoTime}, Move(e, at) PROVE TypeOK'
    <3>1. at \in Times \cup {NoTime} /\ now \in Times /\ Later(at, now) \in Times
      BY <2>5, AskedTime, LaterTime DEF ClockOK
    <3>2. Day(Later(at, now)) \in Days
      BY <2>5, <3>1, DayInDays
    <3>3. Units(row[e].to) \in Nat
      BY <2>5, UnitsNat DEF RowsOK, Rows
    <3>4. ClockOK'
      BY <2>5, <3>1, <3>2, <3>3 DEF Move, ClockOK
    <3>5. RowsOK'
      BY <2>5, <3>1, <3>2, <3>3, PutType, ZenonT(60) DEF Move, RowsOK, Rows, Statuses
    <3>6. JobsOK'
      BY <2>5, <3>1, <3>2, <3>3 DEF Move, JobsOK
    <3>7. QuotaOK'
      BY <2>5, <3>1, <3>2, <3>3, ReserveType, UnchargeType DEF Move, QuotaOK, quota
    <3> QED BY <2>5, <3>4, <3>5, <3>6, <3>7 DEF TypeOK, LanesOK, DrainsOK, EventOK, Move,
       rows, queue, quota, bounds
  <2>6. ASSUME NEW e \in Emails, DeleteDomain(e) PROVE TypeOK'
    <3>1. Ended(row[e], "failed", "domain_deleted") \in Rows(Times)
      BY <2>6, EndedType, ZenonT(60) DEF RowsOK, Statuses, Reasons
    <3>2. RowsOK'
      BY <2>6, <3>1, PutType DEF DeleteDomain, RowsOK
    <3>3. QuotaOK'
      BY <2>6, <3>1, UnchargeType DEF DeleteDomain, QuotaOK
    <3> QED BY <2>6, <3>2, <3>3 DEF TypeOK, ClockOK, JobsOK, LanesOK, DrainsOK, EventOK,
       DeleteDomain, rows, queue, quota, bounds
  <2>7. ASSUME NEW e \in Emails, CancelHeld(e) PROVE TypeOK'
    <3>1. Units(row[e].to) \in Nat
      BY <2>7, UnitsNat DEF RowsOK, Rows
    <3>2. RowsOK'
      BY <2>7, <3>1, PutType DEF CancelHeld, RowsOK, Rows, Statuses
    <3>3. QuotaOK'
      BY <2>7, <3>1, UnchargeType, ReleaseType DEF CancelHeld, QuotaOK, ClockOK
    <3> QED BY <2>7, <3>2, <3>3 DEF TypeOK, ClockOK, JobsOK, LanesOK, DrainsOK, EventOK,
       CancelHeld, rows, queue, quota, bounds
  <2>8. ASSUME NEW r \in Recipients, Suppress(r) PROVE TypeOK'
    <3>1. ClockOK'
      BY <2>8 DEF Suppress, ClockOK, rows, queue, quota, bounds
    <3> QED BY <2>8, <3>1 DEF TypeOK, RowsOK, JobsOK, LanesOK, DrainsOK, EventOK,
       QuotaOK, Suppress, rows, queue, quota, bounds
  <2>9. ASSUME NEW l \in Lanes, NEW e \in Emails, FetchNew(l, e) PROVE TypeOK'
    <3>1. JobsOK'
      BY <2>9 DEF FetchNew, JobsOK
    <3>2. LanesOK'
      BY <2>9, SendAssumption DEF FetchNew, LanesOK, LaneRecords, LanePcs
    <3> QED BY <2>9, <3>1, <3>2 DEF TypeOK, ClockOK, RowsOK, DrainsOK, EventOK, QuotaOK,
       FetchNew, rows, queue, quota, bounds
  <2>10. ASSUME NEW l \in Lanes, NEW e \in Emails, NEW k \in 1..RetryLimit, FetchRetry(l, e, k) PROVE TypeOK'
    <3>1. JobsOK'
      BY <2>10 DEF FetchRetry, JobsOK
    <3>2. LanesOK'
      BY <2>10, SendAssumption DEF FetchRetry, LanesOK, LaneRecords, LanePcs
    <3> QED BY <2>10, <3>1, <3>2 DEF TypeOK, ClockOK, RowsOK, DrainsOK, EventOK, QuotaOK,
       FetchRetry, rows, queue, quota, bounds
  <2>11. ASSUME NEW l \in Lanes, Throw(l) PROVE TypeOK'
    <3>1. JobsOK'
      BY <2>11, FailJobType DEF Throw, JobsOK
    <3>2. LanesOK'
      BY <2>11, FinishType DEF Throw, LanesOK
    <3> QED BY <2>11, <3>1, <3>2 DEF TypeOK, ClockOK, RowsOK, DrainsOK, EventOK, QuotaOK,
       Throw, rows, queue, quota, bounds
  <2>12. ASSUME NEW l \in Lanes, Expire(l) PROVE TypeOK'
    <3>1. ClockOK'
      BY <2>12 DEF Expire, ClockOK, rows
    <3>2. JobsOK'
      BY <2>12, FailJobType DEF Expire, JobsOK
    <3>3. LanesOK'
      BY <2>12 DEF Expire, LanesOK, LaneRecords
    <3> QED BY <2>12, <3>1, <3>2, <3>3 DEF TypeOK, RowsOK, DrainsOK, EventOK, QuotaOK,
       Expire, rows, queue, quota, bounds
  <2>13. ASSUME NEW l \in Lanes, ReadRow(l) PROVE TypeOK'
    <3>1. lane[l].email \in Emails
      BY <2>13 DEF ReadRow, LanesOK
    <3>2. row[lane[l].email].scheduledAt \in Times \cup {NoTime} /\ row[lane[l].email].to \in SUBSET Recipients
      BY <2>13, <3>1 DEF RowsOK, Rows
    <3>3. Insert(waiting, lane[l].email, row[lane[l].email].scheduledAt) \in [Emails -> Times \cup {NoTime}]
      BY <2>13, <3>1, <3>2, InsertType DEF JobsOK
    <3>4. JobsOK'
      BY <2>13, <3>1, <3>2, <3>3 DEF ReadRow, JobsOK
    <3>5. LanesOK'
      BY <2>13, <3>1, <3>2, <3>3, FinishType DEF ReadRow, LanesOK, LaneRecords, LanePcs
    <3> QED BY <2>13, <3>4, <3>5 DEF TypeOK, ClockOK, RowsOK, DrainsOK, EventOK, QuotaOK,
       ReadRow, rows, queue, quota, bounds
  <2>14. ASSUME NEW l \in Lanes, CheckEligible(l) PROVE TypeOK'
    <3>1. lane[l].email \in Emails
      BY <2>14 DEF CheckEligible, LanesOK
    <3>2. lane[l].to \ suppressed \in SUBSET Recipients
      BY <2>14 DEF LanesOK, LaneRecords
    <3>3. Stripped(row[lane[l].email], lane[l].to \ suppressed) \in Rows(Times)
      BY <2>14, <3>1, <3>2, StrippedType DEF RowsOK
    <3>4. RowsOK'
      BY <2>14, <3>1, <3>2, <3>3, PutType, RefuseType DEF CheckEligible, RowsOK
    <3>5. LanesOK'
      BY <2>14, <3>1, <3>2, <3>3, FinishType DEF CheckEligible, LanesOK, LaneRecords,
         LanePcs
    <3>6. QuotaOK'
      BY <2>14, <3>1, <3>2, <3>3, UnchargeType DEF CheckEligible, QuotaOK, Refuse
    <3> QED BY <2>14, <3>4, <3>5, <3>6 DEF TypeOK, ClockOK, JobsOK, DrainsOK, EventOK,
       CheckEligible, rows, queue, quota, bounds
  <2>15. ASSUME NEW l \in Lanes, Render(l) PROVE TypeOK'
    <3>1. lane[l].email \in Emails
      BY <2>15 DEF Render, LanesOK
    <3>2. ClockOK'
      BY <2>15, <3>1 DEF Render, ClockOK, ComeBack, rows
    <3>3. JobsOK'
      BY <2>15, <3>1, InsertType, SendAssumption DEF Render, JobsOK, ComeBack, ClockOK,
         Times
    <3>4. LanesOK'
      BY <2>15, <3>1, FinishType, GotoType DEF Render, LanesOK, ComeBack, LanePcs
    <3> QED BY <2>15, <3>2, <3>3, <3>4 DEF TypeOK, RowsOK, DrainsOK, EventOK, QuotaOK,
       Render, rows, queue, quota, bounds
  <2>16. ASSUME NEW l \in Lanes, Recheck(l) PROVE TypeOK'
    <3>1. lane[l].email \in Emails
      BY <2>16 DEF Recheck, LanesOK
    <3>2. lane[l].to \ suppressed \in SUBSET Recipients
      BY <2>16 DEF LanesOK, LaneRecords
    <3>3. Stripped(row[lane[l].email], lane[l].to \ suppressed) \in Rows(Times)
      BY <2>16, <3>1, <3>2, StrippedType DEF RowsOK
    <3>4. RowsOK'
      BY <2>16, <3>1, <3>2, <3>3, PutType, RefuseType DEF Recheck, RowsOK
    <3>5. JobsOK'
      BY <2>16, <3>1, <3>2, <3>3, InsertType DEF Recheck, JobsOK, ClockOK
    <3>6. LanesOK'
      BY <2>16, <3>1, <3>2, <3>3, FinishType, GotoType DEF Recheck, LanesOK, LanePcs
    <3>7. QuotaOK'
      BY <2>16, <3>1, <3>2, <3>3, UnchargeType DEF Recheck, QuotaOK, Refuse
    <3> QED BY <2>16, <3>4, <3>5, <3>6, <3>7 DEF TypeOK, ClockOK, DrainsOK, EventOK,
       Recheck, rows, queue, quota, bounds
  <2>17. ASSUME NEW l \in Lanes, Claim(l) PROVE TypeOK'
    <3>1. lane[l].email \in Emails
      BY <2>17 DEF Claim, LanesOK
    <3>2. RowsOK'
      BY <2>17, <3>1, PutType DEF Claim, RowsOK, Rows, ClockOK
    <3>3. LanesOK'
      BY <2>17, <3>1, FinishType, GotoType DEF Claim, LanesOK, LanePcs
    <3> QED BY <2>17, <3>2, <3>3 DEF TypeOK, ClockOK, JobsOK, DrainsOK, EventOK, QuotaOK,
       Claim, rows, queue, quota, bounds
  <2>18. ASSUME NEW l \in Lanes, SesTakes(l) PROVE TypeOK'
    <3>1. lane[l].email \in Emails
      BY <2>18 DEF SesTakes, LanesOK
    <3>2. ClockOK'
      BY <2>18, <3>1 DEF SesTakes, ClockOK, bounds
    <3>3. LanesOK'
      BY <2>18, <3>1, GotoType DEF SesTakes, LanesOK, LanePcs
    <3> QED BY <2>18, <3>2, <3>3 DEF TypeOK, RowsOK, JobsOK, DrainsOK, EventOK, QuotaOK,
       SesTakes, rows, queue, quota, bounds
  <2>19. ASSUME NEW l \in Lanes, SesRefuses(l) PROVE TypeOK'
    <3>1. LanesOK'
      BY <2>19, GotoType DEF SesRefuses, LanesOK, LanePcs
    <3> QED BY <2>19, <3>1 DEF TypeOK, ClockOK, RowsOK, JobsOK, DrainsOK, EventOK,
       QuotaOK, SesRefuses, rows, queue, quota, bounds
  <2>20. ASSUME NEW l \in Lanes, SesDeadline(l) PROVE TypeOK'
    <3>1. lane[l].email \in Emails
      BY <2>20 DEF SesDeadline, LanesOK
    <3>2. ClockOK'
      BY <2>20, <3>1 DEF SesDeadline, ClockOK, bounds
    <3>3. JobsOK'
      BY <2>20, <3>1, FailJobType DEF SesDeadline, JobsOK
    <3>4. LanesOK'
      BY <2>20, <3>1, FinishType DEF SesDeadline, LanesOK
    <3> QED BY <2>20, <3>2, <3>3, <3>4 DEF TypeOK, RowsOK, DrainsOK, EventOK, QuotaOK,
       SesDeadline, rows, queue, quota, bounds
  <2>21. ASSUME NEW l \in Lanes, ReleaseClaim(l) PROVE TypeOK'
    <3>1. lane[l].email \in Emails
      BY <2>21 DEF ReleaseClaim, LanesOK
    <3>2. RowsOK'
      BY <2>21, <3>1, PutType DEF ReleaseClaim, RowsOK, Rows
    <3>3. JobsOK'
      BY <2>21, <3>1, FailJobType DEF ReleaseClaim, JobsOK
    <3>4. LanesOK'
      BY <2>21, <3>1, FinishType, GotoType DEF ReleaseClaim, LanesOK, LanePcs
    <3> QED BY <2>21, <3>2, <3>3, <3>4 DEF TypeOK, ClockOK, DrainsOK, EventOK, QuotaOK,
       ReleaseClaim, rows, queue, quota, bounds
  <2>22. ASSUME NEW l \in Lanes, Fail(l) PROVE TypeOK'
    <3>1. lane[l].email \in Emails
      BY <2>22 DEF Fail, LanesOK
    <3>2. Ended(row[lane[l].email], "failed", "refused") \in Rows(Times)
      BY <2>22, <3>1, EndedType, ZenonT(60) DEF RowsOK, Statuses, Reasons
    <3>3. RowsOK'
      BY <2>22, <3>1, <3>2, PutType DEF Fail, RowsOK
    <3>4. LanesOK'
      BY <2>22, <3>1, <3>2, FinishType DEF Fail, LanesOK
    <3>5. QuotaOK'
      BY <2>22, <3>1, <3>2, UnchargeType DEF Fail, QuotaOK
    <3> QED BY <2>22, <3>3, <3>4, <3>5 DEF TypeOK, ClockOK, JobsOK, DrainsOK, EventOK,
       Fail, rows, queue, quota, bounds
  <2>23. ASSUME NEW l \in Lanes, Park(l) PROVE TypeOK'
    <3>1. lane[l].email \in Emails
      BY <2>23 DEF Park, LanesOK
    <3>2. Units(row[lane[l].email].to) \in Nat
      BY <2>23, <3>1, UnitsNat DEF RowsOK, Rows
    <3>3. RowsOK'
      BY <2>23, <3>1, <3>2, PutType DEF Park, RowsOK, Rows, Statuses
    <3>4. LanesOK'
      BY <2>23, <3>1, <3>2, FinishType DEF Park, LanesOK
    <3>5. QuotaOK'
      BY <2>23, <3>1, <3>2, UnchargeType, ReleaseType DEF Park, QuotaOK, ClockOK, quota
    <3> QED BY <2>23, <3>3, <3>4, <3>5 DEF TypeOK, ClockOK, JobsOK, DrainsOK, EventOK,
       Park, rows, queue, quota, bounds
  <2>24. ASSUME NEW l \in Lanes, Record(l) PROVE TypeOK'
    <3>1. lane[l].email \in Emails
      BY <2>24 DEF Record, LanesOK
    <3>2. RowsOK'
      BY <2>24, <3>1, PutType DEF Record, RowsOK, Rows, ClockOK
    <3>3. LanesOK'
      BY <2>24, <3>1, GotoType DEF Record, LanesOK, LanePcs
    <3> QED BY <2>24, <3>2, <3>3 DEF TypeOK, ClockOK, JobsOK, DrainsOK, EventOK, QuotaOK,
       Record, rows, queue, quota, bounds
  <2>25. ASSUME NEW l \in Lanes, FlipSent(l) PROVE TypeOK'
    <3>1. lane[l].email \in Emails
      BY <2>25 DEF FlipSent, LanesOK
    <3>2. StatusCas(row[lane[l].email], "sent") \in Rows(Times)
      BY <2>25, <3>1, StatusCasType DEF RowsOK, Statuses, Reasons
    <3>3. RowsOK'
      BY <2>25, <3>1, <3>2, PutType DEF FlipSent, RowsOK
    <3>4. LanesOK'
      BY <2>25, <3>1, <3>2, GotoType DEF FlipSent, LanesOK, LanePcs
    <3> QED BY <2>25, <3>3, <3>4 DEF TypeOK, ClockOK, JobsOK, DrainsOK, EventOK, QuotaOK,
       FlipSent, rows, queue, quota, bounds
  <2>26. ASSUME NEW l \in Lanes, CountSent(l) PROVE TypeOK'
    <3>1. lane[l].email \in Emails
      BY <2>26 DEF CountSent, LanesOK
    <3>2. ClockOK'
      BY <2>26, <3>1 DEF CountSent, ClockOK, bounds
    <3>3. LanesOK'
      BY <2>26, <3>1, FinishType DEF CountSent, LanesOK
    <3> QED BY <2>26, <3>2, <3>3 DEF TypeOK, RowsOK, JobsOK, DrainsOK, EventOK, QuotaOK,
       CountSent, rows, queue, quota, bounds
  <2>27. ASSUME NEW e \in Emails, NEW m \in 1..took[e], NEW s \in EventStatuses, LookUp(e, m, s) PROVE TypeOK'
    <3>1. EventOK'
      BY <2>27, SendAssumption DEF LookUp, EventOK, ClockOK
    <3> QED BY <2>27, <3>1 DEF TypeOK, ClockOK, RowsOK, JobsOK, LanesOK, DrainsOK,
       QuotaOK, LookUp, rows, queue, quota, bounds
  <2>28. CASE ApplyEvent
    <3> DEFINE e == event.email
               joined == IF event.byTag THEN [row[e] EXCEPT !.sesId = event.msg] ELSE row[e]
               why == IF Climbs(row[e], event.status) THEN "ses_event" ELSE joined.why
               next == [joined EXCEPT !.why = why]
    <3>1. e \in Emails /\ event.status \in Statuses
      BY <2>28 DEF ApplyEvent, EventOK, SesStatuses, Statuses
    <3>2. joined \in Rows(Times)
      BY <3>1 DEF RowsOK, EventOK, Rows
    <3>3. next \in Rows(Times)
      BY <3>2 DEF Rows, Reasons
    <3>4. StatusCas(next, event.status) \in Rows(Times)
      BY <3>1, <3>3, StatusCasType
    <3>5. RowsOK'
      <4>1. ASSUME Put(e, StatusCas(next, event.status)) PROVE RowsOK'
        BY <3>1, <3>4, <4>1, PutType
      <4> QED BY <2>28, <4>1 DEF ApplyEvent, RowsOK
    <3>6. ClockOK'
      BY <2>28, <3>1 DEF ApplyEvent, ClockOK, RowsOK, Rows, bounds
    <3>7. EventOK'
      BY <2>28 DEF ApplyEvent, EventOK, NoEvent, SesStatuses
    <3> QED BY <2>28, <3>5, <3>6, <3>7 DEF TypeOK, JobsOK, LanesOK, DrainsOK, QuotaOK,
       ApplyEvent, rows, queue, quota, bounds
  <2>29. ASSUME NEW d \in Drains, DrainPage(d) PROVE TypeOK'
    <3>1. \A e \in Emails : [email |-> e, at |-> row[e].scheduledAt, units |-> Units(row[e].to)] \in ParkedRows
      BY <2>29, UnitsNat DEF RowsOK, Rows, ParkedRows
    <3>2. DrainsOK'
      BY <2>29, <3>1, ZenonT(60) DEF DrainPage, DrainsOK, DrainRecords, IdleDrain
    <3> QED BY <2>29, <3>2 DEF TypeOK, ClockOK, RowsOK, JobsOK, LanesOK, EventOK,
       QuotaOK, DrainPage, rows, queue, quota, bounds
  <2>30. ASSUME NEW d \in Drains, NEW m \in drain[d].page, DrainRelease(d, m) PROVE TypeOK'
    <3>1. m \in ParkedRows /\ m.email \in Emails /\ m.units \in Nat
      BY <2>30 DEF DrainsOK, DrainRecords, ParkedRows
    <3>2. Day(now) \in Days
      BY <2>30, DayInDays DEF ClockOK
    <3>3. RowsOK'
      BY <2>30, <3>1, <3>2, PutType DEF DrainRelease, RowsOK, Rows, Statuses
    <3>4. DrainsOK'
      BY <2>30, <3>1, <3>2 DEF DrainRelease, DrainsOK, DrainRecords
    <3>5. QuotaOK'
      BY <2>30, <3>1, <3>2, ReserveType DEF DrainRelease, QuotaOK, quota
    <3> QED BY <2>30, <3>3, <3>4, <3>5 DEF TypeOK, ClockOK, JobsOK, LanesOK, EventOK,
       DrainRelease, rows, queue, quota, bounds
  <2>31. ASSUME NEW d \in Drains, DrainEnqueue(d) PROVE TypeOK'
    <3> DEFINE of(e) == CHOOSE m \in drain[d].moved : m.email = e
    <3>1. ASSUME NEW e \in {m.email : m \in drain[d].moved}
          PROVE  Insert(waiting, e, of(e).at) \in [Emails -> Times \cup {NoTime}]
      <4>1. of(e) \in drain[d].moved /\ of(e).email = e
        OBVIOUS
      <4>2. e \in Emails /\ of(e).at \in Times \cup {NoTime}
        BY <4>1 DEF DrainsOK, DrainRecords, ParkedRows
      <4> QED BY <4>2, InsertType DEF JobsOK
    <3>2. DrainsOK'
      BY <2>31 DEF DrainEnqueue, DrainsOK, DrainRecords, IdleDrain
    <3>3. JobsOK'
      <4>1. CASE UNCHANGED waiting
        BY <2>31, <4>1 DEF DrainEnqueue, JobsOK
      <4>2. CASE waiting' = [e \in Emails |-> IF e \in {m.email : m \in drain[d].moved}
                                            THEN Insert(waiting, e, of(e).at)[e] ELSE waiting[e]]
        <5>1. \A e \in Emails : waiting'[e] \in Times \cup {NoTime}
          <6> SUFFICES ASSUME NEW e \in Emails PROVE waiting'[e] \in Times \cup {NoTime}
            OBVIOUS
          <6>1. CASE e \in {m.email : m \in drain[d].moved}
            <7>1. waiting'[e] = Insert(waiting, e, of(e).at)[e]
              BY <4>2, <6>1
            <7> HIDE DEF of
            <7> QED BY <3>1, <6>1, <7>1
          <6>2. CASE e \notin {m.email : m \in drain[d].moved}
            BY <4>2, <6>2 DEF JobsOK
          <6> QED BY <6>1, <6>2
        <5>2. waiting' \in [Emails -> Times \cup {NoTime}]
          BY <4>2, <5>1
        <5> QED BY <2>31, <5>2 DEF DrainEnqueue, JobsOK
      <4> QED BY <2>31, <4>1, <4>2 DEF DrainEnqueue
    <3> QED BY <2>31, <3>2, <3>3 DEF TypeOK, ClockOK, RowsOK, LanesOK, EventOK, QuotaOK,
       DrainEnqueue, rows, queue, quota, bounds
  <2>32. ASSUME NEW d \in Drains, NEW m \in drain[d].moved, DrainRepark(d, m) PROVE TypeOK'
    <3>1. m \in ParkedRows /\ m.email \in Emails /\ m.units \in Nat
      BY <2>32 DEF DrainsOK, DrainRecords, ParkedRows
    <3>2. /\ [drain[d] EXCEPT !.pc = "refund", !.moved = drain[d].moved \ {m}, !.owed = m.units] \in DrainRecords
         /\ [drain[d] EXCEPT !.moved = drain[d].moved \ {m}] \in DrainRecords
      BY <2>32, <3>1 DEF DrainsOK, DrainRecords
    <3>3. \/ drain' = [drain EXCEPT ![d] = [@ EXCEPT !.pc = "refund", !.moved = drain[d].moved \ {m}, !.owed = m.units]]
         \/ drain' = [drain EXCEPT ![d].moved = drain[d].moved \ {m}]
      BY <2>32 DEF DrainRepark
    <3>4. RowsOK'
      BY <2>32, <3>1, <3>2, <3>3, PutType DEF DrainRepark, RowsOK, Rows, Statuses
    <3>5. DrainsOK'
      BY <2>32, <3>1, <3>2, <3>3 DEF DrainRepark, DrainsOK
    <3>6. QuotaOK'
      BY <2>32, <3>1, <3>2, <3>3, UnchargeType DEF DrainRepark, QuotaOK
    <3> QED BY <2>32, <3>4, <3>5, <3>6 DEF TypeOK, ClockOK, JobsOK, LanesOK, EventOK,
       DrainRepark, rows, queue, quota, bounds
  <2>33. ASSUME NEW d \in Drains, DrainRefund(d) PROVE TypeOK'
    <3>1. drain[d].owed \in Nat
      BY <2>33 DEF DrainsOK, DrainRecords
    <3>2. DrainsOK'
      BY <2>33, <3>1 DEF DrainRefund, DrainsOK, DrainRecords
    <3>3. QuotaOK'
      BY <2>33, <3>1, ReleaseType DEF DrainRefund, QuotaOK, ClockOK
    <3> QED BY <2>33, <3>2, <3>3 DEF TypeOK, ClockOK, RowsOK, JobsOK, LanesOK, EventOK,
       DrainRefund, rows, queue, quota, bounds
  <2>34. ASSUME NEW d \in Drains, DrainStop(d) PROVE TypeOK'
    <3>1. DrainsOK'
      BY <2>34 DEF DrainStop, DrainsOK, DrainRecords, IdleDrain
    <3> QED BY <2>34, <3>1 DEF TypeOK, ClockOK, RowsOK, JobsOK, LanesOK, EventOK,
       QuotaOK, DrainStop, rows, queue, quota, bounds
  <2>35. ASSUME NEW e \in Emails, DeadLetter(e) PROVE TypeOK'
    <3>1. Ended(row[e], "failed", "retries_exhausted") \in Rows(Times)
      <4>1. /\ row[e] \in Rows(Times) /\ "failed" \in Statuses
            /\ "retries_exhausted" \in Reasons
        BY DEF RowsOK, Statuses, Reasons
      <4> QED BY <4>1, EndedType
    <3>2. RowsOK'
      BY <2>35, <3>1, PutType DEF DeadLetter, RowsOK
    <3>3. JobsOK'
      BY <2>35, <3>1 DEF DeadLetter, JobsOK
    <3>4. QuotaOK'
      BY <2>35, <3>1, UnchargeType DEF DeadLetter, QuotaOK
    <3> QED BY <2>35, <3>2, <3>3, <3>4 DEF TypeOK, ClockOK, LanesOK, DrainsOK, EventOK,
       DeadLetter, rows, queue, quota, bounds
  <2>36. ASSUME NEW e \in Emails, FailStalled(e) PROVE TypeOK'
    <3>1. Ended(row[e], "failed", "send_interrupted") \in Rows(Times)
      <4>1. /\ row[e] \in Rows(Times) /\ "failed" \in Statuses
            /\ "send_interrupted" \in Reasons
        BY DEF RowsOK, Statuses, Reasons
      <4> QED BY <4>1, EndedType
    <3>2. RowsOK'
      BY <2>36, <3>1, PutType DEF FailStalled, RowsOK
    <3>3. QuotaOK'
      BY <2>36, <3>1, UnchargeType DEF FailStalled, QuotaOK
    <3> QED BY <2>36, <3>2, <3>3 DEF TypeOK, ClockOK, JobsOK, LanesOK, DrainsOK, EventOK,
       FailStalled, rows, queue, quota, bounds
  <2>37. ASSUME NEW e \in Emails, Requeue(e) PROVE TypeOK'
    <3>1. row[e].scheduledAt \in Times \cup {NoTime}
      BY <2>37 DEF RowsOK, Rows
    <3>2. JobsOK'
      BY <2>37, <3>1, InsertType DEF Requeue, JobsOK
    <3> QED BY <2>37, <3>2 DEF TypeOK, ClockOK, RowsOK, LanesOK, DrainsOK, EventOK,
       QuotaOK, Requeue, rows, queue, quota, bounds
  <2>38. CASE Tick
    <3>1. ClockOK'
      BY <2>38, SendAssumption DEF Tick, ClockOK, Times, rows, bounds
    <3> QED BY <2>38, <3>1 DEF TypeOK, RowsOK, JobsOK, LanesOK, DrainsOK, EventOK,
       QuotaOK, Tick, rows, queue, quota, bounds
  <2>40. ASSUME NEW l \in Lanes, SesTakesUnnamed(l) PROVE TypeOK'
    <3>1. lane[l].email \in Emails
      BY <2>40 DEF SesTakesUnnamed, LanesOK
    <3>2. ClockOK'
      BY <2>40, <3>1 DEF SesTakesUnnamed, ClockOK, bounds
    <3>3. LanesOK'
      BY <2>40, <3>1, GotoType DEF SesTakesUnnamed, LanesOK, LanePcs
    <3> QED BY <2>40, <3>2, <3>3 DEF TypeOK, RowsOK, JobsOK, DrainsOK, EventOK, QuotaOK,
       SesTakesUnnamed, rows, queue, quota, bounds
  <2>41. ASSUME NEW e \in Emails, NEW to \in SUBSET Recipients, RecordSuppressed(e, to) PROVE TypeOK'
    <3>1. RowsOK'
      BY <2>41, PutType DEF RecordSuppressed, ClockOK, Rows, AbsentRow, Statuses, Reasons
    <3> QED BY <2>41, <3>1 DEF TypeOK, ClockOK, JobsOK, LanesOK, DrainsOK, EventOK, QuotaOK,
       RecordSuppressed, queue, quota, bounds
  <2>39. CASE UNCHANGED vars
    BY <2>39 DEF vars, rows, queue, quota, bounds, TypeOK, ClockOK, RowsOK, JobsOK,
       LanesOK, DrainsOK, EventOK, QuotaOK
  <2> QED
    BY <2>1, <2>2, <2>3, <2>4, <2>5, <2>6, <2>7, <2>8, <2>9, <2>10, <2>11, <2>12, <2>13,
       <2>14, <2>15, <2>16, <2>17, <2>18, <2>19, <2>20, <2>21, <2>22, <2>23, <2>24,
       <2>25, <2>26, <2>27, <2>28, <2>29, <2>30, <2>31, <2>32, <2>33, <2>34, <2>35,
       <2>36, <2>37, <2>38, <2>39, <2>40, <2>41
    DEF Next, ApiStep, CronStep, LaneStep, LaneWork, EventStep, DrainStep
<1> QED BY <1>1, <1>2, PTL DEF Spec

-----------------------------------------------------------------------------
(* The claim.  Most steps either leave an email's status, claim and reason   *)
(* alone, or touch a row nobody owns; Quiet is the one argument for them.    *)

Unowned(e) ==
  /\ took[e] = 0 /\ told[e] = 0
  /\ \A l \in Lanes : lane[l].email = e => lane[l].pc \notin OwnPcs

SameRow(e) ==
  /\ row'[e].status = row[e].status
  /\ row'[e].sentAt = row[e].sentAt
  /\ row'[e].why = row[e].why

LanesLetGo ==
  \A l \in Lanes : \/ lane'[l].pc = lane[l].pc /\ lane'[l].email = lane[l].email
                   \/ lane'[l].pc \notin OwnPcs

(* A row that waits and carries no claim has no owner, and nothing of it is  *)
(* with SES.                                                                 *)
LEMMA WaitingUnowned ==
  ASSUME TypeOK, ClaimInv, NEW e \in Emails,
         row[e].status \in Waiting \cup {"absent"}, Unclaimed(row[e])
  PROVE  Unowned(e)
<1>1. took[e] = 0
  BY DEF ClaimInv, TakenStays, Waiting, SesStatuses
<1>2. told[e] = 0
  BY <1>1 DEF ClaimInv, TakenStays, TypeOK, ClockOK
<1>3. ASSUME NEW l \in Lanes, lane[l].email = e, lane[l].pc \in OwnPcs PROVE FALSE
  <2>1. CASE lane[l].pc \in HoldPcs
    BY <1>3, <2>1 DEF ClaimInv, OwnerKnows, Interrupted, Waiting
  <2>2. CASE lane[l].pc \notin HoldPcs
    BY <1>1, <1>3, <2>2 DEF ClaimInv, OwnerKnows
  <2> QED BY <2>1, <2>2
<1> QED BY <1>1, <1>2, <1>3 DEF Unowned

(* So is a row before its accept.                                            *)
LEMMA AbsentUnowned ==
  ASSUME TypeOK, ClaimInv, NEW e \in Emails, row[e].status = "absent"
  PROVE  Unowned(e)
<1>1. took[e] = 0
  BY DEF ClaimInv, TakenStays, SesStatuses
<1>2. told[e] = 0
  BY <1>1 DEF ClaimInv, TakenStays, TypeOK, ClockOK
<1> QED BY <1>1, <1>2 DEF ClaimInv, OwnerKnows, Interrupted, Unowned

(* A step that only lets go of emails, and changes no row an owner or SES    *)
(* has, keeps the claim invariant.                                           *)
LEMMA Quiet ==
  ASSUME TypeOK, ClaimInv, LanesLetGo, UNCHANGED <<took, told>>,
         event' = event \/ event'.pc = "idle",
         \A e \in Emails : SameRow(e) \/ Unowned(e)
  PROVE  ClaimInv'
<1>1. OneOwner'
  BY DEF ClaimInv, OneOwner, LanesLetGo
<1>2. OwnerKnows'
  <2> SUFFICES ASSUME NEW l \in Lanes, lane'[l].pc \in OwnPcs
               PROVE  LET e == lane'[l].email IN
                      /\ told'[e] = 0
                      /\ lane'[l].pc \notin HoldPcs => took'[e] = 1
                      /\ lane'[l].pc \in HoldPcs =>
                           /\ took'[e] = 0
                           /\ \/ row'[e].status = "queued" /\ ~Unclaimed(row'[e])
                              \/ Interrupted(row'[e])
    BY DEF OwnerKnows, OwnPcs
  <2>1. lane'[l].pc = lane[l].pc /\ lane'[l].email = lane[l].email
    BY DEF LanesLetGo
  <2>2. lane[l].email \in Emails
    BY <2>1 DEF TypeOK, LanesOK, OwnPcs, HoldPcs
  <2>3. SameRow(lane[l].email)
    BY <2>1, <2>2 DEF Unowned
  <2> QED BY <2>1, <2>2, <2>3 DEF ClaimInv, OwnerKnows, SameRow, Unclaimed, Interrupted
<1>3. TakenStays'
  <2> SUFFICES ASSUME NEW e \in Emails
               PROVE  /\ took[e] \in {0, 1} /\ told[e] <= took[e]
                      /\ took[e] = 1 =>
                           /\ row'[e].status \in SesStatuses \cup {"queued"}
                           /\ IF row'[e].status = "failed"
                              THEN row'[e].why \in {"send_interrupted", "ses_event"}
                              ELSE ~Unclaimed(row'[e])
    BY DEF TakenStays
  <2>1. took[e] = 1 => SameRow(e)
    BY DEF Unowned
  <2> QED BY <2>1 DEF ClaimInv, TakenStays, SameRow, Unclaimed
<1>4. EventTaken'
  BY DEF ClaimInv, EventTaken
<1> QED BY <1>1, <1>2, <1>3, <1>4 DEF ClaimInv

(* Writing a row nobody owns is quiet, and so is a write that keeps status,  *)
(* claim and reason.                                                         *)
LEMMA PutUnowned ==
  ASSUME TypeOK, ClaimInv, NEW e \in Emails, NEW r, Put(e, r),
         row[e].status \in Waiting \cup {"absent"}, Unclaimed(row[e])
  PROVE  \A x \in Emails : SameRow(x) \/ Unowned(x)
BY WaitingUnowned DEF Put, SameRow, TypeOK, RowsOK

LEMMA PutSame ==
  ASSUME TypeOK, NEW e \in Emails, NEW r, Put(e, r),
         r.status = row[e].status, r.sentAt = row[e].sentAt, r.why = row[e].why
  PROVE  \A x \in Emails : SameRow(x)
BY DEF Put, SameRow, TypeOK, RowsOK

LEMMA FinishLets ==
  ASSUME TypeOK, NEW l \in Lanes, Finish(l)
  PROVE  LanesLetGo
BY DEF Finish, LanesLetGo, IdleLane, OwnPcs, HoldPcs, TypeOK, LanesOK

LEMMA GotoLets ==
  ASSUME TypeOK, NEW l \in Lanes, NEW pc \in LanePcs \ OwnPcs, Goto(l, pc)
  PROVE  LanesLetGo
BY DEF Goto, LanesLetGo, TypeOK, LanesOK, LaneRecords

GotoEffect(l, pc) ==
  /\ lane'[l].pc = pc /\ lane'[l].email = lane[l].email
  /\ \A m \in Lanes : m # l => lane'[m] = lane[m]

LEMMA GotoMoves ==
  ASSUME TypeOK, NEW l \in Lanes, NEW pc, Goto(l, pc)
  PROVE  GotoEffect(l, pc)
BY DEF Goto, GotoEffect, TypeOK, LanesOK, LaneRecords

LEMMA RefuseQuiet ==
  ASSUME TypeOK, ClaimInv, NEW e \in Emails, Refuse(e)
  PROVE  \A x \in Emails : SameRow(x) \/ Unowned(x)
BY PutUnowned DEF Refuse, CanEnd, CanTransition, SameRow

LEMMA StrippedQuiet ==
  ASSUME TypeOK, NEW e \in Emails, NEW to, Put(e, Stripped(row[e], to))
  PROVE  \A x \in Emails : SameRow(x)
<1>1. row[e] \in Rows(Times)
  BY DEF TypeOK, RowsOK
<1>2. /\ Stripped(row[e], to).status = row[e].status
      /\ Stripped(row[e], to).sentAt = row[e].sentAt
      /\ Stripped(row[e], to).why = row[e].why
  BY <1>1 DEF Stripped, Rows
<1> QED BY <1>2, PutSame

-----------------------------------------------------------------------------
(* The claim works in every reachable state.                                 *)
THEOREM Claims ==
  ASSUME MaxUnnamed = 0
  PROVE  Spec => []ClaimInv
<1>1. Init => ClaimInv
  BY DEF Init, ClaimInv, OneOwner, OwnerKnows, TakenStays, EventTaken, IdleLane, OwnPcs,
     HoldPcs, NoEvent
<1>2. TypeOK /\ ClaimInv /\ [Next]_vars => ClaimInv'
  <2> SUFFICES ASSUME TypeOK, ClaimInv, [Next]_vars PROVE ClaimInv'
    OBVIOUS
  <2>1. ASSUME NEW e \in Emails, Enqueue(e) PROVE ClaimInv'
    <3> QED BY <2>1, Quiet DEF Enqueue, LanesLetGo, SameRow, rows, queue, quota, bounds
  <2>2. ASSUME NEW e \in Emails, LoseEnqueue(e) PROVE ClaimInv'
    <3> QED BY <2>2, Quiet DEF LoseEnqueue, LanesLetGo, SameRow, rows, queue, quota, bounds
  <2>3. ASSUME NEW e \in Emails, Cancel(e) PROVE ClaimInv'
    <3>1. \A x \in Emails : SameRow(x) \/ Unowned(x)
      BY <2>3, PutUnowned DEF Cancel, Reachable
    <3> QED BY <2>3, <3>1, Quiet DEF Cancel, LanesLetGo, rows, queue, quota, bounds
  <2>4. ASSUME NEW e \in Emails, NEW at \in ScheduleTimes \ {NoTime}, Move(e, at) PROVE ClaimInv'
    <3>1. \A x \in Emails : SameRow(x) \/ Unowned(x)
      BY <2>4, PutUnowned DEF Move, Reachable
    <3> QED BY <2>4, <3>1, Quiet DEF Move, LanesLetGo, rows, queue, quota, bounds
  <2>5. ASSUME NEW e \in Emails, DeleteDomain(e) PROVE ClaimInv'
    <3>1. \A x \in Emails : SameRow(x) \/ Unowned(x)
      BY <2>5, PutUnowned DEF DeleteDomain, Waiting, CanEnd, CanTransition
    <3> QED BY <2>5, <3>1, Quiet DEF DeleteDomain, LanesLetGo, rows, queue, quota, bounds
  <2>6. ASSUME NEW e \in Emails, CancelHeld(e) PROVE ClaimInv'
    <3>1. \A x \in Emails : SameRow(x) \/ Unowned(x)
      BY <2>6, PutUnowned DEF CancelHeld, Waiting, CanEnd, CanTransition
    <3> QED BY <2>6, <3>1, Quiet DEF CancelHeld, LanesLetGo, rows, queue, quota, bounds
  <2>7. ASSUME NEW r \in Recipients, Suppress(r) PROVE ClaimInv'
    <3> QED BY <2>7, Quiet DEF Suppress, LanesLetGo, SameRow, rows, queue, quota, bounds
  <2>8. ASSUME NEW l \in Lanes, NEW e \in Emails, FetchNew(l, e) PROVE ClaimInv'
    <3>1. LanesLetGo
      BY <2>8 DEF FetchNew, TypeOK, LanesOK, LaneRecords, LanesLetGo, OwnPcs, HoldPcs,
         LanePcs
    <3> QED BY <2>8, <3>1, Quiet DEF FetchNew, SameRow, rows, queue, quota, bounds
  <2>9. ASSUME NEW l \in Lanes, NEW e \in Emails, NEW k \in 1..RetryLimit, FetchRetry(l, e, k) PROVE ClaimInv'
    <3>1. LanesLetGo
      BY <2>9 DEF FetchRetry, TypeOK, LanesOK, LaneRecords, LanesLetGo, OwnPcs, HoldPcs,
         LanePcs
    <3> QED BY <2>9, <3>1, Quiet DEF FetchRetry, SameRow, rows, queue, quota, bounds
  <2>10. ASSUME NEW l \in Lanes, Throw(l) PROVE ClaimInv'
    <3>1. LanesLetGo
      BY <2>10, FinishLets DEF Throw
    <3> QED BY <2>10, <3>1, Quiet DEF Throw, SameRow, rows, queue, quota, bounds
  <2>11. ASSUME NEW l \in Lanes, Expire(l) PROVE ClaimInv'
    <3>1. LanesLetGo
      BY <2>11 DEF Expire, TypeOK, LanesOK, LaneRecords, LanesLetGo, OwnPcs, HoldPcs,
         LanePcs
    <3> QED BY <2>11, <3>1, Quiet DEF Expire, SameRow, rows, queue, quota, bounds
  <2>12. ASSUME NEW l \in Lanes, ReadRow(l) PROVE ClaimInv'
    <3>1. LanesLetGo
      BY <2>12, FinishLets DEF ReadRow, TypeOK, LanesOK, LaneRecords, LanesLetGo, OwnPcs,
         HoldPcs, LanePcs
    <3> QED BY <2>12, <3>1, Quiet DEF ReadRow, SameRow, rows, queue, quota, bounds
  <2>13. ASSUME NEW l \in Lanes, CheckEligible(l) PROVE ClaimInv'
    <3>1. lane[l].email \in Emails
      BY <2>13 DEF CheckEligible, TypeOK, LanesOK
    <3>2. \A x \in Emails : SameRow(x) \/ Unowned(x)
      BY <2>13, <3>1, RefuseQuiet, StrippedQuiet DEF CheckEligible, SameRow
    <3>3. LanesLetGo
      BY <2>13, FinishLets DEF CheckEligible, TypeOK, LanesOK, LaneRecords, LanesLetGo,
         OwnPcs, HoldPcs, LanePcs
    <3> QED BY <2>13, <3>2, <3>3, Quiet DEF CheckEligible, rows, queue, quota, bounds
  <2>14. ASSUME NEW l \in Lanes, Render(l) PROVE ClaimInv'
    <3>1. LanesLetGo
      BY <2>14, FinishLets, GotoLets DEF Render, ComeBack, OwnPcs, HoldPcs, LanePcs
    <3> QED BY <2>14, <3>1, Quiet DEF Render, SameRow, rows, queue, quota, bounds
  <2>15. ASSUME NEW l \in Lanes, Recheck(l) PROVE ClaimInv'
    <3>1. lane[l].email \in Emails
      BY <2>15 DEF Recheck, TypeOK, LanesOK
    <3>2. \A x \in Emails : SameRow(x) \/ Unowned(x)
      BY <2>15, <3>1, RefuseQuiet, StrippedQuiet DEF Recheck, SameRow
    <3>3. LanesLetGo
      BY <2>15, FinishLets, GotoLets DEF Recheck, OwnPcs, HoldPcs, LanePcs
    <3> QED BY <2>15, <3>2, <3>3, Quiet DEF Recheck, rows, queue, quota, bounds
  <2>16. ASSUME NEW l \in Lanes, Park(l) PROVE ClaimInv'
    <3>1. lane[l].email \in Emails
      BY <2>16 DEF Park, TypeOK, LanesOK
    <3>2. \A x \in Emails : SameRow(x) \/ Unowned(x)
      BY <2>16, <3>1, PutUnowned DEF Park, SameRow, Waiting, CanEnd, CanTransition
    <3>3. LanesLetGo
      BY <2>16, FinishLets DEF Park
    <3> QED BY <2>16, <3>2, <3>3, Quiet DEF Park, rows, queue, quota, bounds
  <2>17. ASSUME NEW d \in Drains, DrainPage(d) PROVE ClaimInv'
    <3> QED BY <2>17, Quiet DEF DrainPage, LanesLetGo, SameRow, rows, queue, quota, bounds
  <2>18. ASSUME NEW d \in Drains, NEW m \in drain[d].page, DrainRelease(d, m) PROVE ClaimInv'
    <3>1. \A x \in Emails : SameRow(x) \/ Unowned(x)
      BY <2>18, PutUnowned DEF DrainRelease, SameRow, TypeOK, DrainsOK, DrainRecords,
         ParkedRows, Waiting, CanEnd, CanTransition
    <3> QED BY <2>18, <3>1, Quiet DEF DrainRelease, LanesLetGo, rows, queue, quota, bounds
  <2>19. ASSUME NEW d \in Drains, DrainEnqueue(d) PROVE ClaimInv'
    <3> QED BY <2>19, Quiet DEF DrainEnqueue, LanesLetGo, SameRow, rows, queue, quota,
       bounds
  <2>20. ASSUME NEW d \in Drains, NEW m \in drain[d].moved, DrainRepark(d, m) PROVE ClaimInv'
    <3>1. \A x \in Emails : SameRow(x) \/ Unowned(x)
      BY <2>20, PutUnowned DEF DrainRepark, SameRow, TypeOK, DrainsOK, DrainRecords,
         ParkedRows, Waiting, CanEnd, CanTransition
    <3> QED BY <2>20, <3>1, Quiet DEF DrainRepark, LanesLetGo, rows, queue, quota, bounds
  <2>21. ASSUME NEW d \in Drains, DrainRefund(d) PROVE ClaimInv'
    <3> QED BY <2>21, Quiet DEF DrainRefund, LanesLetGo, SameRow, rows, queue, quota, bounds
  <2>22. ASSUME NEW d \in Drains, DrainStop(d) PROVE ClaimInv'
    <3> QED BY <2>22, Quiet DEF DrainStop, LanesLetGo, SameRow, rows, queue, quota, bounds
  <2>23. ASSUME NEW e \in Emails, DeadLetter(e) PROVE ClaimInv'
    <3>1. \A x \in Emails : SameRow(x) \/ Unowned(x)
      BY <2>23, PutUnowned DEF DeadLetter, SameRow, Waiting, CanEnd, CanTransition
    <3> QED BY <2>23, <3>1, Quiet DEF DeadLetter, LanesLetGo, rows, queue, quota, bounds
  <2>24. ASSUME NEW e \in Emails, Requeue(e) PROVE ClaimInv'
    <3> QED BY <2>24, Quiet DEF Requeue, LanesLetGo, SameRow, rows, queue, quota, bounds
  <2>25. CASE Tick
    <3> QED BY <2>25, Quiet DEF Tick, LanesLetGo, SameRow, rows, queue, quota, bounds
  <2>26. CASE UNCHANGED vars
    <3> QED BY <2>26, Quiet DEF vars, LanesLetGo, SameRow, rows, queue, quota, bounds
  <2>27. ASSUME NEW e \in Emails, NEW to \in SUBSET Recipients, NEW at \in ScheduleTimes,
               Accept(e, to, at) PROVE ClaimInv'
    <3>1. Unowned(e)
      BY <2>27, AbsentUnowned DEF Accept
    <3>2. \A x \in Emails : SameRow(x) \/ Unowned(x)
      BY <2>27, <3>1 DEF Accept, Put, SameRow, TypeOK, RowsOK
    <3> QED BY <2>27, <3>2, Quiet DEF Accept, LanesLetGo, rows, queue, quota, bounds
  <2>41. ASSUME NEW e \in Emails, NEW to \in SUBSET Recipients, RecordSuppressed(e, to)
         PROVE  ClaimInv'
    <3>1. Unowned(e)
      BY <2>41, AbsentUnowned DEF RecordSuppressed
    <3>2. \A x \in Emails : SameRow(x) \/ Unowned(x)
      BY <2>41, <3>1 DEF RecordSuppressed, Put, SameRow, TypeOK, RowsOK
    <3> QED BY <2>41, <3>2, Quiet DEF RecordSuppressed, LanesLetGo, queue, quota, bounds
  <2>28. ASSUME NEW l \in Lanes, Claim(l) PROVE ClaimInv'
    <3> DEFINE e == lane[l].email
    <3>1. e \in Emails
      BY <2>28 DEF Claim, TypeOK, LanesOK
    <3>2. CASE ~CanTransition(row[e], "queued")
      BY <2>28, <3>2, FinishLets, Quiet DEF Claim, SameRow, rows, queue, quota, bounds
    <3>3. CASE CanTransition(row[e], "queued")
      <4>1. Unowned(e)
        BY <3>1, <3>3, WaitingUnowned DEF CanTransition, Waiting
      <4>2. /\ row' = [row EXCEPT ![e] = [row[e] EXCEPT !.sentAt = now]]
            /\ lane' = [lane EXCEPT ![l].pc = "submit"]
            /\ UNCHANGED <<took, told, event>>
        BY <2>28, <3>3 DEF Claim, Put, Goto
      <4>3. row'[e].status = "queued" /\ ~Unclaimed(row'[e])
        BY <3>1, <3>3, <4>2 DEF CanTransition, Unclaimed, TypeOK, RowsOK, Rows, ClockOK,
           Times, NoTime
      <4>4. \A m \in Lanes : /\ m # l => lane'[m] = lane[m]
                             /\ lane'[m].email = lane[m].email
                             /\ lane'[l].pc = "submit"
        BY <4>2 DEF TypeOK, LanesOK, LaneRecords
      <4>5. \A x \in Emails : x # e => row'[x] = row[x]
        BY <4>2
      <4>6. OneOwner'
        BY <4>1, <4>4 DEF ClaimInv, OneOwner, Unowned
      <4>7. OwnerKnows'
        <5>1. ASSUME NEW m \in Lanes, m # l PROVE lane'[m].pc \in OwnPcs => lane[m].email \in Emails /\ lane[m].email # e
          BY <4>1, <4>4, <5>1 DEF Unowned, OwnPcs, HoldPcs, TypeOK, LanesOK
        <5> QED BY <4>1, <4>2, <4>3, <4>4, <4>5, <5>1 DEF ClaimInv, OwnerKnows, Unowned,
           OwnPcs, HoldPcs
      <4>8. TakenStays' /\ EventTaken'
        BY <4>1, <4>2, <4>5 DEF ClaimInv, TakenStays, EventTaken, Unowned
      <4> QED BY <4>6, <4>7, <4>8 DEF ClaimInv
    <3> QED BY <3>2, <3>3
  <2>29. ASSUME NEW l \in Lanes, SesTakes(l) PROVE ClaimInv'
    <3> DEFINE e == lane[l].email
    <3>1. e \in Emails /\ took[e] = 0 /\ told[e] = 0
      BY <2>29 DEF SesTakes, TypeOK, LanesOK, ClaimInv, OwnerKnows, OwnPcs, HoldPcs
    <3>2. /\ took' = [took EXCEPT ![e] = 1] /\ Goto(l, "record")
          /\ UNCHANGED <<row, told, event>>
      BY <2>29, <3>1 DEF SesTakes, TypeOK, ClockOK
    <3>3. GotoEffect(l, "record")
      BY <3>2, GotoMoves
    <3>4. \A m \in Lanes : m # l /\ lane[m].pc \in OwnPcs => lane[m].email # e
      BY <2>29 DEF SesTakes, ClaimInv, OneOwner, OwnPcs, HoldPcs
    <3>5. OneOwner'
      BY <2>29, <3>3 DEF SesTakes, ClaimInv, OneOwner, GotoEffect, OwnPcs, HoldPcs
    <3>6. OwnerKnows'
      <4>1. \A m \in Lanes : lane[m].pc \in OwnPcs => lane[m].email \in Emails
        BY DEF TypeOK, LanesOK, OwnPcs, HoldPcs
      <4> QED BY <3>1, <3>2, <3>3, <3>4, <4>1 DEF ClaimInv, OwnerKnows, GotoEffect,
         OwnPcs, HoldPcs, TypeOK, ClockOK
    <3>7. TakenStays'
      <4>1. (row[e].status = "queued" /\ ~Unclaimed(row[e])) \/ Interrupted(row[e])
        BY <2>29 DEF SesTakes, ClaimInv, OwnerKnows, HoldPcs
      <4> QED BY <3>1, <3>2, <4>1 DEF ClaimInv, TakenStays, Interrupted, TypeOK, ClockOK,
         SesStatuses
    <3>8. EventTaken'
      BY <3>1, <3>2 DEF ClaimInv, EventTaken, TypeOK, ClockOK, EventOK
    <3> QED BY <3>5, <3>6, <3>7, <3>8 DEF ClaimInv
  <2>30. ASSUME NEW l \in Lanes, SesRefuses(l) PROVE ClaimInv'
    <3>1. PICK pc \in {"failHeld", "release"} : Goto(l, pc)
      BY <2>30 DEF SesRefuses
    <3>2. GotoEffect(l, pc) /\ UNCHANGED <<row, took, told, event>> /\ lane[l].pc = "submit"
      BY <2>30, <3>1, GotoMoves DEF SesRefuses, rows
    <3>3. OneOwner' /\ OwnerKnows'
      BY <3>2 DEF ClaimInv, OneOwner, OwnerKnows, GotoEffect, OwnPcs, HoldPcs
    <3> QED BY <3>2, <3>3 DEF ClaimInv, TakenStays, EventTaken
  <2>31. ASSUME NEW l \in Lanes, SesDeadline(l) PROVE ClaimInv'
    <3> DEFINE e == lane[l].email
    <3>1. e \in Emails /\ took[e] = 0 /\ told[e] = 0
      BY <2>31 DEF SesDeadline, TypeOK, LanesOK, ClaimInv, OwnerKnows, OwnPcs, HoldPcs
    <3>2. PICK k \in {0, 1} : took' = [took EXCEPT ![e] = k]
      <4>1. PICK k \in {0, 1} : took' = [took EXCEPT ![e] = took[e] + k]
        BY <2>31 DEF SesDeadline
      <4>2. took[e] + k = k
        BY <3>1
      <4> QED BY <4>1, <4>2
    <3>3. LanesLetGo /\ UNCHANGED <<row, told, event>>
      BY <2>31, FinishLets DEF SesDeadline
    <3>4. lane'[l].pc = "idle" /\ \A m \in Lanes : m # l => lane'[m] = lane[m]
      BY <2>31 DEF SesDeadline, Finish, IdleLane, TypeOK, LanesOK
    <3>5. \A m \in Lanes : m # l /\ lane[m].pc \in OwnPcs =>
            lane[m].email # e /\ lane[m].email \in Emails
      BY <2>31 DEF SesDeadline, ClaimInv, OneOwner, OwnPcs, HoldPcs, TypeOK, LanesOK
    <3>6. OneOwner'
      BY <3>3 DEF ClaimInv, OneOwner, LanesLetGo
    <3>7. OwnerKnows'
      BY <3>2, <3>3, <3>4, <3>5 DEF ClaimInv, OwnerKnows, OwnPcs, HoldPcs, TypeOK, ClockOK
    <3>8. TakenStays'
      <4>1. (row[e].status = "queued" /\ ~Unclaimed(row[e])) \/ Interrupted(row[e])
        BY <2>31 DEF SesDeadline, ClaimInv, OwnerKnows, HoldPcs
      <4> QED BY <3>1, <3>2, <3>3, <4>1 DEF ClaimInv, TakenStays, Interrupted, TypeOK,
         ClockOK, SesStatuses
    <3>9. EventTaken'
      BY <3>1, <3>2, <3>3 DEF ClaimInv, EventTaken, TypeOK, ClockOK, EventOK
    <3> QED BY <3>6, <3>7, <3>8, <3>9 DEF ClaimInv
  <2>32. ASSUME NEW l \in Lanes, ReleaseClaim(l) PROVE ClaimInv'
    <3> DEFINE e == lane[l].email
    <3>1. e \in Emails /\ took[e] = 0 /\ told[e] = 0
      BY <2>32 DEF ReleaseClaim, TypeOK, LanesOK, ClaimInv, OwnerKnows, OwnPcs, HoldPcs
    <3>2. lane'[l].pc \notin OwnPcs /\ \A m \in Lanes : m # l => lane'[m] = lane[m]
      BY <2>32 DEF ReleaseClaim, Finish, Goto, IdleLane, TypeOK, LanesOK, LaneRecords,
         OwnPcs, HoldPcs
    <3>3. UNCHANGED <<took, told, event>> /\ \A x \in Emails : x # e => row'[x] = row[x]
      <4>1. UNCHANGED <<took, told, event>>
        BY <2>32 DEF ReleaseClaim
      <4>2. UNCHANGED row \/ row' = [row EXCEPT ![e] = [row[e] EXCEPT !.sentAt = NoTime]]
        BY <2>32 DEF ReleaseClaim, Put
      <4>3. row \in [Emails -> Rows(Times)]
        BY DEF TypeOK, RowsOK
      <4> QED BY <3>1, <4>1, <4>2, <4>3
    <3>4. \A m \in Lanes : m # l /\ lane[m].pc \in OwnPcs =>
            lane[m].email # e /\ lane[m].email \in Emails
      BY <2>32 DEF ReleaseClaim, ClaimInv, OneOwner, OwnPcs, HoldPcs, TypeOK, LanesOK
    <3>5. OneOwner' /\ OwnerKnows'
      BY <3>2, <3>3, <3>4 DEF ClaimInv, OneOwner, OwnerKnows, OwnPcs, HoldPcs
    <3>6. TakenStays' /\ EventTaken'
      BY <3>1, <3>3 DEF ClaimInv, TakenStays, EventTaken
    <3> QED BY <3>5, <3>6 DEF ClaimInv
  <2>33. ASSUME NEW l \in Lanes, Fail(l) PROVE ClaimInv'
    <3> DEFINE e == lane[l].email
    <3>1. e \in Emails
      BY <2>33 DEF Fail, TypeOK, LanesOK
    <3>2. LanesLetGo /\ UNCHANGED <<took, told, event>>
      BY <2>33, FinishLets DEF Fail
    <3>3. CASE UNCHANGED row
      BY <3>2, <3>3, Quiet DEF SameRow
    <3>4. CASE lane[l].pc = "fail" /\ ~UNCHANGED row
      <4>1. \A x \in Emails : SameRow(x) \/ Unowned(x)
        BY <2>33, <3>1, <3>4, PutUnowned DEF Fail, CanEnd
      <4> QED BY <4>1, <3>2, Quiet
    <3>5. CASE lane[l].pc = "failHeld" /\ ~UNCHANGED row
      <4>1. took[e] = 0 /\ told[e] = 0
        BY <3>1, <3>5 DEF ClaimInv, OwnerKnows, OwnPcs, HoldPcs
      <4>2. lane'[l].pc \notin OwnPcs /\ \A m \in Lanes : m # l => lane'[m] = lane[m]
        BY <2>33 DEF Fail, Finish, IdleLane, TypeOK, LanesOK, OwnPcs, HoldPcs
      <4>3. \A x \in Emails : x # e => row'[x] = row[x]
        <5>1. row' = [row EXCEPT ![e] = Ended(row[e], "failed", "refused")]
          BY <2>33, <3>5 DEF Fail, Put
        <5> QED BY <5>1
      <4>4. \A m \in Lanes : m # l /\ lane[m].pc \in OwnPcs =>
              lane[m].email # e /\ lane[m].email \in Emails
        BY <3>5 DEF ClaimInv, OneOwner, OwnPcs, HoldPcs, TypeOK, LanesOK
      <4>5. OneOwner' /\ OwnerKnows'
        BY <3>2, <4>2, <4>3, <4>4 DEF ClaimInv, OneOwner, OwnerKnows, OwnPcs, HoldPcs
      <4>6. TakenStays' /\ EventTaken'
        BY <3>2, <4>1, <4>3 DEF ClaimInv, TakenStays, EventTaken
      <4> QED BY <4>5, <4>6 DEF ClaimInv
    <3> QED BY <2>33, <3>3, <3>4, <3>5 DEF Fail
  <2>34. ASSUME NEW l \in Lanes, Record(l) PROVE ClaimInv'
    <3>1. GotoEffect(l, "flip") /\ UNCHANGED <<took, told, event>> /\ lane[l].pc = "record"
      BY <2>34, GotoMoves DEF Record
    <3>2. \A x \in Emails : SameRow(x)
      BY <2>34 DEF Record, Put, SameRow, TypeOK, RowsOK, Rows, LanesOK
    <3>3. OneOwner'
      BY <3>1 DEF ClaimInv, OneOwner, GotoEffect, OwnPcs, HoldPcs
    <3>4. OwnerKnows'
      <4>1. \A m \in Lanes : lane[m].pc \in OwnPcs => lane[m].email \in Emails
        BY DEF TypeOK, LanesOK, OwnPcs, HoldPcs
      <4> QED BY <3>1, <3>2, <4>1 DEF ClaimInv, OwnerKnows, GotoEffect, SameRow, Unclaimed,
         Interrupted, OwnPcs, HoldPcs
    <3>5. TakenStays' /\ EventTaken'
      BY <3>1, <3>2 DEF ClaimInv, TakenStays, EventTaken, SameRow, Unclaimed
    <3> QED BY <3>3, <3>4, <3>5 DEF ClaimInv
  <2>35. ASSUME NEW l \in Lanes, FlipSent(l) PROVE ClaimInv'
    <3> DEFINE e == lane[l].email
    <3>1. /\ e \in Emails /\ GotoEffect(l, "count") /\ UNCHANGED <<took, told, event>>
          /\ lane[l].pc = "flip" /\ took[e] = 1
      BY <2>35, GotoMoves DEF FlipSent, TypeOK, LanesOK, ClaimInv, OwnerKnows, OwnPcs,
         HoldPcs
    <3>2. \A x \in Emails : x # e => row'[x] = row[x]
      BY <2>35 DEF FlipSent, Put
    <3>3. /\ row'[e].sentAt = row[e].sentAt /\ row'[e].why = row[e].why
          /\ row'[e].status \in {row[e].status, "sent"}
          /\ row[e].status = "failed" => row'[e].status = "failed"
      BY <2>35, <3>1 DEF FlipSent, Put, StatusCas, Climbs, Rank, TypeOK, RowsOK, Rows
    <3>4. OneOwner'
      BY <3>1 DEF ClaimInv, OneOwner, GotoEffect, OwnPcs, HoldPcs
    <3>5. OwnerKnows'
      <4>1. \A m \in Lanes : m # l /\ lane[m].pc \in OwnPcs =>
              lane[m].email # e /\ lane[m].email \in Emails
        BY <3>1 DEF ClaimInv, OneOwner, OwnPcs, HoldPcs, TypeOK, LanesOK
      <4> QED BY <3>1, <3>2, <4>1 DEF ClaimInv, OwnerKnows, GotoEffect, OwnPcs, HoldPcs
    <3>6. TakenStays' /\ EventTaken'
      BY <3>1, <3>2, <3>3 DEF ClaimInv, TakenStays, EventTaken, Unclaimed, SesStatuses
    <3> QED BY <3>4, <3>5, <3>6 DEF ClaimInv
  <2>36. ASSUME NEW l \in Lanes, CountSent(l) PROVE ClaimInv'
    <3> DEFINE e == lane[l].email
    <3>1. e \in Emails /\ took[e] = 1 /\ told[e] = 0 /\ UNCHANGED <<row, took, event>>
      BY <2>36 DEF CountSent, TypeOK, LanesOK, ClaimInv, OwnerKnows, OwnPcs, HoldPcs
    <3>2. lane'[l].pc \notin OwnPcs /\ \A m \in Lanes : m # l => lane'[m] = lane[m]
      BY <2>36 DEF CountSent, Finish, IdleLane, TypeOK, LanesOK, OwnPcs, HoldPcs
    <3>3. told' = [told EXCEPT ![e] = 1]
      BY <2>36, <3>1 DEF CountSent, TypeOK, ClockOK
    <3>4. \A m \in Lanes : m # l /\ lane[m].pc \in OwnPcs =>
            lane[m].email # e /\ lane[m].email \in Emails
      BY <2>36 DEF CountSent, ClaimInv, OneOwner, OwnPcs, HoldPcs, TypeOK, LanesOK
    <3>5. OneOwner' /\ OwnerKnows'
      BY <3>1, <3>2, <3>3, <3>4 DEF ClaimInv, OneOwner, OwnerKnows, OwnPcs, HoldPcs
    <3>6. TakenStays' /\ EventTaken'
      BY <3>1, <3>3 DEF ClaimInv, TakenStays, EventTaken, TypeOK, ClockOK
    <3> QED BY <3>5, <3>6 DEF ClaimInv
  <2>37. ASSUME NEW e \in Emails, NEW m \in 1..took[e], NEW s \in EventStatuses, LookUp(e, m, s)
        PROVE ClaimInv'
    <3>1. UNCHANGED <<row, took, told, lane>> /\ event'.email = e
      BY <2>37 DEF LookUp, rows
    <3>2. took[e] = 1
      BY DEF ClaimInv, TakenStays
    <3> QED BY <3>1, <3>2 DEF ClaimInv, OneOwner, OwnerKnows, TakenStays, EventTaken
  <2>38. CASE ApplyEvent
    <3> DEFINE e == event.email
               r == row[e]
               joined == IF event.byTag THEN [r EXCEPT !.sesId = event.msg] ELSE r
               next == [joined EXCEPT !.why = IF Climbs(r, event.status) THEN "ses_event" ELSE joined.why]
    <3>1. /\ e \in Emails /\ took[e] = 1 /\ event.status \in SesStatuses
          /\ UNCHANGED <<took, told, lane>> /\ event'.pc = "idle"
      BY <2>38 DEF ApplyEvent, TypeOK, EventOK, ClaimInv, EventTaken, NoEvent
    <3>2. LanesLetGo
      BY <3>1 DEF LanesLetGo
    <3>3. CASE UNCHANGED row
      BY <3>1, <3>2, <3>3, Quiet DEF SameRow
    <3>4. CASE Put(e, StatusCas(next, event.status))
      <4>1. r \in Rows(Times)
        BY <3>1 DEF TypeOK, RowsOK
      <4>2. joined \in [status : Statuses \cup {"absent"}, createdAt : Times \cup {NoTime},
                        scheduledAt : Times \cup {NoTime}, sentAt : Times \cup {NoTime},
                        sesId : Nat, to : SUBSET Recipients, why : Reasons]
            /\ joined.status = r.status /\ joined.sentAt = r.sentAt /\ joined.why = r.why
        BY <4>1 DEF Rows, TypeOK, EventOK
      <4>3. /\ next.status = r.status /\ next.sentAt = r.sentAt
            /\ next.why = IF Climbs(r, event.status) THEN "ses_event" ELSE r.why
        BY <4>2
      <4>4. Climbs(next, event.status) <=> Climbs(r, event.status)
        BY <4>3 DEF Climbs
      <4>5. \A x \in Emails : x # e => row'[x] = row[x]
        BY <3>4 DEF Put
      <4>6. row'[e] = StatusCas(next, event.status)
        BY <3>1, <3>4 DEF Put, TypeOK, RowsOK
      <4>7. CASE Climbs(r, event.status)
        <5>1. row'[e].status = event.status /\ row'[e].sentAt = r.sentAt /\ row'[e].why = "ses_event"
          BY <4>2, <4>3, <4>4, <4>6, <4>7 DEF StatusCas
        <5>2. r.status # "failed" \/ row'[e].status = "failed"
          BY <3>1, <4>7 DEF Climbs, Rank, SesStatuses
        <5>3. TakenStays'
          BY <3>1, <4>5, <5>1, <5>2 DEF ClaimInv, TakenStays, Unclaimed
        <5>4. OneOwner' /\ EventTaken'
          BY <3>1 DEF ClaimInv, OneOwner, EventTaken
        <5>5. OwnerKnows'
          <6>1. \A m \in Lanes : lane[m].pc \in HoldPcs => lane[m].email # e /\ lane[m].email \in Emails
            BY <3>1 DEF ClaimInv, OwnerKnows, HoldPcs, TypeOK, LanesOK
          <6> QED BY <3>1, <4>5, <6>1 DEF ClaimInv, OwnerKnows
        <5> QED BY <5>3, <5>4, <5>5 DEF ClaimInv
      <4>8. CASE ~Climbs(r, event.status)
        <5>1. \A x \in Emails : SameRow(x)
          BY <4>3, <4>4, <4>5, <4>6, <4>8 DEF StatusCas, SameRow
        <5> QED BY <3>1, <3>2, <5>1, Quiet
      <4> QED BY <4>7, <4>8
    <3> QED BY <2>38, <3>3, <3>4 DEF ApplyEvent
  <2>40. \A l \in Lanes : ~SesTakesUnnamed(l)
    <3>1. \A l \in Lanes : lane[l].pc # "idle" => took[lane[l].email] \in Nat
      BY DEF TypeOK, LanesOK, ClockOK
    <3> QED BY <3>1 DEF SesTakesUnnamed
  <2>39. ASSUME NEW e \in Emails, FailStalled(e) PROVE ClaimInv'
    <3>1. UNCHANGED <<took, told, lane, event>>
      BY <2>39 DEF FailStalled
    <3>2. \A x \in Emails : x # e => row'[x] = row[x]
      BY <2>39 DEF FailStalled, Put
    <3>3. Interrupted(row'[e])
      BY <2>39 DEF FailStalled, Put, Ended, Interrupted, TypeOK, RowsOK, Rows
    <3>4. OneOwner' /\ EventTaken'
      BY <3>1 DEF ClaimInv, OneOwner, EventTaken
    <3>5. OwnerKnows'
      <4>1. \A m \in Lanes : lane[m].pc \in OwnPcs => lane[m].email \in Emails
        BY DEF TypeOK, LanesOK, OwnPcs, HoldPcs
      <4> QED BY <3>1, <3>2, <3>3, <4>1 DEF ClaimInv, OwnerKnows, OwnPcs
    <3>6. TakenStays'
      BY <3>1, <3>2, <3>3 DEF ClaimInv, TakenStays, Interrupted, SesStatuses
    <3> QED BY <3>4, <3>5, <3>6 DEF ClaimInv
  <2> QED
    BY <2>1, <2>2, <2>3, <2>4, <2>5, <2>6, <2>7, <2>8, <2>9, <2>10, <2>11, <2>12, <2>13,
       <2>14, <2>15, <2>16, <2>17, <2>18, <2>19, <2>20, <2>21, <2>22, <2>23, <2>24,
       <2>25, <2>26, <2>27, <2>28, <2>29, <2>30, <2>31, <2>32, <2>33, <2>34, <2>35,
       <2>36, <2>37, <2>38, <2>39, <2>40, <2>41
    DEF Next, ApiStep, CronStep, LaneStep, LaneWork, EventStep, DrainStep
<1> QED BY <1>1, <1>2, Typing, PTL DEF Spec

-----------------------------------------------------------------------------
(* What the claim buys.                                                      *)

(* No email is handed to SES twice, whatever the lanes, retries, expired     *)
(* jobs, crashes and sweeps do around the claim of sendQueued.               *)
THEOREM SendsOnce ==
  ASSUME MaxUnnamed = 0
  PROVE  Spec => []AtMostOneSend
<1>1. ClaimInv => AtMostOneSend
  BY DEF ClaimInv, TakenStays, AtMostOneSend
<1> QED BY <1>1, Claims, PTL

(* An email is counted and announced as sent at most once, and only after    *)
(* SES took it.                                                              *)
THEOREM TellsOnce ==
  ASSUME MaxUnnamed = 0
  PROVE  Spec => []ToldOnce
<1>1. ClaimInv => ToldOnce
  BY DEF ClaimInv, TakenStays, ToldOnce
<1> QED BY <1>1, Claims, PTL

(* Mail reported canceled or suppressed was never with SES.                  *)
THEOREM EndsUnsent ==
  ASSUME MaxUnnamed = 0
  PROVE  Spec => []EndedUnsent
<1>1. ClaimInv => EndedUnsent
  BY DEF ClaimInv, TakenStays, EndedUnsent, SesStatuses
<1> QED BY <1>1, Claims, PTL

(* Mail reported failed although SES took it was interrupted after its       *)
(* claim, or reported failed by SES.                                         *)
THEOREM FailsUnsent ==
  ASSUME MaxUnnamed = 0
  PROVE  Spec => []FailedUnsent
<1>1. ClaimInv => FailedUnsent
  BY DEF ClaimInv, TakenStays, FailedUnsent
<1> QED BY <1>1, Claims, PTL

-----------------------------------------------------------------------------
(* EmailSend implements EmailPromise.                                        *)

FateStep ==
  [Promise!Next]_<<[e \in Emails |-> Fate(row[e])], took>>

(* A write of one row is a step of the promise when the fate it reports may  *)
(* follow the fate the row had.                                              *)
MayFollow(e, f) ==
  \/ f = Fate(row[e])
  \/ f = "accepted" /\ Fate(row[e]) = "none"
  \/ f = "withdrawn" /\ Fate(row[e]) \in {"none", "accepted"} /\ took[e] = 0
  \/ f = "sent" /\ Fate(row[e]) = "accepted" /\ took[e] = 1
  \/ f = "failed" /\ Fate(row[e]) \in {"accepted", "sent"}

LEMMA PutFate ==
  ASSUME TypeOK, NEW e \in Emails, NEW r, Put(e, r), took' = took, MayFollow(e, Fate(r))
  PROVE  FateStep
<1> DEFINE fate == [x \in Emails |-> Fate(row[x])]
<1>1. fate' = [fate EXCEPT ![e] = Fate(r)]
  BY DEF Put, TypeOK, RowsOK
<1>2. fate[e] = Fate(row[e])
  OBVIOUS
<1>3. CASE Fate(r) = Fate(row[e])
  <2>1. fate' = fate
    BY <1>1, <1>2, <1>3
  <2> QED BY <2>1 DEF FateStep
<1>4. CASE Fate(r) # Fate(row[e])
  <2>1. \/ Promise!Accept(e) \/ Promise!Withdraw(e) \/ Promise!ReportSent(e)
        \/ Promise!ReportFailed(e)
    BY <1>1, <1>2, <1>4 DEF MayFollow, Promise!Accept, Promise!Withdraw, Promise!ReportSent,
       Promise!ReportFailed, Promise!Report
  <2> QED BY <2>1 DEF FateStep, Promise!Next
<1> QED BY <1>3, <1>4

LEMMA SameFate ==
  ASSUME UNCHANGED <<row, took>>
  PROVE  FateStep
BY DEF FateStep

(* SES takes a message of an email not yet with it.                          *)
LEMMA LeaveFate ==
  ASSUME TypeOK, NEW e \in Emails, row' = row, took[e] = 0,
         took' = [took EXCEPT ![e] = 1], Fate(row[e]) \in {"accepted", "failed"}
  PROVE  FateStep
<1> DEFINE fate == [x \in Emails |-> Fate(row[x])]
<1>1. fate' = fate /\ fate[e] = Fate(row[e])
  OBVIOUS
<1>2. Promise!Leave(e)
  BY <1>1 DEF Promise!Leave
<1> QED BY <1>2 DEF FateStep, Promise!Next

(* The fate of a held row: it waits, or was written off.                     *)
LEMMA HeldFate ==
  ASSUME TypeOK, ClaimInv, NEW l \in Lanes, lane[l].pc \in HoldPcs
  PROVE  /\ lane[l].email \in Emails /\ took[lane[l].email] = 0
         /\ Fate(row[lane[l].email]) \in {"accepted", "failed"}
BY DEF ClaimInv, OwnerKnows, Interrupted, Fate, Waiting, HoldPcs, TypeOK, LanesOK

(* A waiting row nobody claimed may be withdrawn, failed or parked.          *)
LEMMA WaitingFate ==
  ASSUME TypeOK, ClaimInv, NEW e \in Emails, row[e].status \in Waiting, Unclaimed(row[e])
  PROVE  Fate(row[e]) = "accepted" /\ took[e] = 0
BY WaitingUnowned DEF Unowned, Fate, Waiting

(* Cancel, suppression, sends, sweeps and SES events interleave as if each   *)
(* email had one owner: it leaves at most once, withdrawn mail never leaves, *)
(* and mail reported sent has left.                                          *)
THEOREM Implements ==
  ASSUME MaxUnnamed = 0
  PROVE  Spec => KeepsPromise
<1>1. Init => Promise!Init
  <2> SUFFICES ASSUME Init PROVE Promise!Init
    OBVIOUS
  <2>1. Fate(AbsentRow) = "none"
    <3>1. AbsentRow.status = "absent"
      BY DEF AbsentRow
    <3> QED BY <3>1 DEF Fate, Waiting
  <2>2. [e \in Emails |-> Fate(row[e])] = [e \in Emails |-> "none"]
    BY <2>1 DEF Init
  <2>3. took = [e \in Emails |-> 0]
    BY DEF Init
  <2> QED BY <2>2, <2>3 DEF Promise!Init
<1>2. TypeOK /\ ClaimInv /\ [Next]_vars => FateStep
  <2> SUFFICES ASSUME TypeOK, ClaimInv, [Next]_vars PROVE FateStep
    OBVIOUS
  <2>1. ASSUME NEW e \in Emails, Enqueue(e) PROVE FateStep
    BY <2>1, SameFate DEF Enqueue, rows
  <2>2. ASSUME NEW e \in Emails, LoseEnqueue(e) PROVE FateStep
    BY <2>2, SameFate DEF LoseEnqueue, rows
  <2>3. ASSUME NEW r \in Recipients, Suppress(r) PROVE FateStep
    BY <2>3, SameFate DEF Suppress, rows
  <2>4. ASSUME NEW l \in Lanes, NEW e \in Emails, FetchNew(l, e) PROVE FateStep
    BY <2>4, SameFate DEF FetchNew, rows
  <2>5. ASSUME NEW l \in Lanes, NEW e \in Emails, NEW k \in 1..RetryLimit, FetchRetry(l, e, k) PROVE FateStep
    BY <2>5, SameFate DEF FetchRetry, rows
  <2>6. ASSUME NEW l \in Lanes, Throw(l) PROVE FateStep
    BY <2>6, SameFate DEF Throw, rows
  <2>7. ASSUME NEW l \in Lanes, Expire(l) PROVE FateStep
    BY <2>7, SameFate DEF Expire, rows
  <2>8. ASSUME NEW l \in Lanes, ReadRow(l) PROVE FateStep
    BY <2>8, SameFate DEF ReadRow, rows
  <2>9. ASSUME NEW l \in Lanes, Render(l) PROVE FateStep
    BY <2>9, SameFate DEF Render, rows
  <2>10. ASSUME NEW l \in Lanes, SesRefuses(l) PROVE FateStep
    BY <2>10, SameFate DEF SesRefuses, rows
  <2>11. ASSUME NEW l \in Lanes, CountSent(l) PROVE FateStep
    BY <2>11, SameFate DEF CountSent, rows
  <2>12. ASSUME NEW e \in Emails, NEW m \in 1..took[e], NEW s \in EventStatuses, LookUp(e, m, s) PROVE FateStep
    BY <2>12, SameFate DEF LookUp, rows
  <2>13. ASSUME NEW d \in Drains, DrainPage(d) PROVE FateStep
    BY <2>13, SameFate DEF DrainPage, rows
  <2>14. ASSUME NEW d \in Drains, DrainEnqueue(d) PROVE FateStep
    BY <2>14, SameFate DEF DrainEnqueue, rows
  <2>15. ASSUME NEW d \in Drains, DrainRefund(d) PROVE FateStep
    BY <2>15, SameFate DEF DrainRefund, rows
  <2>16. ASSUME NEW d \in Drains, DrainStop(d) PROVE FateStep
    BY <2>16, SameFate DEF DrainStop, rows
  <2>17. ASSUME NEW e \in Emails, Requeue(e) PROVE FateStep
    BY <2>17, SameFate DEF Requeue, rows
  <2>18. CASE Tick
    BY <2>18, SameFate DEF Tick, rows
  <2>19. ASSUME NEW e \in Emails, NEW to \in SUBSET Recipients, NEW at \in ScheduleTimes, Accept(e, to, at) PROVE FateStep
    BY <2>19, PutFate DEF Accept, AbsentRow, MayFollow, Fate, Waiting
  <2>41. ASSUME NEW e \in Emails, NEW to \in SUBSET Recipients, RecordSuppressed(e, to)
         PROVE  FateStep
    <3>1. took[e] = 0
      BY <2>41, AbsentUnowned DEF RecordSuppressed, Unowned
    <3> QED BY <2>41, <3>1, PutFate DEF RecordSuppressed, AbsentRow, MayFollow, Fate, Waiting
  <2>20. ASSUME NEW e \in Emails, Cancel(e) PROVE FateStep
    BY <2>20, WaitingFate, PutFate, SameFate DEF Cancel, MayFollow, Fate, Waiting,
       TypeOK, RowsOK, Rows, CanEnd, CanTransition, Reachable
  <2>21. ASSUME NEW e \in Emails, NEW at \in ScheduleTimes \ {NoTime}, Move(e, at) PROVE FateStep
    BY <2>21, WaitingFate, PutFate, SameFate DEF Move, MayFollow, Fate, Waiting, TypeOK,
       RowsOK, Rows, CanEnd, CanTransition, Reachable
  <2>22. ASSUME NEW e \in Emails, DeleteDomain(e) PROVE FateStep
    BY <2>22, WaitingFate, PutFate, SameFate DEF DeleteDomain, MayFollow, Fate, Waiting,
       TypeOK, RowsOK, Rows, CanEnd, CanTransition, Ended
  <2>23. ASSUME NEW e \in Emails, CancelHeld(e) PROVE FateStep
    BY <2>23, WaitingFate, PutFate, SameFate DEF CancelHeld, MayFollow, Fate, Waiting,
       TypeOK, RowsOK, Rows, CanEnd, CanTransition
  <2>24. ASSUME NEW l \in Lanes, CheckEligible(l) PROVE FateStep
    <3>1. lane[l].email \in Emails
      BY <2>24 DEF CheckEligible, TypeOK, LanesOK
    <3>2. ASSUME Refuse(lane[l].email) PROVE FateStep
      BY <3>1, <3>2, WaitingFate, PutFate, SameFate, <2>24, ZenonT(60) DEF CheckEligible, Refuse,
         Ended, MayFollow, Fate, Waiting, TypeOK, RowsOK, Rows, CanEnd, CanTransition
    <3>3. ASSUME NEW to, Put(lane[l].email, Stripped(row[lane[l].email], to)) PROVE FateStep
      BY <3>1, <3>3, PutFate, <2>24 DEF CheckEligible, Stripped, MayFollow, Fate,
         Waiting, TypeOK, RowsOK, Rows
    <3> QED BY <2>24, <3>2, <3>3, SameFate DEF CheckEligible
  <2>25. ASSUME NEW l \in Lanes, Recheck(l) PROVE FateStep
    <3>1. lane[l].email \in Emails
      BY <2>25 DEF Recheck, TypeOK, LanesOK
    <3>2. ASSUME Refuse(lane[l].email) PROVE FateStep
      BY <3>1, <3>2, WaitingFate, PutFate, SameFate, <2>25, ZenonT(60) DEF Recheck, Refuse, Ended,
         MayFollow, Fate, Waiting, TypeOK, RowsOK, Rows, CanEnd, CanTransition
    <3>3. ASSUME NEW to, Put(lane[l].email, Stripped(row[lane[l].email], to)) PROVE FateStep
      BY <3>1, <3>3, PutFate, <2>25 DEF Recheck, Stripped, MayFollow, Fate, Waiting,
         TypeOK, RowsOK, Rows
    <3> QED BY <2>25, <3>2, <3>3, SameFate DEF Recheck
  <2>26. ASSUME NEW l \in Lanes, Claim(l) PROVE FateStep
    <3>1. lane[l].email \in Emails
      BY <2>26 DEF Claim, TypeOK, LanesOK
    <3> QED BY <2>26, <3>1, WaitingFate, PutFate, SameFate DEF Claim, MayFollow, Fate,
       Waiting, TypeOK, RowsOK, Rows, CanEnd, CanTransition, rows
  <2>27. ASSUME NEW l \in Lanes, SesTakes(l) PROVE FateStep
    <3>1. row' = row /\ took' = [took EXCEPT ![lane[l].email] = took[lane[l].email] + 1]
      BY <2>27 DEF SesTakes
    <3>2. /\ lane[l].email \in Emails /\ took[lane[l].email] = 0
          /\ Fate(row[lane[l].email]) \in {"accepted", "failed"}
      BY <2>27, HeldFate DEF SesTakes, HoldPcs
    <3>3. took' = [took EXCEPT ![lane[l].email] = 1]
      BY <3>1, <3>2
    <3> QED BY <3>1, <3>2, <3>3, LeaveFate
  <2>28. ASSUME NEW l \in Lanes, SesDeadline(l) PROVE FateStep
    <3>1. row' = row /\ took[lane[l].email] = 0
      BY <2>28, HeldFate DEF SesDeadline, HoldPcs
    <3>2. PICK k \in {0, 1} : took' = [took EXCEPT ![lane[l].email] = took[lane[l].email] + k]
      BY <2>28 DEF SesDeadline
    <3>3. CASE k = 0
      BY <3>1, <3>2, <3>3, SameFate DEF TypeOK, ClockOK
    <3>4. CASE k = 1
      <4>1. /\ lane[l].email \in Emails /\ took[lane[l].email] = 0
            /\ Fate(row[lane[l].email]) \in {"accepted", "failed"}
        BY <2>28, HeldFate DEF SesDeadline, HoldPcs
      <4>2. took' = [took EXCEPT ![lane[l].email] = 1]
        BY <3>2, <3>4, <4>1
      <4> QED BY <3>1, <4>1, <4>2, LeaveFate
    <3> QED BY <3>3, <3>4
  <2>29. ASSUME NEW l \in Lanes, ReleaseClaim(l) PROVE FateStep
    <3>1. lane[l].email \in Emails
      BY <2>29 DEF ReleaseClaim, TypeOK, LanesOK
    <3> QED BY <2>29, <3>1, WaitingFate, PutFate, SameFate DEF ReleaseClaim, MayFollow,
       Fate, Waiting, TypeOK, RowsOK, Rows, CanEnd, CanTransition, rows
  <2>30. ASSUME NEW l \in Lanes, Fail(l) PROVE FateStep
    <3>1. lane[l].email \in Emails
      BY <2>30 DEF Fail, TypeOK, LanesOK
    <3> QED BY <2>30, <3>1, WaitingFate, PutFate, SameFate DEF Fail, MayFollow, Fate,
       Waiting, TypeOK, RowsOK, Rows, CanEnd, CanTransition, rows, Ended
  <2>31. ASSUME NEW l \in Lanes, Park(l) PROVE FateStep
    <3>1. lane[l].email \in Emails
      BY <2>31 DEF Park, TypeOK, LanesOK
    <3> QED BY <2>31, <3>1, WaitingFate, PutFate, SameFate DEF Park, MayFollow, Fate,
       Waiting, TypeOK, RowsOK, Rows, CanEnd, CanTransition, rows
  <2>32. ASSUME NEW l \in Lanes, Record(l) PROVE FateStep
    <3>1. lane[l].email \in Emails
      BY <2>32 DEF Record, TypeOK, LanesOK
    <3> QED BY <2>32, <3>1, WaitingFate, PutFate, SameFate DEF Record, MayFollow, Fate,
       Waiting, TypeOK, RowsOK, Rows, CanEnd, CanTransition, rows
  <2>33. ASSUME NEW l \in Lanes, FlipSent(l) PROVE FateStep
    <3>1. lane[l].email \in Emails /\ took[lane[l].email] = 1
      BY <2>33 DEF FlipSent, TypeOK, LanesOK, ClaimInv, OwnerKnows, OwnPcs, HoldPcs
    <3>2. row[lane[l].email] \in Rows(Times) /\ row[lane[l].email].status \in SesStatuses \cup {"queued"}
      BY <3>1 DEF TypeOK, RowsOK, ClaimInv, TakenStays
    <3>3. Put(lane[l].email, StatusCas(row[lane[l].email], "sent")) /\ took' = took
      BY <2>33 DEF FlipSent
    <3>4. MayFollow(lane[l].email, Fate(StatusCas(row[lane[l].email], "sent")))
      <4> DEFINE r == row[lane[l].email]
      <4>1. CASE r.status = "queued"
        <5>1. Climbs(r, "sent")
          BY <4>1 DEF Climbs, Statuses, Rank
        <5>2. StatusCas(r, "sent") = [r EXCEPT !.status = "sent"]
          BY <5>1 DEF StatusCas
        <5>3. StatusCas(r, "sent").status = "sent"
          BY <3>2, <5>2 DEF Rows
        <5>4. Fate(StatusCas(r, "sent")) = "sent"
          BY <5>3 DEF Fate, Waiting
        <5>5. Fate(r) = "accepted"
          BY <4>1 DEF Fate, Waiting
        <5> QED BY <3>1, <5>4, <5>5 DEF MayFollow
      <4>2. CASE r.status # "queued"
        <5>1. r.status \in SesStatuses
          BY <3>2, <4>2
        <5>2. ~Climbs(r, "sent")
          BY <5>1 DEF Climbs, SesStatuses, Rank
        <5>3. StatusCas(r, "sent") = r
          BY <5>2 DEF StatusCas
        <5> QED BY <5>3 DEF MayFollow
      <4> QED BY <4>1, <4>2
    <3> QED BY <3>1, <3>3, <3>4, PutFate
  <2>34. CASE ApplyEvent
    <3> DEFINE e == event.email
               r == row[e]
               joined == IF event.byTag THEN [r EXCEPT !.sesId = event.msg] ELSE r
               next == [joined EXCEPT !.why = IF Climbs(r, event.status) THEN "ses_event" ELSE joined.why]
    <3>1. /\ e \in Emails /\ took[e] = 1 /\ event.status \in SesStatuses /\ took' = took
          /\ r.status \in SesStatuses \cup {"queued"} /\ r \in Rows(Times)
      BY <2>34 DEF ApplyEvent, TypeOK, EventOK, RowsOK, ClaimInv, EventTaken, TakenStays
    <3>2. UNCHANGED row \/ Put(e, StatusCas(next, event.status))
      BY <2>34 DEF ApplyEvent
    <3>3. next.status = r.status
      BY <3>1 DEF Rows
    <3>4. Fate(StatusCas(next, event.status)) = IF Climbs(r, event.status) THEN Fate([next EXCEPT !.status = event.status])
                                                                           ELSE Fate(next)
      BY <3>3 DEF StatusCas, Climbs
    <3>5. [next EXCEPT !.status = event.status].status = event.status
      BY <3>1 DEF Rows
    <3>6. Fate([next EXCEPT !.status = event.status])
            = IF event.status = "failed" THEN "failed" ELSE "sent"
      BY <3>1, <3>5 DEF Fate, SesStatuses, Waiting
    <3>7. Fate(next) = Fate(r)
      BY <3>3 DEF Fate
    <3>8. Fate(r) = IF r.status = "queued" THEN "accepted"
                    ELSE IF r.status = "failed" THEN "failed" ELSE "sent"
      BY <3>1 DEF Fate, SesStatuses, Waiting
    <3>9. Climbs(r, event.status) => r.status # "failed"
      BY <3>1 DEF SesStatuses, Climbs, Rank
    <3>10. MayFollow(e, Fate(StatusCas(next, event.status)))
      BY <3>1, <3>4, <3>6, <3>7, <3>8, <3>9 DEF MayFollow
    <3> QED BY <3>1, <3>2, <3>10, PutFate, SameFate
  <2>35. ASSUME NEW d \in Drains, NEW m \in drain[d].page, DrainRelease(d, m) PROVE FateStep
    <3>1. m.email \in Emails
      BY DEF TypeOK, DrainsOK, DrainRecords, ParkedRows
    <3> QED BY <2>35, <3>1, PutFate, SameFate DEF DrainRelease, MayFollow, Fate, Waiting,
       CanTransition, TypeOK, RowsOK, Rows
  <2>36. ASSUME NEW d \in Drains, NEW m \in drain[d].moved, DrainRepark(d, m) PROVE FateStep
    <3>1. m.email \in Emails
      BY DEF TypeOK, DrainsOK, DrainRecords, ParkedRows
    <3> QED BY <2>36, <3>1, PutFate, SameFate DEF DrainRepark, MayFollow, Fate, Waiting,
       CanTransition, TypeOK, RowsOK, Rows
  <2>37. ASSUME NEW e \in Emails, DeadLetter(e) PROVE FateStep
    BY <2>37, WaitingFate, PutFate, SameFate DEF DeadLetter, MayFollow, Fate, Waiting,
       TypeOK, RowsOK, Rows, CanEnd, CanTransition, Ended
  <2>38. ASSUME NEW e \in Emails, FailStalled(e) PROVE FateStep
    BY <2>38, WaitingFate, PutFate, SameFate DEF FailStalled, MayFollow, Fate, Waiting,
       TypeOK, RowsOK, Rows, CanEnd, CanTransition, Ended
  <2>40. \A l \in Lanes : ~SesTakesUnnamed(l)
    <3>1. \A l \in Lanes : lane[l].pc # "idle" => took[lane[l].email] \in Nat
      BY DEF TypeOK, LanesOK, ClockOK
    <3> QED BY <3>1 DEF SesTakesUnnamed
  <2>39. CASE UNCHANGED vars
    BY <2>39, SameFate DEF vars, rows
  <2> QED
    BY <2>1, <2>2, <2>3, <2>4, <2>5, <2>6, <2>7, <2>8, <2>9, <2>10, <2>11, <2>12, <2>13,
       <2>14, <2>15, <2>16, <2>17, <2>18, <2>19, <2>20, <2>21, <2>22, <2>23, <2>24,
       <2>25, <2>26, <2>27, <2>28, <2>29, <2>30, <2>31, <2>32, <2>33, <2>34, <2>35,
       <2>36, <2>37, <2>38, <2>39, <2>40, <2>41
    DEF Next, ApiStep, CronStep, LaneStep, LaneWork, EventStep, DrainStep
<1> QED BY <1>1, <1>2, Typing, Claims, PTL DEF Spec, KeepsPromise, Promise!Spec, FateStep

-----------------------------------------------------------------------------
(* No status goes back.  Whoever writes a row that left the queue either     *)
(* leaves its status or climbs the ladder; every other write asks for a row  *)
(* that waits.                                                               *)

Reported(e) == row[e].status \notin Waiting \cup {"absent"}

NoneBack == \A e \in Emails : Reported(e) => Rank[row'[e].status] >= Rank[row[e].status]

LEMMA RankNat == \A s \in Statuses : Rank[s] \in Nat
BY DEF Rank, Statuses

LEMMA SameKeeps ==
  ASSUME TypeOK, UNCHANGED row
  PROVE  NoneBack
<1> SUFFICES ASSUME NEW e \in Emails, Reported(e)
             PROVE  Rank[row'[e].status] >= Rank[row[e].status]
  BY DEF NoneBack
<1>1. row[e].status \in Statuses
  BY DEF TypeOK, RowsOK, Rows, Reported
<1> QED BY <1>1, RankNat

LEMMA PutKeeps ==
  ASSUME TypeOK, NEW e \in Emails, NEW r, Put(e, r),
         \/ ~Reported(e)
         \/ r.status = row[e].status
         \/ Rank[r.status] >= Rank[row[e].status]
  PROVE  NoneBack
<1> SUFFICES ASSUME NEW x \in Emails, Reported(x)
             PROVE  Rank[row'[x].status] >= Rank[row[x].status]
  BY DEF NoneBack
<1>1. row[x].status \in Statuses
  BY DEF TypeOK, RowsOK, Rows, Reported
<1>2. row'[x] = IF x = e THEN r ELSE row[x]
  BY DEF Put, TypeOK, RowsOK
<1>3. CASE x # e
  BY <1>1, <1>2, <1>3, RankNat
<1>4. CASE x = e /\ r.status = row[e].status
  BY <1>1, <1>2, <1>4, RankNat
<1>5. CASE x = e /\ r.status # row[e].status
  BY <1>2, <1>5
<1> QED BY <1>3, <1>4, <1>5

(* A climb is a climb.                                                       *)
LEMMA CasClimbs ==
  ASSUME NEW r \in Rows(Times), NEW s \in SesStatuses
  PROVE  \/ StatusCas(r, s).status = r.status
         \/ Rank[StatusCas(r, s).status] >= Rank[r.status]
<1>1. CASE Climbs(r, s)
  <2>1. StatusCas(r, s).status = s
    BY <1>1 DEF StatusCas, Rows
  <2>2. r.status \in Statuses /\ s \in Statuses /\ Rank[r.status] < Rank[s]
    BY <1>1 DEF Climbs, SesStatuses, Statuses
  <2> QED BY <2>1, <2>2, RankNat
<1>2. CASE ~Climbs(r, s)
  BY <1>2 DEF StatusCas
<1> QED BY <1>1, <1>2

(* Cancels, parks, refusals and the sweeps name the status they leave, and   *)
(* an SES event only climbs: reported mail is never reported as less, nor    *)
(* queued again.                                                             *)
THEOREM ReportsStand == Spec => NeverBack
<1>1. TypeOK /\ [Next]_vars => NoneBack
  <2> SUFFICES ASSUME TypeOK, [Next]_vars PROVE NoneBack
    OBVIOUS
  <2>1. ASSUME NEW e \in Emails, Enqueue(e) PROVE NoneBack
    BY <2>1, SameKeeps DEF Enqueue, rows
  <2>2. ASSUME NEW e \in Emails, LoseEnqueue(e) PROVE NoneBack
    BY <2>2, SameKeeps DEF LoseEnqueue, rows
  <2>3. ASSUME NEW r \in Recipients, Suppress(r) PROVE NoneBack
    BY <2>3, SameKeeps DEF Suppress, rows
  <2>4. ASSUME NEW l \in Lanes, NEW e \in Emails, FetchNew(l, e) PROVE NoneBack
    BY <2>4, SameKeeps DEF FetchNew, rows
  <2>5. ASSUME NEW l \in Lanes, NEW e \in Emails, NEW k \in 1..RetryLimit, FetchRetry(l, e, k) PROVE NoneBack
    BY <2>5, SameKeeps DEF FetchRetry, rows
  <2>6. ASSUME NEW l \in Lanes, Throw(l) PROVE NoneBack
    BY <2>6, SameKeeps DEF Throw, rows
  <2>7. ASSUME NEW l \in Lanes, Expire(l) PROVE NoneBack
    BY <2>7, SameKeeps DEF Expire, rows
  <2>8. ASSUME NEW l \in Lanes, ReadRow(l) PROVE NoneBack
    BY <2>8, SameKeeps DEF ReadRow, rows
  <2>9. ASSUME NEW l \in Lanes, Render(l) PROVE NoneBack
    BY <2>9, SameKeeps DEF Render, rows
  <2>10. ASSUME NEW l \in Lanes, SesTakes(l) PROVE NoneBack
    BY <2>10, SameKeeps DEF SesTakes, rows
  <2>11. ASSUME NEW l \in Lanes, SesDeadline(l) PROVE NoneBack
    BY <2>11, SameKeeps DEF SesDeadline, rows
  <2>12. ASSUME NEW l \in Lanes, SesTakesUnnamed(l) PROVE NoneBack
    BY <2>12, SameKeeps DEF SesTakesUnnamed, rows
  <2>13. ASSUME NEW l \in Lanes, SesRefuses(l) PROVE NoneBack
    BY <2>13, SameKeeps DEF SesRefuses, rows
  <2>14. ASSUME NEW l \in Lanes, CountSent(l) PROVE NoneBack
    BY <2>14, SameKeeps DEF CountSent, rows
  <2>15. ASSUME NEW e \in Emails, NEW m \in 1..took[e], NEW s \in EventStatuses, LookUp(e, m, s) PROVE NoneBack
    BY <2>15, SameKeeps DEF LookUp, rows
  <2>16. ASSUME NEW d \in Drains, DrainPage(d) PROVE NoneBack
    BY <2>16, SameKeeps DEF DrainPage, rows
  <2>17. ASSUME NEW d \in Drains, DrainEnqueue(d) PROVE NoneBack
    BY <2>17, SameKeeps DEF DrainEnqueue, rows
  <2>18. ASSUME NEW d \in Drains, DrainRefund(d) PROVE NoneBack
    BY <2>18, SameKeeps DEF DrainRefund, rows
  <2>19. ASSUME NEW d \in Drains, DrainStop(d) PROVE NoneBack
    BY <2>19, SameKeeps DEF DrainStop, rows
  <2>20. ASSUME NEW e \in Emails, Requeue(e) PROVE NoneBack
    BY <2>20, SameKeeps DEF Requeue, rows
  <2>21. ASSUME NEW e \in Emails, NEW to \in SUBSET Recipients, NEW at \in ScheduleTimes, Accept(e, to, at) PROVE NoneBack
    BY <2>21, PutKeeps DEF Accept, Reported
  <2>22. ASSUME NEW e \in Emails, NEW to \in SUBSET Recipients, RecordSuppressed(e, to) PROVE NoneBack
    BY <2>22, PutKeeps DEF RecordSuppressed, Reported
  <2>23. ASSUME NEW e \in Emails, Cancel(e) PROVE NoneBack
    BY <2>23, PutKeeps, SameKeeps DEF Cancel, Reported, Waiting, CanTransition, CanEnd, Reachable
  <2>24. ASSUME NEW e \in Emails, DeleteDomain(e) PROVE NoneBack
    BY <2>24, PutKeeps, SameKeeps DEF DeleteDomain, Reported, Waiting, CanTransition, CanEnd
  <2>25. ASSUME NEW e \in Emails, CancelHeld(e) PROVE NoneBack
    BY <2>25, PutKeeps, SameKeeps DEF CancelHeld, Reported, Waiting, CanTransition, CanEnd
  <2>26. ASSUME NEW e \in Emails, DeadLetter(e) PROVE NoneBack
    BY <2>26, PutKeeps, SameKeeps DEF DeadLetter, Reported, Waiting, CanTransition, CanEnd
  <2>27. ASSUME NEW e \in Emails, FailStalled(e) PROVE NoneBack
    BY <2>27, PutKeeps, SameKeeps DEF FailStalled, Reported, Waiting, CanTransition, CanEnd
  <2>28. ASSUME NEW e \in Emails, NEW at \in ScheduleTimes \ {NoTime}, Move(e, at) PROVE NoneBack
    BY <2>28, PutKeeps, SameKeeps DEF Move, Reported, Waiting, CanTransition, CanEnd, Reachable
  <2>29. ASSUME NEW l \in Lanes, CheckEligible(l) PROVE NoneBack
    <3>1. lane[l].email \in Emails
      BY <2>29 DEF CheckEligible, TypeOK, LanesOK
    <3>2. ASSUME Refuse(lane[l].email) PROVE NoneBack
      BY <3>1, <3>2, PutKeeps, SameKeeps DEF Refuse, Reported, Waiting, CanTransition, CanEnd
    <3>3. ASSUME NEW to, Put(lane[l].email, Stripped(row[lane[l].email], to)) PROVE NoneBack
      BY <3>1, <3>3, PutKeeps DEF Stripped, TypeOK, RowsOK, Rows
    <3> QED BY <2>29, <3>2, <3>3, SameKeeps DEF CheckEligible
  <2>30. ASSUME NEW l \in Lanes, Recheck(l) PROVE NoneBack
    <3>1. lane[l].email \in Emails
      BY <2>30 DEF Recheck, TypeOK, LanesOK
    <3>2. ASSUME Refuse(lane[l].email) PROVE NoneBack
      BY <3>1, <3>2, PutKeeps, SameKeeps DEF Refuse, Reported, Waiting, CanTransition, CanEnd
    <3>3. ASSUME NEW to, Put(lane[l].email, Stripped(row[lane[l].email], to)) PROVE NoneBack
      BY <3>1, <3>3, PutKeeps DEF Stripped, TypeOK, RowsOK, Rows
    <3> QED BY <2>30, <3>2, <3>3, SameKeeps DEF Recheck
  <2>31. ASSUME NEW l \in Lanes, Claim(l) PROVE NoneBack
    <3>1. lane[l].email \in Emails
      BY <2>31 DEF Claim, TypeOK, LanesOK
    <3> QED BY <2>31, <3>1, PutKeeps, SameKeeps DEF Claim, Reported, Waiting, CanTransition, CanEnd, TypeOK, RowsOK, Rows
  <2>32. ASSUME NEW l \in Lanes, ReleaseClaim(l) PROVE NoneBack
    <3>1. lane[l].email \in Emails
      BY <2>32 DEF ReleaseClaim, TypeOK, LanesOK
    <3> QED BY <2>32, <3>1, PutKeeps, SameKeeps DEF ReleaseClaim, Reported, Waiting, CanTransition, CanEnd, TypeOK, RowsOK, Rows
  <2>33. ASSUME NEW l \in Lanes, Fail(l) PROVE NoneBack
    <3>1. lane[l].email \in Emails
      BY <2>33 DEF Fail, TypeOK, LanesOK
    <3> QED BY <2>33, <3>1, PutKeeps, SameKeeps DEF Fail, Reported, Waiting, CanTransition, CanEnd, TypeOK, RowsOK, Rows
  <2>34. ASSUME NEW l \in Lanes, Park(l) PROVE NoneBack
    <3>1. lane[l].email \in Emails
      BY <2>34 DEF Park, TypeOK, LanesOK
    <3> QED BY <2>34, <3>1, PutKeeps, SameKeeps DEF Park, Reported, Waiting, CanTransition, CanEnd, TypeOK, RowsOK, Rows
  <2>35. ASSUME NEW l \in Lanes, Record(l) PROVE NoneBack
    <3>1. lane[l].email \in Emails
      BY <2>35 DEF Record, TypeOK, LanesOK
    <3> QED BY <2>35, <3>1, PutKeeps, SameKeeps DEF Record, Reported, Waiting, CanTransition, CanEnd, TypeOK, RowsOK, Rows
  <2>36. ASSUME NEW l \in Lanes, FlipSent(l) PROVE NoneBack
    <3>1. lane[l].email \in Emails /\ row[lane[l].email] \in Rows(Times)
      BY <2>36 DEF FlipSent, TypeOK, LanesOK, RowsOK
    <3> QED BY <2>36, <3>1, PutKeeps, CasClimbs DEF FlipSent, SesStatuses
  <2>37. CASE ApplyEvent
    <3> DEFINE e == event.email
               r == row[e]
               joined == IF event.byTag THEN [r EXCEPT !.sesId = event.msg] ELSE r
               next == [joined EXCEPT !.why = IF Climbs(r, event.status) THEN "ses_event" ELSE joined.why]
    <3>1. e \in Emails /\ event.status \in SesStatuses /\ r \in Rows(Times)
      BY <2>37 DEF ApplyEvent, TypeOK, EventOK, RowsOK
    <3>2. UNCHANGED row \/ Put(e, StatusCas(next, event.status))
      BY <2>37 DEF ApplyEvent
    <3>3. next.status = r.status
      BY <3>1 DEF Rows
    <3>4. \/ StatusCas(next, event.status) = next
          \/ /\ StatusCas(next, event.status) = [next EXCEPT !.status = event.status]
             /\ Climbs(r, event.status)
      BY <3>3 DEF StatusCas, Climbs
    <3>5. [next EXCEPT !.status = event.status].status = event.status
      BY <3>1 DEF Rows
    <3>6. Climbs(r, event.status) => Rank[event.status] >= Rank[r.status]
      BY <3>1, RankNat DEF Climbs, SesStatuses, Statuses
    <3>7. \/ StatusCas(next, event.status).status = r.status
          \/ Rank[StatusCas(next, event.status).status] >= Rank[r.status]
      BY <3>3, <3>4, <3>5, <3>6
    <3> QED BY <3>1, <3>2, <3>7, PutKeeps, SameKeeps
  <2>38. ASSUME NEW d \in Drains, NEW m \in drain[d].page, DrainRelease(d, m) PROVE NoneBack
    <3>1. m.email \in Emails
      BY DEF TypeOK, DrainsOK, DrainRecords, ParkedRows
    <3> QED BY <2>38, <3>1, PutKeeps, SameKeeps DEF DrainRelease, Reported, Waiting, CanTransition, CanEnd
  <2>39. ASSUME NEW d \in Drains, NEW m \in drain[d].moved, DrainRepark(d, m) PROVE NoneBack
    <3>1. m.email \in Emails
      BY DEF TypeOK, DrainsOK, DrainRecords, ParkedRows
    <3> QED BY <2>39, <3>1, PutKeeps, SameKeeps DEF DrainRepark, Reported, Waiting, CanTransition, CanEnd
  <2>40. CASE Tick
    BY <2>40, SameKeeps DEF Tick, rows
  <2>41. CASE UNCHANGED vars
    BY <2>41, SameKeeps DEF vars, rows
  <2> QED
    BY <2>1, <2>2, <2>3, <2>4, <2>5, <2>6, <2>7, <2>8, <2>9, <2>10, <2>11,
       <2>12, <2>13, <2>14, <2>15, <2>16, <2>17, <2>18, <2>19, <2>20, <2>21,
       <2>22, <2>23, <2>24, <2>25, <2>26, <2>27, <2>28, <2>29, <2>30, <2>31,
       <2>32, <2>33, <2>34, <2>35, <2>36, <2>37, <2>38, <2>39, <2>40, <2>41
    DEF Next, ApiStep, CronStep, LaneStep, LaneWork, EventStep, DrainStep
<1> QED BY <1>1, Typing, PTL DEF Spec, NeverBack, NoneBack, Reported

-----------------------------------------------------------------------------
(* What rows hold is counted, within one day and with one drain at a time.   *)

OneDay == Day(Horizon) = 0
SoleDrain == \A c, d \in Drains : c = d

CopyPcs == {"eligible", "render", "recheck"}

(* The copy a lane took of a message's recipients differs from the row by    *)
(* none but suppressed ones, so that what the lane writes back only shrinks  *)
(* the row.                                                                  *)
CopyInv ==
  \A l \in Lanes : lane[l].pc \in CopyPcs =>
    /\ row[lane[l].email].status # "absent"
    /\ lane[l].to \ suppressed = row[lane[l].email].to \ suppressed

(* A row in the queue holds its units at least, and what a drain has read of *)
(* a row is no less than the row has now; its page names a row once.         *)
HoldInv ==
  /\ \A e \in Emails : row[e].status = "queued" => Units(row[e].to) <= charge[e].units
  /\ \A d \in Drains :
       /\ \A m \in drain[d].page \cup drain[d].moved : row[m.email].status # "absent"
       /\ \A m \in drain[d].page : Units(row[m.email].to) <= m.units
       /\ \A m, n \in drain[d].page : m.email = n.email => m = n
       /\ \A m \in drain[d].page, n \in drain[d].moved : m.email # n.email
       /\ drain[d].pc # "refund" => drain[d].owed = 0

(* The counter is at least the sum of h over the emails, and of what the     *)
(* drain is about to give back.  h is no less than a row's charge, and no    *)
(* less than the drain would give back for it.                               *)
Pairs(h) == {c \in Emails \X (Nat \ {0}) : c[2] <= h[c[1]]}

Bears(h) ==
  \A e \in Emails :
    /\ charge[e].units <= h[e]
    /\ row[e].status = "queued" =>
         \A d \in Drains : \A m \in drain[d].moved : m.email = e => m.units <= h[e]

Counts(h) ==
  /\ IsFiniteSet(Pairs(h)) /\ Cardinality(Pairs(h)) <= accepted[0]
  /\ \A d \in Drains : Cardinality(Pairs(h)) + drain[d].owed <= accepted[0]

SpentInv ==
  /\ CopyInv /\ HoldInv
  /\ \E h \in [Emails -> Nat] : Bears(h) /\ Counts(h)

(* Of two sets of recipients the larger is more units.                       *)
LEMMA UnitsMonotone ==
  ASSUME NEW big \in SUBSET Recipients, NEW small \in SUBSET big
  PROVE  Units(small) \in Nat /\ Units(big) \in Nat /\ Units(small) <= Units(big)
<1>1. IsFiniteSet(big)
  BY SendAssumption, FS_Subset
<1> QED BY <1>1, FS_Subset, FS_CardinalityType DEF Units

LEMMA OnlyDay ==
  ASSUME OneDay
  PROVE  Days = {0} /\ \A t \in Times : Day(t) = 0
<1>1. Days = {0}
  BY DEF OneDay, Days
<1> QED BY <1>1, DayInDays

(* The load g is h, with that of one email set to n.                         *)
Reloads(g, h, e, n) == g \in [Emails -> Nat] /\ g = [h EXCEPT ![e] = n]

LEMMA Reload ==
  ASSUME NEW h \in [Emails -> Nat], NEW e \in Emails, NEW n \in Nat
  PROVE  \E g \in [Emails -> Nat] : Reloads(g, h, e, n)
<1>1. [h EXCEPT ![e] = n] \in [Emails -> Nat]
  OBVIOUS
<1> QED BY <1>1 DEF Reloads

(* The sum changes as the load does.                                         *)
LEMMA Recount ==
  ASSUME NEW h \in [Emails -> Nat], IsFiniteSet(Pairs(h)), NEW e \in Emails, NEW n \in Nat,
         NEW g, Reloads(g, h, e, n)
  PROVE  /\ IsFiniteSet(Pairs(g))
         /\ Cardinality(Pairs(g)) \in Nat /\ Cardinality(Pairs(h)) \in Nat
         /\ Cardinality(Pairs(g)) + h[e] = Cardinality(Pairs(h)) + n
<1> DEFINE rest == {c \in Pairs(h) : c[1] # e}
<1>0. g \in [Emails -> Nat] /\ g[e] = n /\ \A x \in Emails \ {e} : g[x] = h[x]
  BY DEF Reloads
<1>1. IsFiniteSet(rest)
  BY FS_Subset
<1>2. ASSUME NEW f \in [Emails -> Nat], \A x \in Emails \ {e} : f[x] = h[x]
      PROVE  /\ IsFiniteSet(Pairs(f)) /\ Cardinality(Pairs(f)) = Cardinality(rest) + f[e]
             /\ Cardinality(rest) \in Nat
  <2> DEFINE own == {e} \X (1..f[e])
  <2>1. f[e] \in Nat /\ f[e] \in Int /\ 1 \in Int
    <3>1. f[e] \in Nat
      BY Zenon
    <3> QED BY <3>1, SMT
  <2>2. IsFiniteSet(1..f[e]) /\ Cardinality(1..f[e]) = f[e]
    <3>1. IsFiniteSet(1..f[e]) /\ Cardinality(1..f[e]) = IF 1 > f[e] THEN 0 ELSE f[e] - 1 + 1
      BY <2>1, FS_Interval, Zenon
    <3> QED BY <2>1, <3>1
  <2>3. IsFiniteSet({e}) /\ Cardinality({e}) = 1
    BY FS_Singleton
  <2>4. IsFiniteSet(own) /\ Cardinality(own) = f[e]
    <3> DEFINE seg == 1..f[e]
    <3> HIDE DEF seg
    <3>1. IsFiniteSet(seg) /\ Cardinality(seg) = f[e]
      BY <2>2 DEF seg
    <3>2. IsFiniteSet({e} \X seg) /\ Cardinality({e} \X seg) = Cardinality({e}) * Cardinality(seg)
      BY <2>3, <3>1, FS_Product
    <3> QED BY <2>1, <2>3, <3>1, <3>2 DEF seg
  <2>5. Pairs(f) = rest \cup own
    <3>1. ASSUME NEW c \in Pairs(f) PROVE c \in rest \cup own
      <4>1. c \in Emails \X (Nat \ {0}) /\ c[2] <= f[c[1]] /\ c = <<c[1], c[2]>>
        BY <3>1 DEF Pairs
      <4>2. CASE c[1] = e
        <5>1. c[2] \in 1..f[e]
          BY <4>1, <4>2
        <5> QED BY <4>1, <4>2, <5>1
      <4>3. CASE c[1] # e
        BY <1>2, <4>1, <4>3 DEF Pairs
      <4> QED BY <4>2, <4>3
    <3>2. ASSUME NEW c \in rest PROVE c \in Pairs(f)
      BY <1>2, <3>2 DEF Pairs
    <3>3. ASSUME NEW c \in own PROVE c \in Pairs(f)
      BY <2>1, <3>3 DEF Pairs
    <3> QED BY <3>1, <3>2, <3>3
  <2>6. rest \cap own = {}
    OBVIOUS
  <2>7. Cardinality({}) = 0 /\ Cardinality(rest) \in Nat
    BY <1>1, FS_EmptySet, FS_CardinalityType
  <2> HIDE DEF own, rest
  <2>8. /\ IsFiniteSet(rest \cup own)
        /\ Cardinality(rest \cup own) = Cardinality(rest) + Cardinality(own) - Cardinality(rest \cap own)
    BY <1>1, <2>4, FS_Union
  <2>9. IsFiniteSet(Pairs(f)) /\ Cardinality(Pairs(f)) = Cardinality(rest) + f[e] - 0
    BY <2>4, <2>5, <2>6, <2>7, <2>8
  <2>10. f[e] \in Nat => Cardinality(rest) + f[e] - 0 = Cardinality(rest) + f[e]
    BY <2>7
  <2> QED BY <2>1, <2>7, <2>9, <2>10
<1> HIDE DEF rest
<1>3. /\ IsFiniteSet(Pairs(g)) /\ Cardinality(Pairs(g)) = Cardinality(rest) + g[e]
      /\ Cardinality(rest) \in Nat
  BY <1>0, <1>2
<1>4. Cardinality(Pairs(h)) = Cardinality(rest) + h[e]
  BY <1>2
<1>5. h[e] \in Nat
  OBVIOUS
<1> QED BY <1>0, <1>3, <1>4, <1>5

(* What most steps do: a row loses none but suppressed recipients, it enters *)
(* the queue with its units charged, and lanes and drains forget.            *)
RowsShrink ==
  \A e \in Emails : row[e].status # "absent" =>
    /\ row'[e].status # "absent" /\ row'[e].to \subseteq row[e].to
    /\ row'[e].to \ suppressed = row[e].to \ suppressed

ChargesFit ==
  \A e \in Emails : row'[e].status = "queued" =>
    \/ row[e].status = "queued" /\ charge'[e] = charge[e]
    \/ Units(row'[e].to) <= charge'[e].units

ChargesShrink ==
  \A e \in Emails :
    /\ charge'[e] \in {charge[e], NoCharge}
    /\ row'[e].status = "queued" => row[e].status = "queued" /\ charge'[e] = charge[e]

LanesKeep ==
  \A l \in Lanes : lane'[l].pc \in CopyPcs =>
    /\ lane[l].pc \in CopyPcs /\ lane'[l].email = lane[l].email
    /\ lane'[l].to \ suppressed = lane[l].to \ suppressed

DrainsKeep ==
  \A d \in Drains :
    /\ drain'[d].page \subseteq drain[d].page /\ drain'[d].moved \subseteq drain[d].moved
    /\ drain'[d].owed \in {0, drain[d].owed}
    /\ drain'[d].pc # "refund" => drain[d].pc # "refund" \/ drain'[d].owed = 0

(* A drain moves rows off its page, and owes only while it refunds.          *)
DrainsHold ==
  \A d \in Drains :
    /\ drain'[d].page \subseteq drain[d].page
    /\ drain'[d].moved \subseteq drain[d].moved \cup (drain[d].page \ drain'[d].page)
    /\ drain'[d].pc # "refund" =>
         drain'[d].owed = 0 \/ (drain[d].pc # "refund" /\ drain'[d].owed = drain[d].owed)

DrainsForget ==
  \A d \in Drains : /\ drain'[d].moved \subseteq drain[d].moved
                     /\ drain'[d].owed \in {0, drain[d].owed}

LEMMA CopyKept ==
  ASSUME TypeOK, CopyInv, RowsShrink, LanesKeep, suppressed \subseteq suppressed'
  PROVE  CopyInv'
<1> SUFFICES ASSUME NEW l \in Lanes, lane'[l].pc \in CopyPcs
             PROVE  /\ row'[lane'[l].email].status # "absent"
                    /\ lane'[l].to \ suppressed' = row'[lane'[l].email].to \ suppressed'
  BY DEF CopyInv
<1>1. /\ lane[l].pc \in CopyPcs /\ lane'[l].email = lane[l].email
      /\ lane'[l].to \ suppressed = lane[l].to \ suppressed
  BY DEF LanesKeep
<1>2. PICK e \in Emails : e = lane[l].email
  BY <1>1 DEF TypeOK, LanesOK, CopyPcs
<1>3. row[e].status # "absent" /\ lane[l].to \ suppressed = row[e].to \ suppressed
  BY <1>1, <1>2 DEF CopyInv
<1>4. row'[e].status # "absent" /\ row'[e].to \ suppressed = row[e].to \ suppressed
  BY <1>3 DEF RowsShrink
<1>5. lane'[l].to \ suppressed = row'[e].to \ suppressed
  BY <1>1, <1>3, <1>4
<1> QED BY <1>1, <1>2, <1>4, <1>5

LEMMA DrainTypes ==
  ASSUME TypeOK, NEW d \in Drains
  PROVE  /\ \A m \in drain[d].page \cup drain[d].moved : m.email \in Emails /\ m.units \in Nat
         /\ drain[d].owed \in Nat
         /\ drain[d].page \subseteq ParkedRows /\ drain[d].moved \subseteq ParkedRows
BY DEF TypeOK, DrainsOK, DrainRecords, ParkedRows

LEMMA HoldKept ==
  ASSUME TypeOK, HoldInv, RowsShrink, ChargesFit, DrainsHold
  PROVE  HoldInv'
<1>1. ASSUME NEW e \in Emails, row[e].status # "absent"
      PROVE  /\ Units(row'[e].to) \in Nat /\ Units(row[e].to) \in Nat
             /\ Units(row'[e].to) <= Units(row[e].to)
  BY <1>1, UnitsMonotone DEF RowsShrink, TypeOK, RowsOK, Rows
<1>2. ASSUME NEW e \in Emails, row'[e].status = "queued"
      PROVE  Units(row'[e].to) <= charge'[e].units
  <2>1. CASE row[e].status = "queued" /\ charge'[e] = charge[e]
    <3>1. Units(row[e].to) <= charge[e].units /\ charge[e].units \in Nat
      BY <2>1 DEF HoldInv, TypeOK, QuotaOK
    <3> QED BY <1>1, <2>1, <3>1
  <2> QED BY <1>2, <2>1 DEF ChargesFit
<1>3. ASSUME NEW d \in Drains
      PROVE  /\ \A m \in drain'[d].page \cup drain'[d].moved : row'[m.email].status # "absent"
             /\ \A m \in drain'[d].page : Units(row'[m.email].to) <= m.units
             /\ \A m, n \in drain'[d].page : m.email = n.email => m = n
             /\ \A m \in drain'[d].page, n \in drain'[d].moved : m.email # n.email
             /\ drain'[d].pc # "refund" => drain'[d].owed = 0
  <2>1. /\ drain'[d].page \subseteq drain[d].page
        /\ drain'[d].moved \subseteq drain[d].moved \cup (drain[d].page \ drain'[d].page)
    BY DEF DrainsHold
  <2>2. \A m \in drain'[d].page \cup drain'[d].moved : row'[m.email].status # "absent"
    BY <2>1, DrainTypes DEF HoldInv, RowsShrink
  <2>3. ASSUME NEW m \in drain'[d].page PROVE Units(row'[m.email].to) <= m.units
    <3>1. PICK e \in Emails : e = m.email
      BY <2>1, DrainTypes
    <3>2. row[e].status # "absent" /\ Units(row[e].to) <= m.units /\ m.units \in Nat
      BY <2>1, <3>1, DrainTypes DEF HoldInv
    <3> QED BY <1>1, <3>1, <3>2
  <2>4. drain'[d].pc # "refund" => drain'[d].owed = 0
    BY DEF DrainsHold, HoldInv
  <2>5. \A m, n \in drain'[d].page : m.email = n.email => m = n
    BY <2>1 DEF HoldInv
  <2>6. ASSUME NEW m \in drain'[d].page, NEW n \in drain'[d].moved, m.email = n.email
        PROVE  FALSE
    <3>1. m \in drain[d].page
      BY <2>1
    <3>2. CASE n \in drain[d].moved
      BY <2>6, <3>1, <3>2 DEF HoldInv
    <3>3. CASE n \in drain[d].page \ drain'[d].page
      BY <2>6, <3>1, <3>3 DEF HoldInv
    <3> QED BY <2>1, <3>2, <3>3
  <2> QED BY <2>2, <2>3, <2>4, <2>5, <2>6
<1> QED BY <1>2, <1>3 DEF HoldInv

(* The load h, with that of one email set to n, still bears all.             *)
LEMMA BearsKept ==
  ASSUME TypeOK, NEW h \in [Emails -> Nat], Bears(h), NEW e \in Emails, NEW n \in Nat,
         \A x \in Emails \ {e} :
           /\ charge'[x] = charge[x]
           /\ row'[x].status = "queued" => row[x].status = "queued",
         \A d \in Drains : \A m \in drain'[d].moved : m.email = e \/ m \in drain[d].moved,
         charge'[e].units <= n,
         row'[e].status = "queued" =>
           \A d \in Drains : \A m \in drain'[d].moved : m.email = e => m.units <= n,
         NEW g, Reloads(g, h, e, n)
  PROVE  Bears(g)'
<1>1. g[e] = n /\ \A x \in Emails \ {e} : g[x] = h[x] /\ h[x] \in Nat
  BY DEF Reloads
<1>2. ASSUME NEW x \in Emails \ {e} PROVE charge'[x].units <= g[x]
  <2>1. charge[x].units <= h[x]
    BY DEF Bears
  <2>2. charge'[x] = charge[x] /\ g[x] = h[x]
    BY <1>1
  <2> QED BY <2>1, <2>2
<1>3. ASSUME NEW x \in Emails \ {e}, row'[x].status = "queued", NEW d \in Drains,
             NEW m \in drain'[d].moved, m.email = x
      PROVE  m.units <= g[x]
  <2>1. row[x].status = "queued" /\ m \in drain[d].moved /\ g[x] = h[x]
    BY <1>1, <1>3
  <2>2. m.units <= h[x]
    BY <1>3, <2>1 DEF Bears
  <2> QED BY <2>1, <2>2
<1>4. \A x \in Emails :
        /\ charge'[x].units <= g[x]
        /\ row'[x].status = "queued" =>
             \A d \in Drains : \A m \in drain'[d].moved : m.email = x => m.units <= g[x]
  BY <1>1, <1>2, <1>3
<1> QED BY <1>4 DEF Bears

(* A step that charges nothing and gives nothing back keeps the count.       *)
LEMMA CountKept ==
  ASSUME TypeOK, SpentInv, CopyInv', HoldInv', ChargesShrink, DrainsForget,
         accepted' = accepted
  PROVE  SpentInv'
<1>1. PICK h \in [Emails -> Nat] : Bears(h) /\ Counts(h)
  BY DEF SpentInv
<1>2. ASSUME NEW e \in Emails
      PROVE  /\ charge'[e].units <= h[e]
             /\ row'[e].status = "queued" =>
                  \A d \in Drains : \A m \in drain'[d].moved : m.email = e => m.units <= h[e]
  <2>1. charge'[e].units <= h[e]
    <3>1. charge[e].units <= h[e] /\ h[e] \in Nat /\ NoCharge.units = 0
      BY <1>1 DEF Bears, NoCharge
    <3> QED BY <3>1 DEF ChargesShrink
  <2> QED BY <1>1, <2>1 DEF ChargesShrink, DrainsForget, Bears
<1>3. Bears(h)'
  BY <1>2 DEF Bears
<1>4. Counts(h)'
  <2>1. Cardinality(Pairs(h)) \in Nat /\ accepted[0] = accepted'[0]
    BY <1>1, FS_CardinalityType DEF Counts
  <2>2. \A d \in Drains : drain'[d].owed \in {0, drain[d].owed}
    BY DEF DrainsForget
  <2> QED BY <1>1, <2>1, <2>2 DEF Counts
<1> QED BY <1>3, <1>4 DEF SpentInv

(* A step of all these kinds keeps the count.                                *)
LEMMA CalmSpent ==
  ASSUME TypeOK, SpentInv, RowsShrink, ChargesShrink, LanesKeep, DrainsKeep,
         suppressed \subseteq suppressed', accepted' = accepted
  PROVE  SpentInv'
<1>1. CopyInv'
  BY CopyKept DEF SpentInv
<1>2. ChargesFit
  BY DEF ChargesShrink, ChargesFit
<1>3. DrainsHold
  BY DEF DrainsKeep, DrainsHold
<1>4. HoldInv'
  BY <1>2, <1>3, HoldKept DEF SpentInv
<1>5. DrainsForget
  BY DEF DrainsKeep, DrainsForget
<1> QED BY <1>1, <1>4, <1>5, CountKept

(* An email charged for k units more carries k more.                         *)
LEMMA LoadGrows ==
  ASSUME NEW h \in [Emails -> Nat], Counts(h), NEW e \in Emails, NEW k \in Nat,
         accepted[0] \in Nat, accepted'[0] = accepted[0] + k,
         \A d \in Drains : drain[d].owed \in Nat /\ drain'[d].owed = drain[d].owed,
         NEW g, Reloads(g, h, e, h[e] + k)
  PROVE  Counts(g)'
<1> DEFINE S == Cardinality(Pairs(h))
           T == Cardinality(Pairs(g))
<1>1. PICK n \in Nat : n = h[e] + k
  OBVIOUS
<1>2. IsFiniteSet(Pairs(h)) /\ Reloads(g, h, e, n)
  BY <1>1 DEF Counts
<1>3. IsFiniteSet(Pairs(g)) /\ T \in Nat /\ S \in Nat /\ T + h[e] = S + n
  BY <1>2, Recount
<1>4. S <= accepted[0] /\ \A d \in Drains : S + drain[d].owed <= accepted[0]
  BY DEF Counts
<1> HIDE DEF S, T
<1>5. T = S + k /\ h[e] \in Nat
  BY <1>1, <1>3
<1>6. T <= accepted'[0] /\ \A d \in Drains : T + drain'[d].owed <= accepted'[0]
  BY <1>3, <1>4, <1>5
<1> QED BY <1>3, <1>6 DEF Counts, T

(* An email that gives back no more than it carries carries nothing more.    *)
LEMMA LoadDrops ==
  ASSUME NEW h \in [Emails -> Nat], Counts(h), NEW e \in Emails, NEW k \in Nat,
         k <= h[e], accepted[0] \in Nat, accepted'[0] = Later(accepted[0] - k, 0),
         \A d \in Drains : drain[d].owed \in Nat /\ drain'[d].owed = drain[d].owed,
         NEW g, Reloads(g, h, e, 0)
  PROVE  Counts(g)'
<1> DEFINE S == Cardinality(Pairs(h))
           T == Cardinality(Pairs(g))
<1>1. h[e] \in Nat /\ IsFiniteSet(Pairs(h))
  BY DEF Counts
<1>2. IsFiniteSet(Pairs(g)) /\ T \in Nat /\ S \in Nat /\ T + h[e] = S + 0
  BY <1>1, Recount
<1>3. S <= accepted[0] /\ \A d \in Drains : S + drain[d].owed <= accepted[0]
  BY DEF Counts
<1> HIDE DEF S, T
<1>4. T + k <= S
  BY <1>1, <1>2
<1>5. T + k <= accepted[0] /\ accepted'[0] = accepted[0] - k
  <2>1. T + k <= accepted[0]
    BY <1>2, <1>3, <1>4
  <2>2. accepted[0] - k \in Nat
    BY <1>2, <2>1
  <2> QED BY <2>1, <2>2 DEF Later
<1>6. T <= accepted'[0] /\ \A d \in Drains : T + drain'[d].owed <= accepted'[0]
  BY <1>2, <1>3, <1>4, <1>5
<1> QED BY <1>2, <1>6 DEF Counts, T

OthersWait(e) ==
  \A x \in Emails \ {e} : /\ charge'[x] = charge[x]
                          /\ row'[x].status = "queued" => row[x].status = "queued"

(* A reservation for one email.                                              *)
LEMMA SpentGrows ==
  ASSUME TypeOK, SpentInv, CopyInv', HoldInv', OneDay,
         NEW e \in Emails, NEW k \in Nat,
         accepted'[0] = accepted[0] + k, charge'[e].units = k, OthersWait(e),
         \A d \in Drains : drain'[d].owed = drain[d].owed,
         \A d \in Drains : \A m \in drain'[d].moved :
           \/ m.email = e /\ m.units = k
           \/ m \in drain[d].moved /\ (m.email = e => row[e].status = "queued")
  PROVE  SpentInv'
<1>1. accepted[0] \in Nat
  BY OnlyDay DEF TypeOK, QuotaOK
<1>2. PICK h \in [Emails -> Nat] : Bears(h) /\ Counts(h)
  BY DEF SpentInv
<1>3. h[e] \in Nat /\ h[e] + k \in Nat
  OBVIOUS
<1>4. PICK g \in [Emails -> Nat] : Reloads(g, h, e, h[e] + k)
  BY <1>3, Reload
<1>5. Counts(g)'
  BY <1>1, <1>2, <1>4, DrainTypes, LoadGrows
<1>6. ASSUME NEW d \in Drains, NEW m \in drain'[d].moved
      PROVE  /\ m.email = e \/ m \in drain[d].moved
             /\ m.email = e => m.units <= h[e] + k
  <2>1. CASE m.email = e /\ m.units = k
    BY <1>3, <2>1
  <2>2. CASE m \in drain[d].moved /\ (m.email = e => row[e].status = "queued")
    <3>1. m.email = e => m.units <= h[e] /\ m.units \in Nat
      BY <1>2, <2>2, DrainTypes DEF Bears
    <3> QED BY <1>3, <2>2, <3>1
  <2> QED BY <2>1, <2>2
<1>7. charge'[e].units <= h[e] + k
  BY <1>3
<1>8. PICK n \in Nat : n = h[e] + k
  BY <1>3
<1>9. Bears(g)'
  <2>1. \A x \in Emails \ {e} :
          /\ charge'[x] = charge[x]
          /\ row'[x].status = "queued" => row[x].status = "queued"
    BY DEF OthersWait
  <2>2. /\ Reloads(g, h, e, n) /\ charge'[e].units <= n
        /\ \A d \in Drains : \A m \in drain'[d].moved : m.email = e \/ m \in drain[d].moved
        /\ \A d \in Drains : \A m \in drain'[d].moved : m.email = e => m.units <= n
    BY <1>4, <1>6, <1>7, <1>8
  <2> QED BY <1>2, <2>1, <2>2, BearsKept
<1> QED BY <1>5, <1>9 DEF SpentInv

(* The units of an email given back.                                         *)
LEMMA SpentDrops ==
  ASSUME TypeOK, SpentInv, CopyInv', HoldInv', OneDay,
         NEW e \in Emails, NEW k \in Nat,
         k <= charge[e].units, accepted'[0] = Later(accepted[0] - k, 0),
         charge'[e].units = 0, row'[e].status # "queued", OthersWait(e), drain' = drain
  PROVE  SpentInv'
<1>1. accepted[0] \in Nat
  BY OnlyDay DEF TypeOK, QuotaOK
<1>2. PICK h \in [Emails -> Nat] : Bears(h) /\ Counts(h)
  BY DEF SpentInv
<1>3. h[e] \in Nat /\ k <= h[e]
  BY <1>2 DEF Bears, TypeOK, QuotaOK
<1>4. PICK g \in [Emails -> Nat] : Reloads(g, h, e, 0)
  <2>1. \A n \in Nat : \E g \in [Emails -> Nat] : Reloads(g, h, e, n)
    BY Reload
  <2>2. 0 \in Nat
    OBVIOUS
  <2> QED BY <2>1, <2>2, Zenon
<1>5. Counts(g)'
  BY <1>1, <1>2, <1>3, <1>4, DrainTypes, LoadDrops
<1>6. Bears(g)'
  <2>1. \A x \in Emails \ {e} :
          /\ charge'[x] = charge[x]
          /\ row'[x].status = "queued" => row[x].status = "queued"
    BY DEF OthersWait
  <2>2. charge'[e].units <= 0 /\ 0 \in Nat
    OBVIOUS
  <2> QED BY <1>2, <1>4, <2>1, <2>2, BearsKept
<1> QED BY <1>5, <1>6 DEF SpentInv

(* How rows, charges and lanes change.                                       *)
LEMMA PutShrinks ==
  ASSUME TypeOK, NEW e \in Emails, NEW r, Put(e, r),
         row[e].status # "absent" =>
           /\ r.status # "absent" /\ r.to \subseteq row[e].to
           /\ r.to \ suppressed = row[e].to \ suppressed
  PROVE  RowsShrink
<1>1. \A x \in Emails : row'[x] = IF x = e THEN r ELSE row[x]
  BY DEF Put, TypeOK, RowsOK
<1> QED BY <1>1 DEF RowsShrink

LEMMA SameShrinks ==
  ASSUME row' = row
  PROVE  RowsShrink
BY DEF RowsShrink

LEMMA UnchargeShrinks ==
  ASSUME TypeOK, NEW e \in Emails, NEW r, Put(e, r), Uncharge(e), r.status # "queued"
  PROVE  ChargesShrink /\ OthersWait(e) /\ charge'[e].units = 0 /\ row'[e].status # "queued"
<1>1. \A x \in Emails : row'[x] = IF x = e THEN r ELSE row[x]
  BY DEF Put, TypeOK, RowsOK
<1>2. \A x \in Emails : charge'[x] = IF x = e THEN NoCharge ELSE charge[x]
  BY DEF Uncharge, TypeOK, QuotaOK
<1> QED BY <1>1, <1>2 DEF ChargesShrink, OthersWait, NoCharge

LEMMA PutCharges ==
  ASSUME TypeOK, NEW e \in Emails, NEW r, Put(e, r), charge' = charge,
         r.status = "queued" => row[e].status = "queued"
  PROVE  ChargesShrink
<1>1. \A x \in Emails : row'[x] = IF x = e THEN r ELSE row[x]
  BY DEF Put, TypeOK, RowsOK
<1> QED BY <1>1 DEF ChargesShrink

LEMMA SameCharges ==
  ASSUME row' = row, charge' = charge
  PROVE  ChargesShrink
BY DEF ChargesShrink

LEMMA LaneStays ==
  ASSUME lane' = lane
  PROVE  LanesKeep
BY DEF LanesKeep

LEMMA LanePasses ==
  ASSUME TypeOK, NEW l \in Lanes, NEW r, lane' = [lane EXCEPT ![l] = r],
         r.pc \in CopyPcs =>
           /\ lane[l].pc \in CopyPcs /\ r.email = lane[l].email
           /\ r.to \ suppressed = lane[l].to \ suppressed
  PROVE  LanesKeep
<1>1. \A m \in Lanes : lane'[m] = IF m = l THEN r ELSE lane[m]
  BY DEF TypeOK, LanesOK
<1> QED BY <1>1 DEF LanesKeep

LEMMA LaneFinishes ==
  ASSUME TypeOK, NEW l \in Lanes, Finish(l)
  PROVE  LanesKeep
<1>1. IdleLane.pc \notin CopyPcs
  BY DEF IdleLane, CopyPcs
<1> QED BY <1>1, LanePasses DEF Finish

LEMMA LaneGoes ==
  ASSUME TypeOK, NEW l \in Lanes, NEW pc, Goto(l, pc), pc \in CopyPcs => lane[l].pc \in CopyPcs
  PROVE  LanesKeep
<1>1. lane[l] \in LaneRecords
  BY DEF TypeOK, LanesOK
<1>2. PICK r : r = [lane[l] EXCEPT !.pc = pc]
  OBVIOUS
<1>3. r.pc = pc /\ r.email = lane[l].email /\ r.to = lane[l].to
  BY <1>1, <1>2 DEF LaneRecords
<1>4. lane' = [lane EXCEPT ![l] = r]
  BY <1>2 DEF Goto
<1> QED BY <1>3, <1>4, LanePasses

LEMMA DrainStays ==
  ASSUME TypeOK, drain' = drain
  PROVE  DrainsKeep
<1>1. \A d \in Drains : drain'[d].owed \in {0, drain[d].owed}
  OBVIOUS
<1>2. \A d \in Drains : drain'[d].pc # "refund" => drain[d].pc # "refund"
  OBVIOUS
<1> QED BY <1>1, <1>2 DEF DrainsKeep

LEMMA DrainPasses ==
  ASSUME TypeOK, NEW d \in Drains, NEW r, drain' = [drain EXCEPT ![d] = r],
         r.page \subseteq drain[d].page, r.moved \subseteq drain[d].moved,
         r.owed = 0 \/ (r.owed = drain[d].owed /\ drain[d].pc # "refund")
  PROVE  DrainsKeep
<1>1. \A c \in Drains : drain'[c] = IF c = d THEN r ELSE drain[c]
  BY DEF TypeOK, DrainsOK
<1>2. ASSUME NEW c \in Drains
      PROVE  /\ drain'[c].page \subseteq drain[c].page /\ drain'[c].moved \subseteq drain[c].moved
             /\ drain'[c].owed \in {0, drain[c].owed}
             /\ drain'[c].pc # "refund" => drain[c].pc # "refund" \/ drain'[c].owed = 0
  <2>1. CASE c = d
    BY <1>1, <2>1
  <2>2. CASE c # d
    BY <1>1, <2>2
  <2> QED BY <2>1, <2>2
<1> QED BY <1>2 DEF DrainsKeep

(* A step that ends a row, charges nothing and gives nothing back.           *)
LEMMA EndSpent ==
  ASSUME TypeOK, SpentInv, NEW e \in Emails, NEW r, Put(e, r), Uncharge(e),
         r.status \notin {"queued", "absent"}, r.to = row[e].to,
         LanesKeep, DrainsKeep, suppressed' = suppressed, accepted' = accepted
  PROVE  SpentInv'
BY PutShrinks, UnchargeShrinks, CalmSpent

(* A step that rewrites a row without moving it.                             *)
LEMMA EditSpent ==
  ASSUME TypeOK, SpentInv, NEW e \in Emails, NEW r, Put(e, r), charge' = charge,
         row[e].status # "absent" => r.status # "absent", r.to = row[e].to,
         r.status = "queued" => row[e].status = "queued",
         LanesKeep, DrainsKeep, suppressed \subseteq suppressed', accepted' = accepted
  PROVE  SpentInv'
BY PutShrinks, PutCharges, CalmSpent

LEMMA FrameSpent ==
  ASSUME TypeOK, SpentInv, row' = row, charge' = charge, LanesKeep, DrainsKeep,
         suppressed \subseteq suppressed', accepted' = accepted
  PROVE  SpentInv'
BY SameShrinks, SameCharges, CalmSpent

(* A step that sends nothing into the queue, gives nothing back and leaves   *)
(* every row on its date.                                                    *)
DatesStay ==
  \A e \in Emails : row[e].status # "absent" => row'[e].scheduledAt = row[e].scheduledAt

CalmStep ==
  /\ RowsShrink /\ ChargesShrink /\ DatesStay /\ LanesKeep /\ DrainsKeep
  /\ suppressed \subseteq suppressed' /\ accepted' = accepted

LEMMA PutDates ==
  ASSUME TypeOK, NEW e \in Emails, NEW r, Put(e, r),
         row[e].status # "absent" => r.scheduledAt = row[e].scheduledAt
  PROVE  DatesStay
<1>1. \A x \in Emails : row'[x] = IF x = e THEN r ELSE row[x]
  BY DEF Put, TypeOK, RowsOK
<1> QED BY <1>1 DEF DatesStay

(* A step that ends a row is calm.                                           *)
LEMMA EndCalm ==
  ASSUME TypeOK, CopyInv, NEW e \in Emails, NEW r, Put(e, r), Uncharge(e),
         r.status \notin {"queued", "absent"}, r.to = row[e].to,
         r.scheduledAt = row[e].scheduledAt,
         LanesKeep, DrainsKeep, suppressed' = suppressed, accepted' = accepted
  PROVE  CalmStep
BY PutShrinks, UnchargeShrinks, PutDates DEF CalmStep

(* So is one that rewrites a row without moving it, or no row at all.        *)
LEMMA EditCalm ==
  ASSUME TypeOK, CopyInv, NEW e \in Emails, NEW r, Put(e, r), charge' = charge,
         row[e].status # "absent" => r.status # "absent", r.to = row[e].to,
         r.scheduledAt = row[e].scheduledAt,
         r.status = "queued" => row[e].status = "queued",
         LanesKeep, DrainsKeep, suppressed \subseteq suppressed', accepted' = accepted
  PROVE  CalmStep
BY PutShrinks, PutCharges, PutDates DEF CalmStep

LEMMA FrameCalm ==
  ASSUME TypeOK, CopyInv, row' = row, charge' = charge, LanesKeep, DrainsKeep,
         suppressed \subseteq suppressed', accepted' = accepted
  PROVE  CalmStep
BY SameShrinks, SameCharges DEF CalmStep, DatesStay

LEMMA EndedKeeps ==
  ASSUME NEW r \in Rows(Times), NEW status \in Statuses, NEW why
  PROVE  /\ Ended(r, status, why).status = status /\ Ended(r, status, why).to = r.to
         /\ Ended(r, status, why).scheduledAt = r.scheduledAt
BY DEF Ended, Rows

LEMMA RefuseCalm ==
  ASSUME TypeOK, CopyInv, NEW e \in Emails, Refuse(e),
         LanesKeep, DrainsKeep, suppressed' = suppressed, accepted' = accepted
  PROVE  CalmStep
<1>1. CASE CanEnd(row[e]) /\ CanTransition(row[e], "queued")
  <2>1. PICK r : r = Ended(row[e], "suppressed", "ineligible")
    OBVIOUS
  <2>2. /\ r.status = "suppressed" /\ r.to = row[e].to
        /\ r.scheduledAt = row[e].scheduledAt
    BY <2>1, EndedKeeps DEF Statuses, TypeOK, RowsOK
  <2>3. Put(e, r) /\ Uncharge(e)
    BY <1>1, <2>1 DEF Refuse
  <2> QED BY <2>2, <2>3, EndCalm
<1>2. CASE ~(CanEnd(row[e]) /\ CanTransition(row[e], "queued"))
  BY <1>2, FrameCalm DEF Refuse
<1> QED BY <1>1, <1>2

(* What a lane still writes to is no more than the row has.                  *)
LEMMA StripCalm ==
  ASSUME TypeOK, CopyInv, NEW l \in Lanes, lane[l].pc \in CopyPcs,
         NEW to, to = lane[l].to \ suppressed,
         Put(lane[l].email, Stripped(row[lane[l].email], to)), charge' = charge,
         LanesKeep, DrainsKeep, suppressed' = suppressed, accepted' = accepted
  PROVE  CalmStep
<1>1. PICK e \in Emails : e = lane[l].email
  BY DEF TypeOK, LanesOK, CopyPcs
<1>2. /\ row[e].status # "absent" /\ to = row[e].to \ suppressed
      /\ row[e] \in Rows(Times)
  BY <1>1 DEF CopyInv, TypeOK, RowsOK
<1>3. PICK r : r = Stripped(row[e], to)
  OBVIOUS
<1>4. /\ r.status = row[e].status /\ r.to \subseteq row[e].to
      /\ r.to \ suppressed = row[e].to \ suppressed /\ r.scheduledAt = row[e].scheduledAt
  BY <1>2, <1>3 DEF Stripped, Rows
<1>5. Put(e, r)
  BY <1>1, <1>3
<1>6. RowsShrink /\ ChargesShrink /\ DatesStay
  BY <1>2, <1>4, <1>5, PutShrinks, PutCharges, PutDates
<1> QED BY <1>6 DEF CalmStep

LEMMA CheckEligibleCalm ==
  ASSUME TypeOK, CopyInv, NEW l \in Lanes, CheckEligible(l)
  PROVE  CalmStep
<1> DEFINE e == lane[l].email
           to == lane[l].to \ suppressed
<1>1. lane[l].pc = "eligible" /\ e \in Emails /\ lane[l] \in LaneRecords
  BY DEF CheckEligible, TypeOK, LanesOK
<1>2. /\ DrainsKeep /\ suppressed' = suppressed /\ accepted' = accepted
  BY DrainStays DEF CheckEligible
<1>3. CASE Refuse(e) /\ Finish(l)
  BY <1>1, <1>2, <1>3, LaneFinishes, RefuseCalm
<1>4. CASE /\ IF to = lane[l].to THEN UNCHANGED row ELSE Put(e, Stripped(row[e], to))
           /\ lane' = [lane EXCEPT ![l].pc = "render", ![l].to = to]
           /\ UNCHANGED charge
  <2>1. PICK r : r = [lane[l] EXCEPT !.pc = "render", !.to = to]
    OBVIOUS
  <2>2. r.email = e /\ r.to = to
    BY <1>1, <2>1 DEF LaneRecords
  <2>3. lane' = [lane EXCEPT ![l] = r]
    BY <1>4, <2>1
  <2>4. lane[l].pc \in CopyPcs /\ r.to \ suppressed = lane[l].to \ suppressed
    BY <1>1, <2>2 DEF CopyPcs
  <2>5. LanesKeep
    BY <2>2, <2>3, <2>4, LanePasses
  <2>6. CASE row' = row
    BY <1>2, <1>4, <2>5, <2>6, FrameCalm
  <2>7. CASE Put(e, Stripped(row[e], to))
    BY <1>2, <1>4, <2>4, <2>5, <2>7, StripCalm
  <2> QED BY <1>4, <2>6, <2>7
<1> QED BY <1>3, <1>4 DEF CheckEligible

LEMMA RecheckCalm ==
  ASSUME TypeOK, CopyInv, NEW l \in Lanes, Recheck(l)
  PROVE  CalmStep
<1> DEFINE e == lane[l].email
           to == lane[l].to \ suppressed
<1>1. lane[l].pc = "recheck" /\ e \in Emails /\ lane[l].pc \in CopyPcs
  BY DEF Recheck, TypeOK, LanesOK, CopyPcs
<1>2. /\ DrainsKeep /\ suppressed' = suppressed /\ accepted' = accepted
  BY DrainStays DEF Recheck
<1>3. CASE Refuse(e) /\ Finish(l)
  BY <1>1, <1>2, <1>3, LaneFinishes, RefuseCalm
<1>4. CASE Put(e, Stripped(row[e], to)) /\ Finish(l) /\ UNCHANGED charge
  BY <1>1, <1>2, <1>4, LaneFinishes, StripCalm
<1>5. CASE Goto(l, "claim") /\ UNCHANGED <<row, charge>>
  BY <1>1, <1>2, <1>5, LaneGoes, FrameCalm
<1> QED BY <1>3, <1>4, <1>5 DEF Recheck

LEMMA FailCalm ==
  ASSUME TypeOK, CopyInv, NEW l \in Lanes, Fail(l)
  PROVE  CalmStep
<1>1. lane[l].email \in Emails /\ row[lane[l].email] \in Rows(Times)
  BY DEF Fail, TypeOK, LanesOK, RowsOK
<1>2. /\ DrainsKeep /\ suppressed' = suppressed /\ accepted' = accepted /\ LanesKeep
  BY DrainStays, LaneFinishes DEF Fail
<1>3. CASE row' = row /\ charge' = charge
  BY <1>2, <1>3, FrameCalm
<1>4. CASE /\ Put(lane[l].email, Ended(row[lane[l].email], "failed", "refused"))
           /\ Uncharge(lane[l].email)
  BY <1>1, <1>2, <1>4, EndedKeeps, EndCalm DEF Statuses
<1> QED BY <1>3, <1>4 DEF Fail

LEMMA ReleaseClaimCalm ==
  ASSUME TypeOK, CopyInv, NEW l \in Lanes, ReleaseClaim(l)
  PROVE  CalmStep
<1>1. lane[l].email \in Emails /\ row[lane[l].email] \in Rows(Times)
  BY DEF ReleaseClaim, TypeOK, LanesOK, RowsOK
<1>2. /\ DrainsKeep /\ suppressed' = suppressed /\ accepted' = accepted /\ charge' = charge
  BY DrainStays DEF ReleaseClaim, quota
<1>3. LanesKeep
  <2>1. CASE Goto(l, "park")
    BY <2>1, LaneGoes DEF CopyPcs
  <2> QED BY <2>1, LaneFinishes DEF ReleaseClaim
<1>4. CASE row' = row
  BY <1>2, <1>3, <1>4, FrameCalm
<1>5. CASE Put(lane[l].email, [row[lane[l].email] EXCEPT !.sentAt = NoTime])
  <2>1. PICK r : r = [row[lane[l].email] EXCEPT !.sentAt = NoTime]
    OBVIOUS
  <2>2. /\ r.status = row[lane[l].email].status /\ r.to = row[lane[l].email].to
        /\ r.scheduledAt = row[lane[l].email].scheduledAt
    BY <1>1, <2>1 DEF Rows
  <2> QED BY <1>1, <1>2, <1>3, <1>5, <2>1, <2>2, EditCalm
<1> QED BY <1>4, <1>5 DEF ReleaseClaim

LEMMA ClaimCalm ==
  ASSUME TypeOK, CopyInv, NEW l \in Lanes, Claim(l)
  PROVE  CalmStep
<1>1. lane[l].email \in Emails /\ row[lane[l].email] \in Rows(Times)
  BY DEF Claim, TypeOK, LanesOK, RowsOK
<1>2. /\ DrainsKeep /\ suppressed' = suppressed /\ accepted' = accepted /\ charge' = charge
  BY DrainStays DEF Claim, quota
<1>3. LanesKeep
  <2>1. CASE Goto(l, "submit")
    BY <2>1, LaneGoes DEF CopyPcs
  <2> QED BY <2>1, LaneFinishes DEF Claim
<1>4. CASE row' = row
  BY <1>2, <1>3, <1>4, FrameCalm
<1>5. CASE Put(lane[l].email, [row[lane[l].email] EXCEPT !.sentAt = now])
  <2>1. PICK r : r = [row[lane[l].email] EXCEPT !.sentAt = now]
    OBVIOUS
  <2>2. /\ r.status = row[lane[l].email].status /\ r.to = row[lane[l].email].to
        /\ r.scheduledAt = row[lane[l].email].scheduledAt
    BY <1>1, <2>1 DEF Rows
  <2> QED BY <1>1, <1>2, <1>3, <1>5, <2>1, <2>2, EditCalm
<1> QED BY <1>4, <1>5 DEF Claim

LEMMA RecordCalm ==
  ASSUME TypeOK, CopyInv, NEW l \in Lanes, Record(l)
  PROVE  CalmStep
<1>1. lane[l].email \in Emails /\ row[lane[l].email] \in Rows(Times)
  BY DEF Record, TypeOK, LanesOK, RowsOK
<1>2. /\ DrainsKeep /\ suppressed' = suppressed /\ accepted' = accepted /\ charge' = charge
      /\ LanesKeep
  BY DrainStays, LaneGoes DEF Record, quota, CopyPcs
<1>3. PICK r : r = [row[lane[l].email] EXCEPT !.sesId = took[lane[l].email]]
  OBVIOUS
<1>4. /\ r.status = row[lane[l].email].status /\ r.to = row[lane[l].email].to
      /\ r.scheduledAt = row[lane[l].email].scheduledAt
  BY <1>1, <1>3 DEF Rows
<1> QED BY <1>1, <1>2, <1>3, <1>4, EditCalm DEF Record

LEMMA CasKeeps ==
  ASSUME NEW r \in Rows(Times), NEW s \in SesStatuses
  PROVE  /\ StatusCas(r, s).to = r.to /\ StatusCas(r, s).scheduledAt = r.scheduledAt
         /\ StatusCas(r, s).status \in {r.status} \cup SesStatuses
BY DEF StatusCas, Rows

LEMMA FlipSentCalm ==
  ASSUME TypeOK, CopyInv, NEW l \in Lanes, FlipSent(l)
  PROVE  CalmStep
<1>1. lane[l].email \in Emails /\ row[lane[l].email] \in Rows(Times)
  BY DEF FlipSent, TypeOK, LanesOK, RowsOK
<1>2. /\ DrainsKeep /\ suppressed' = suppressed /\ accepted' = accepted /\ charge' = charge
      /\ LanesKeep
  BY DrainStays, LaneGoes DEF FlipSent, quota, CopyPcs
<1>3. PICK r : r = StatusCas(row[lane[l].email], "sent")
  OBVIOUS
<1>4. /\ r.status \in {row[lane[l].email].status} \cup SesStatuses /\ r.to = row[lane[l].email].to
      /\ r.scheduledAt = row[lane[l].email].scheduledAt
  BY <1>1, <1>3, CasKeeps DEF SesStatuses
<1>5. "queued" \notin SesStatuses /\ "absent" \notin SesStatuses
  BY DEF SesStatuses
<1> QED BY <1>1, <1>2, <1>3, <1>4, <1>5, EditCalm DEF FlipSent

LEMMA ApplyEventCalm ==
  ASSUME TypeOK, CopyInv, ApplyEvent
  PROVE  CalmStep
<1> DEFINE e == event.email
           joined == IF event.byTag THEN [row[e] EXCEPT !.sesId = event.msg] ELSE row[e]
           next == [joined EXCEPT !.why = IF Climbs(row[e], event.status) THEN "ses_event" ELSE @]
<1>1. /\ e \in Emails /\ row[e] \in Rows(Times) /\ event.msg \in Nat
      /\ event.status \in SesStatuses
  BY DEF ApplyEvent, TypeOK, EventOK, RowsOK
<1>2. /\ DrainsKeep /\ suppressed \subseteq suppressed' /\ accepted' = accepted
      /\ charge' = charge /\ LanesKeep
  BY DrainStays, LaneStays DEF ApplyEvent, quota
<1>3. CASE row' = row
  BY <1>2, <1>3, FrameCalm
<1>4. CASE Put(e, StatusCas(next, event.status))
  <2>1. /\ joined \in Rows(Times) /\ joined.status = row[e].status /\ joined.to = row[e].to
        /\ joined.scheduledAt = row[e].scheduledAt
    BY <1>1 DEF Rows
  <2> HIDE DEF joined
  <2>2. /\ next \in Rows(Times) /\ next.status = row[e].status /\ next.to = row[e].to
        /\ next.scheduledAt = row[e].scheduledAt
    BY <2>1 DEF Rows, Reasons
  <2> HIDE DEF next
  <2>3. PICK r : r = StatusCas(next, event.status)
    OBVIOUS
  <2>4. /\ r.status \in {row[e].status} \cup SesStatuses /\ r.to = row[e].to
        /\ r.scheduledAt = row[e].scheduledAt
    BY <1>1, <2>2, <2>3, CasKeeps
  <2>5. "queued" \notin SesStatuses /\ "absent" \notin SesStatuses
    BY DEF SesStatuses
  <2> QED BY <1>1, <1>2, <1>4, <2>3, <2>4, <2>5, EditCalm
<1> QED BY <1>3, <1>4 DEF ApplyEvent

(* A row that ends outside the lanes.                                        *)
LEMMA EndedCalm ==
  ASSUME TypeOK, CopyInv, NEW e \in Emails, NEW status \in Statuses \ {"queued"}, NEW why,
         Put(e, Ended(row[e], status, why)), Uncharge(e),
         lane' = lane, drain' = drain, suppressed' = suppressed, accepted' = accepted
  PROVE  CalmStep
<1>1. PICK r : r = Ended(row[e], status, why)
  OBVIOUS
<1>2. r.status = status /\ r.to = row[e].to /\ r.scheduledAt = row[e].scheduledAt
  BY <1>1, EndedKeeps DEF TypeOK, RowsOK
<1> QED BY <1>1, <1>2, LaneStays, DrainStays, EndCalm DEF Statuses

LEMMA DeadLetterCalm ==
  ASSUME TypeOK, CopyInv, NEW e \in Emails, DeadLetter(e)
  PROVE  CalmStep
<1>1. lane' = lane /\ drain' = drain /\ suppressed' = suppressed /\ accepted' = accepted
  BY DEF DeadLetter
<1>2. CASE row' = row /\ charge' = charge
  BY <1>1, <1>2, LaneStays, DrainStays, FrameCalm
<1>3. CASE Put(e, Ended(row[e], "failed", "retries_exhausted")) /\ Uncharge(e)
  BY <1>1, <1>3, EndedCalm DEF Statuses
<1> QED BY <1>2, <1>3 DEF DeadLetter

LEMMA CancelCalm ==
  ASSUME TypeOK, CopyInv, NEW e \in Emails, Cancel(e)
  PROVE  CalmStep
<1>1. PICK r : r = [row[e] EXCEPT !.status = "canceled"]
  OBVIOUS
<1>2. r.status = "canceled" /\ r.to = row[e].to /\ r.scheduledAt = row[e].scheduledAt
  BY <1>1 DEF TypeOK, RowsOK, Rows
<1> QED BY <1>1, <1>2, LaneStays, DrainStays, EndCalm DEF Cancel

LEMMA RecordSuppressedCalm ==
  ASSUME TypeOK, CopyInv, NEW e \in Emails, NEW to \in SUBSET Recipients,
         RecordSuppressed(e, to)
  PROVE  CalmStep
<1>1. PICK r : r = [AbsentRow EXCEPT !.status = "suppressed", !.createdAt = now, !.to = to,
                                     !.why = "ineligible"]
  OBVIOUS
<1>2. r.status = "suppressed"
  BY <1>1 DEF AbsentRow
<1>3. Put(e, r) /\ row[e].status = "absent"
  BY <1>1 DEF RecordSuppressed
<1>4. RowsShrink /\ ChargesShrink /\ DatesStay
  BY <1>2, <1>3, PutShrinks, PutCharges, PutDates DEF RecordSuppressed, quota
<1> QED BY <1>4, LaneStays, DrainStays DEF CalmStep, RecordSuppressed, quota

LEMMA DrainEnqueueCalm ==
  ASSUME TypeOK, CopyInv, NEW d \in Drains, DrainEnqueue(d)
  PROVE  CalmStep
<1>1. /\ drain[d].pc = "release" /\ drain[d] \in DrainRecords
      /\ row' = row /\ charge' = charge /\ suppressed' = suppressed /\ accepted' = accepted
      /\ LanesKeep
  BY LaneStays DEF DrainEnqueue, rows, quota, TypeOK, DrainsOK
<1>2. CASE drain' = [drain EXCEPT ![d] = IdleDrain]
  <2>1. IdleDrain.page = {} /\ IdleDrain.moved = {} /\ IdleDrain.owed = 0
    BY DEF IdleDrain
  <2>2. DrainsKeep
    BY <1>2, <2>1, DrainPasses
  <2> QED BY <1>1, <2>2, FrameCalm
<1>3. CASE drain' = [drain EXCEPT ![d].pc = "repark"]
  <2>1. PICK r : r = [drain[d] EXCEPT !.pc = "repark"]
    OBVIOUS
  <2>2. r.page = drain[d].page /\ r.moved = drain[d].moved /\ r.owed = drain[d].owed
    BY <1>1, <2>1 DEF DrainRecords
  <2>3. drain' = [drain EXCEPT ![d] = r]
    BY <1>3, <2>1
  <2>4. DrainsKeep
    BY <1>1, <2>2, <2>3, DrainPasses
  <2> QED BY <1>1, <2>4, FrameCalm
<1> QED BY <1>2, <1>3 DEF DrainEnqueue

LEMMA DrainStopCalm ==
  ASSUME TypeOK, CopyInv, NEW d \in Drains, DrainStop(d)
  PROVE  CalmStep
<1>1. IdleDrain.page = {} /\ IdleDrain.moved = {} /\ IdleDrain.owed = 0
  BY DEF IdleDrain
<1>2. DrainsKeep
  BY <1>1, DrainPasses DEF DrainStop
<1> QED BY <1>2, LaneStays, FrameCalm DEF DrainStop, rows, quota

LEMMA ExpireCalm ==
  ASSUME TypeOK, CopyInv, NEW l \in Lanes, Expire(l)
  PROVE  CalmStep
<1>1. lane[l] \in LaneRecords
  BY DEF TypeOK, LanesOK
<1>2. PICK r : r = [lane[l] EXCEPT !.tries = NoTime]
  OBVIOUS
<1>3. r.pc = lane[l].pc /\ r.email = lane[l].email /\ r.to = lane[l].to
  BY <1>1, <1>2 DEF LaneRecords
<1>4. lane' = [lane EXCEPT ![l] = r]
  BY <1>2 DEF Expire
<1>5. LanesKeep
  BY <1>3, <1>4, LanePasses
<1> QED BY <1>5, DrainStays, FrameCalm DEF Expire, rows, quota

LEMMA FetchCalm ==
  ASSUME TypeOK, CopyInv, NEW l \in Lanes, NEW e, NEW k,
         FetchNew(l, e) \/ FetchRetry(l, e, k)
  PROVE  CalmStep
<1>1. PICK n : lane' = [lane EXCEPT ![l] = [pc |-> "read", email |-> e, to |-> {}, tries |-> n]]
  BY DEF FetchNew, FetchRetry
<1>2. PICK r : r = [pc |-> "read", email |-> e, to |-> {}, tries |-> n]
  OBVIOUS
<1>3. r.pc \notin CopyPcs
  BY <1>2 DEF CopyPcs
<1>4. LanesKeep
  BY <1>1, <1>2, <1>3, LanePasses
<1> QED BY <1>4, DrainStays, FrameCalm DEF FetchNew, FetchRetry, rows, quota

LEMMA RenderCalm ==
  ASSUME TypeOK, CopyInv, NEW l \in Lanes, Render(l)
  PROVE  CalmStep
<1>1. lane[l].pc \in CopyPcs
  BY DEF Render, CopyPcs
<1>2. LanesKeep
  BY <1>1, LaneGoes, LaneFinishes DEF Render, ComeBack
<1> QED BY <1>2, DrainStays, FrameCalm DEF Render, rows, quota

(* The steps that are not: they let mail into the queue, hand units back,    *)
(* copy a row to a lane, or read and work off a drain's page.                *)
StirsEmail(e) ==
  \/ \E to \in SUBSET Recipients, at \in ScheduleTimes : Accept(e, to, at)
  \/ \E at \in ScheduleTimes : Move(e, at)
  \/ CancelHeld(e)

StirsDrain(d) ==
  \/ DrainPage(d) \/ DrainRefund(d)
  \/ \E m \in drain[d].page : DrainRelease(d, m)
  \/ \E m \in drain[d].moved : DrainRepark(d, m)

Stirs ==
  \/ \E e \in Emails : StirsEmail(e)
  \/ \E l \in Lanes : ReadRow(l) \/ Park(l)
  \/ \E d \in Drains : StirsDrain(d)

LEMMA NextCalm ==
  ASSUME TypeOK, CopyInv, [Next]_vars
  PROVE  CalmStep \/ Stirs
<1>1. ASSUME NEW e \in Emails, ApiStep(e) PROVE CalmStep \/ Stirs
  <2>1. ASSUME NEW to \in SUBSET Recipients, NEW at \in ScheduleTimes, Accept(e, to, at)
        PROVE  CalmStep \/ Stirs
    BY <2>1 DEF StirsEmail, Stirs
  <2>2. ASSUME NEW to \in SUBSET Recipients, RecordSuppressed(e, to) PROVE CalmStep \/ Stirs
    BY <2>2, RecordSuppressedCalm
  <2>3. CASE Enqueue(e) \/ LoseEnqueue(e)
    BY <2>3, LaneStays, DrainStays, FrameCalm DEF Enqueue, LoseEnqueue, rows, quota
  <2>4. CASE Cancel(e)
    BY <2>4, CancelCalm
  <2>5. CASE DeleteDomain(e)
    BY <2>5, EndedCalm DEF DeleteDomain, Statuses
  <2>6. CASE CancelHeld(e)
    BY <2>6 DEF StirsEmail, Stirs
  <2>7. ASSUME NEW at \in ScheduleTimes, Move(e, at) PROVE CalmStep \/ Stirs
    BY <2>7 DEF StirsEmail, Stirs
  <2> QED BY <1>1, <2>1, <2>2, <2>3, <2>4, <2>5, <2>6, <2>7 DEF ApiStep
<1>2. ASSUME NEW e \in Emails, CronStep(e) PROVE CalmStep \/ Stirs
  <2>1. CASE DeadLetter(e)
    BY <2>1, DeadLetterCalm
  <2>2. CASE FailStalled(e)
    BY <2>2, EndedCalm DEF FailStalled, Statuses
  <2>3. CASE Requeue(e)
    BY <2>3, LaneStays, DrainStays, FrameCalm DEF Requeue, rows, quota
  <2> QED BY <1>2, <2>1, <2>2, <2>3 DEF CronStep
<1>3. ASSUME NEW l \in Lanes, LaneStep(l) PROVE CalmStep \/ Stirs
  <2>1. CASE ReadRow(l)
    BY <2>1 DEF Stirs
  <2>2. CASE CheckEligible(l)
    BY <2>2, CheckEligibleCalm
  <2>3. CASE Render(l)
    BY <2>3, RenderCalm
  <2>4. CASE Recheck(l)
    BY <2>4, RecheckCalm
  <2>5. CASE Claim(l)
    BY <2>5, ClaimCalm
  <2>6. CASE SesTakes(l)
    BY <2>6, LaneGoes, DrainStays, FrameCalm DEF SesTakes, CopyPcs, quota
  <2>7. CASE SesTakesUnnamed(l)
    BY <2>7, LaneGoes, DrainStays, FrameCalm DEF SesTakesUnnamed, CopyPcs, quota
  <2>8. CASE SesRefuses(l)
    BY <2>8, LaneGoes, DrainStays, FrameCalm DEF SesRefuses, CopyPcs, rows, quota
  <2>9. CASE SesDeadline(l)
    BY <2>9, LaneFinishes, DrainStays, FrameCalm DEF SesDeadline, quota
  <2>10. CASE ReleaseClaim(l)
    BY <2>10, ReleaseClaimCalm
  <2>11. CASE Fail(l)
    BY <2>11, FailCalm
  <2>12. CASE Park(l)
    BY <2>12 DEF Stirs
  <2>13. CASE Record(l)
    BY <2>13, RecordCalm
  <2>14. CASE FlipSent(l)
    BY <2>14, FlipSentCalm
  <2>15. CASE CountSent(l)
    BY <2>15, LaneFinishes, DrainStays, FrameCalm DEF CountSent, quota
  <2>16. CASE Throw(l)
    BY <2>16, LaneFinishes, DrainStays, FrameCalm DEF Throw, rows, quota
  <2>17. CASE Expire(l)
    BY <2>17, ExpireCalm
  <2>18. ASSUME NEW e \in Emails, NEW k, FetchNew(l, e) \/ FetchRetry(l, e, k) PROVE CalmStep \/ Stirs
    BY <2>18, FetchCalm
  <2> QED BY <1>3, <2>1, <2>2, <2>3, <2>4, <2>5, <2>6, <2>7, <2>8, <2>9, <2>10, <2>11,
             <2>12, <2>13, <2>14, <2>15, <2>16, <2>17, <2>18 DEF LaneStep, LaneWork
<1>4. ASSUME NEW d \in Drains, DrainStep(d) PROVE CalmStep \/ Stirs
  <2>1. CASE DrainPage(d)
    BY <2>1 DEF StirsDrain, Stirs
  <2>2. CASE DrainEnqueue(d)
    BY <2>2, DrainEnqueueCalm
  <2>3. CASE DrainRefund(d)
    BY <2>3 DEF StirsDrain, Stirs
  <2>4. CASE DrainStop(d)
    BY <2>4, DrainStopCalm
  <2>5. ASSUME NEW m \in drain[d].page, DrainRelease(d, m) PROVE CalmStep \/ Stirs
    BY <2>5 DEF StirsDrain, Stirs
  <2>6. ASSUME NEW m \in drain[d].moved, DrainRepark(d, m) PROVE CalmStep \/ Stirs
    BY <2>6 DEF StirsDrain, Stirs
  <2> QED BY <1>4, <2>1, <2>2, <2>3, <2>4, <2>5, <2>6 DEF DrainStep
<1>5. CASE EventStep
  <2>1. CASE ApplyEvent
    BY <2>1, ApplyEventCalm
  <2>2. ASSUME NEW e, NEW m, NEW s, LookUp(e, m, s) PROVE CalmStep \/ Stirs
    BY <2>2, LaneStays, DrainStays, FrameCalm DEF LookUp, rows, quota
  <2> QED BY <1>5, <2>1, <2>2 DEF EventStep
<1>6. ASSUME NEW r \in Recipients, Suppress(r) PROVE CalmStep \/ Stirs
  BY <1>6, LaneStays, DrainStays, FrameCalm DEF Suppress, rows, quota
<1>7. CASE Tick
  BY <1>7, LaneStays, DrainStays, FrameCalm DEF Tick, rows, quota
<1>8. CASE UNCHANGED vars
  BY <1>8, LaneStays, DrainStays, FrameCalm DEF vars, rows, quota
<1> QED BY <1>1, <1>2, <1>3, <1>4, <1>5, <1>6, <1>7, <1>8 DEF Next

(* The lane copies the row it reads.                                         *)
LEMMA CopyRead ==
  ASSUME TypeOK, CopyInv, NEW l \in Lanes, row[lane[l].email].status = "queued",
         NEW pc, lane' = [lane EXCEPT ![l].pc = pc, ![l].to = row[lane[l].email].to],
         row' = row, suppressed' = suppressed
  PROVE  CopyInv'
<1>1. lane[l] \in LaneRecords
  BY DEF TypeOK, LanesOK
<1>2. PICK r : r = [lane[l] EXCEPT !.pc = pc, !.to = row[lane[l].email].to]
  OBVIOUS
<1>3. r.email = lane[l].email /\ r.to = row[lane[l].email].to
  BY <1>1, <1>2 DEF LaneRecords
<1>4. \A k \in Lanes : lane'[k] = IF k = l THEN r ELSE lane[k]
  BY <1>2 DEF TypeOK, LanesOK
<1> QED BY <1>3, <1>4, ZenonT(60) DEF CopyInv

LEMMA ReadRowSpent ==
  ASSUME TypeOK, SpentInv, NEW l \in Lanes, ReadRow(l)
  PROVE  SpentInv'
<1>1. /\ row' = row /\ charge' = charge /\ suppressed' = suppressed /\ accepted' = accepted
      /\ drain' = drain /\ DrainsKeep
  BY DrainStays DEF ReadRow, rows, quota
<1>2. CASE Finish(l)
  BY <1>1, <1>2, LaneFinishes, FrameSpent
<1>3. ASSUME row[lane[l].email].status = "queued", NEW pc \in {"eligible", "park"},
             lane' = [lane EXCEPT ![l].pc = pc, ![l].to = row[lane[l].email].to]
      PROVE  SpentInv'
  <2>1. CopyInv'
    BY <1>1, <1>3, CopyRead DEF SpentInv
  <2>2. HoldInv'
    BY <1>1 DEF SpentInv, HoldInv
  <2>3. ChargesShrink /\ DrainsForget
    BY <1>1, SameCharges DEF DrainsForget
  <2> QED BY <1>1, <2>1, <2>2, <2>3, CountKept
<1> QED BY <1>2, <1>3 DEF ReadRow

(* A row enters, or stays in, the queue with a reservation of its own.       *)
LEMMA ReserveSpent ==
  ASSUME TypeOK, SpentInv, OneDay, NEW e \in Emails, NEW r, NEW k \in Nat, NEW day \in Days,
         Put(e, r), Reserve(e, day, k), Units(r.to) <= k,
         row[e].status # "absent" => r.status # "absent" /\ r.to = row[e].to,
         lane' = lane, suppressed' = suppressed, DrainsHold,
         \A d \in Drains : drain'[d].owed = drain[d].owed,
         \A d \in Drains : \A m \in drain'[d].moved :
           \/ m.email = e /\ m.units = k
           \/ m \in drain[d].moved /\ (m.email = e => row[e].status = "queued")
  PROVE  SpentInv'
<1>1. day = 0 /\ accepted \in [Days -> Nat]
  BY OnlyDay DEF TypeOK, QuotaOK
<1>2. /\ accepted'[0] = accepted[0] + k
      /\ \A x \in Emails : charge'[x] = IF x = e THEN [day |-> day, units |-> k] ELSE charge[x]
  BY <1>1 DEF Reserve, TypeOK, QuotaOK
<1>3. \A x \in Emails : row'[x] = IF x = e THEN r ELSE row[x]
  BY DEF Put, TypeOK, RowsOK
<1>4. OthersWait(e) /\ charge'[e].units = k
  BY <1>2, <1>3 DEF OthersWait
<1>5. ChargesFit
  BY <1>2, <1>3, <1>4 DEF ChargesFit
<1>6. RowsShrink
  BY PutShrinks
<1>7. CopyInv'
  BY <1>6, LaneStays, CopyKept DEF SpentInv
<1>8. HoldInv'
  BY <1>5, <1>6, HoldKept DEF SpentInv
<1> QED BY <1>2, <1>4, <1>7, <1>8, SpentGrows

LEMMA AcceptSpent ==
  ASSUME TypeOK, SpentInv, OneDay, NEW e \in Emails, NEW to \in SUBSET Recipients,
         NEW at \in ScheduleTimes, Accept(e, to, at)
  PROVE  SpentInv'
<1> DEFINE kept == to \ suppressed
           day == Day(Later(at, now))
<1>1. /\ row[e].status = "absent" /\ Units(kept) \in Nat
      /\ lane' = lane /\ drain' = drain /\ suppressed' = suppressed
  BY UnitsNat DEF Accept
<1>2. day \in Days
  BY AskedTime, LaterTime, DayInDays DEF TypeOK, ClockOK
<1>3. PICK held \in BOOLEAN :
        LET admit == ~held /\ HasRoom(day, Units(kept)) IN
        /\ Put(e, [AbsentRow EXCEPT
                    !.status = IF admit THEN "queued" ELSE "queued_quota",
                    !.createdAt = now, !.scheduledAt = at, !.to = kept])
        /\ IF admit THEN Reserve(e, day, Units(kept)) ELSE UNCHANGED quota
  BY DEF Accept
<1>4. PICK admit \in BOOLEAN : admit = (~held /\ HasRoom(day, Units(kept)))
  OBVIOUS
<1>5. PICK r : r = [AbsentRow EXCEPT
                    !.status = IF admit THEN "queued" ELSE "queued_quota",
                    !.createdAt = now, !.scheduledAt = at, !.to = kept]
  OBVIOUS
<1>6. /\ r.status = (IF admit THEN "queued" ELSE "queued_quota") /\ r.to = kept
  BY <1>5 DEF AbsentRow
<1>7. Put(e, r) /\ IF admit THEN Reserve(e, day, Units(kept)) ELSE UNCHANGED quota
  BY <1>3, <1>4, <1>5
<1>8. PICK k \in Nat : k = Units(kept)
  BY <1>1
<1>9. CASE admit
  <2>1. Reserve(e, day, k) /\ Units(r.to) <= k
    BY <1>6, <1>7, <1>8, <1>9
  <2>2. DrainsHold /\ \A d \in Drains : drain'[d].owed = drain[d].owed
    BY <1>1, DrainStays DEF DrainsHold, DrainsKeep
  <2>3. \A d \in Drains : \A m \in drain'[d].moved : m \in drain[d].moved /\ m.email # e
    BY <1>1 DEF SpentInv, HoldInv
  <2> QED BY <1>1, <1>2, <1>7, <2>1, <2>2, <2>3, ReserveSpent
<1>10. CASE ~admit
  <2>1. r.status = "queued_quota" /\ accepted' = accepted /\ charge' = charge
    BY <1>6, <1>7, <1>10 DEF quota
  <2>2. RowsShrink /\ ChargesShrink
    BY <1>1, <1>7, <2>1, PutShrinks, PutCharges
  <2> QED BY <1>1, <2>1, <2>2, LaneStays, DrainStays, CalmSpent
<1> QED BY <1>9, <1>10

LEMMA MoveSpent ==
  ASSUME TypeOK, SpentInv, OneDay, NEW e \in Emails, NEW at \in ScheduleTimes, Move(e, at)
  PROVE  SpentInv'
<1> DEFINE old == row[e].scheduledAt
           day == Day(Later(at, now))
           n == Units(row[e].to)
<1>1. /\ row[e] \in Rows(Times) /\ n \in Nat /\ row[e].status \in Waiting
      /\ lane' = lane /\ drain' = drain /\ suppressed' = suppressed
  BY UnitsNat DEF Move, Reachable, TypeOK, RowsOK, Rows
<1>2. day \in Days
  BY AskedTime, LaterTime, DayInDays DEF TypeOK, ClockOK
<1>3. PICK r : r = [row[e] EXCEPT !.scheduledAt = at]
  OBVIOUS
<1>4. PICK p : p = [r EXCEPT !.status = "queued_quota"]
  OBVIOUS
<1>5. /\ r.status = row[e].status /\ r.to = row[e].to
      /\ p.status = "queued_quota" /\ p.to = row[e].to
  BY <1>1, <1>3, <1>4 DEF Rows
<1>6. \/ Put(e, r) /\ accepted' = accepted /\ charge' = charge
      \/ row[e].status = "queued" /\ Put(e, r) /\ Reserve(e, day, n)
      \/ Put(e, p) /\ Uncharge(e) /\ accepted' = accepted
  BY <1>3, <1>4 DEF Move, quota
<1>7. "absent" \notin Waiting
  BY DEF Waiting
<1>8. CASE Put(e, r) /\ accepted' = accepted /\ charge' = charge
  BY <1>1, <1>5, <1>7, <1>8, LaneStays, DrainStays, EditSpent
<1>9. CASE row[e].status = "queued" /\ Put(e, r) /\ Reserve(e, day, n)
  <2>1. PICK k \in Nat : k = n
    BY <1>1
  <2>2. Reserve(e, day, k) /\ Units(r.to) <= k
    BY <1>5, <1>9, <2>1
  <2>3. DrainsHold /\ \A d \in Drains : drain'[d].owed = drain[d].owed
    BY <1>1, DrainStays DEF DrainsHold, DrainsKeep
  <2>4. \A d \in Drains : \A m \in drain'[d].moved :
          m \in drain[d].moved /\ (m.email = e => row[e].status = "queued")
    BY <1>1, <1>9
  <2> QED BY <1>1, <1>2, <1>5, <1>7, <1>9, <2>2, <2>3, <2>4, ReserveSpent
<1>10. CASE Put(e, p) /\ Uncharge(e) /\ accepted' = accepted
  BY <1>1, <1>5, <1>10, LaneStays, DrainStays, EndSpent
<1> QED BY <1>6, <1>8, <1>9, <1>10

(* A row leaves the queue and hands its units back.                          *)
LEMMA ReleaseSpent ==
  ASSUME TypeOK, SpentInv, OneDay, NEW e \in Emails, NEW r, Put(e, r), Uncharge(e),
         row[e].status = "queued", r.status \notin {"queued", "absent"}, r.to = row[e].to,
         Release(Units(row[e].to)), LanesKeep, drain' = drain, suppressed' = suppressed
  PROVE  SpentInv'
<1>1. row[e] \in Rows(Times) /\ Units(row[e].to) \in Nat
  BY UnitsNat DEF TypeOK, RowsOK, Rows
<1>2. PICK k \in Nat : k = Units(row[e].to)
  BY <1>1
<1>3. Day(now) = 0 /\ accepted \in [Days -> Nat] /\ Days = {0}
  BY OnlyDay DEF TypeOK, ClockOK, QuotaOK
<1>4. accepted'[0] = Later(accepted[0] - k, 0)
  BY <1>2, <1>3 DEF Release
<1>5. k <= charge[e].units
  BY <1>2 DEF SpentInv, HoldInv
<1>6. OthersWait(e) /\ charge'[e].units = 0 /\ row'[e].status # "queued" /\ ChargesShrink
  BY UnchargeShrinks
<1>7. RowsShrink
  BY PutShrinks
<1>8. CopyInv'
  BY <1>7, CopyKept DEF SpentInv
<1>9. HoldInv'
  <2>1. ChargesFit
    BY <1>6 DEF ChargesFit, ChargesShrink
  <2>2. DrainsHold
    BY DrainStays DEF DrainsHold, DrainsKeep
  <2> QED BY <1>7, <2>1, <2>2, HoldKept DEF SpentInv
<1> QED BY <1>4, <1>5, <1>6, <1>8, <1>9, SpentDrops

LEMMA CancelHeldSpent ==
  ASSUME TypeOK, SpentInv, OneDay, NEW e \in Emails, CancelHeld(e)
  PROVE  SpentInv'
<1>1. PICK r : r = [row[e] EXCEPT !.status = "canceled"]
  OBVIOUS
<1>2. r.status = "canceled" /\ r.to = row[e].to
  BY <1>1 DEF TypeOK, RowsOK, Rows
<1>3. Put(e, r) /\ Uncharge(e) /\ lane' = lane /\ drain' = drain /\ suppressed' = suppressed
  BY <1>1 DEF CancelHeld
<1>4. CASE row[e].status = "queued"
  BY <1>2, <1>3, <1>4, LaneStays, ReleaseSpent DEF CancelHeld
<1>5. CASE row[e].status # "queued"
  BY <1>2, <1>3, <1>5, LaneStays, DrainStays, EndSpent DEF CancelHeld
<1> QED BY <1>4, <1>5

LEMMA ParkSpent ==
  ASSUME TypeOK, SpentInv, OneDay, NEW l \in Lanes, Park(l)
  PROVE  SpentInv'
<1>1. PICK e \in Emails : e = lane[l].email
  BY DEF Park, TypeOK, LanesOK
<1>2. PICK r : r = [row[e] EXCEPT !.status = "queued_quota"]
  OBVIOUS
<1>3. r.status = "queued_quota" /\ r.to = row[e].to
  BY <1>2 DEF TypeOK, RowsOK, Rows
<1>4. LanesKeep /\ drain' = drain /\ suppressed' = suppressed
  BY LaneFinishes DEF Park
<1>5. CASE CanTransition(row[e], "queued")
  <2>1. /\ Put(e, r) /\ Uncharge(e) /\ Release(Units(row[e].to)) /\ row[e].status = "queued"
    BY <1>1, <1>2, <1>5 DEF Park, CanTransition
  <2> QED BY <1>3, <1>4, <2>1, ReleaseSpent
<1>6. CASE ~CanTransition(row[e], "queued")
  BY <1>1, <1>4, <1>6, DrainStays, FrameSpent DEF Park, quota
<1> QED BY <1>5, <1>6

(* The page is what the rows are as it is read.                              *)
LEMMA DrainPageSpent ==
  ASSUME TypeOK, SpentInv, NEW d \in Drains, DrainPage(d)
  PROVE  SpentInv'
<1> DEFINE due == {e \in Emails : /\ row[e].status = "queued_quota"
                                  /\ row[e].scheduledAt = NoTime
                                     \/ Day(row[e].scheduledAt) <= Day(now)}
           seen(e) == [email |-> e, at |-> row[e].scheduledAt, units |-> Units(row[e].to)]
<1>1. /\ row' = row /\ charge' = charge /\ suppressed' = suppressed /\ accepted' = accepted
      /\ lane' = lane
  BY DEF DrainPage, rows, quota
<1>2. PICK page : page = {seen(e) : e \in due}
  OBVIOUS
<1>3. PICK r : r = [IdleDrain EXCEPT !.pc = "release", !.page = page]
  OBVIOUS
<1>4. r.pc = "release" /\ r.page = page /\ r.moved = {} /\ r.owed = 0
  BY <1>3 DEF IdleDrain
<1>5. drain' = [drain EXCEPT ![d] = r]
  BY <1>2, <1>3 DEF DrainPage
<1>6. \A c \in Drains : drain'[c] = IF c = d THEN r ELSE drain[c]
  BY <1>5 DEF TypeOK, DrainsOK
<1>7. \A m \in page : /\ m.email \in Emails /\ row[m.email].status = "queued_quota"
                      /\ m = seen(m.email) /\ Units(row[m.email].to) = m.units
  BY <1>2
<1>8. \A e \in Emails : Units(row[e].to) \in Nat
  BY UnitsNat DEF TypeOK, RowsOK, Rows
<1> HIDE DEF due, seen
<1>9. HoldInv'
  <2>1. \A m, n \in page : m.email = n.email => m = n
    BY <1>7
  <2>2. \A m \in page : row[m.email].status # "absent" /\ Units(row[m.email].to) <= m.units
    BY <1>7, <1>8
  <2> QED BY <1>1, <1>4, <1>6, <2>1, <2>2 DEF SpentInv, HoldInv
<1>10. CopyInv'
  BY <1>1, SameShrinks, LaneStays, CopyKept DEF SpentInv
<1>11. DrainsForget
  BY <1>4, <1>6 DEF DrainsForget
<1>12. ChargesShrink
  BY <1>1, SameCharges
<1> QED BY <1>1, <1>9, <1>10, <1>11, <1>12, CountKept

LEMMA DrainReleaseSpent ==
  ASSUME TypeOK, SpentInv, OneDay, SoleDrain, NEW d \in Drains, NEW m \in drain[d].page,
         DrainRelease(d, m)
  PROVE  SpentInv'
<1>1. PICK e \in Emails : e = m.email
  BY DrainTypes
<1>2. PICK k \in Nat : k = m.units
  BY DrainTypes
<1>3. /\ drain[d] \in DrainRecords /\ drain[d].pc = "release"
      /\ lane' = lane /\ suppressed' = suppressed /\ Day(now) \in Days
  BY DayInDays DEF DrainRelease, TypeOK, DrainsOK, ClockOK
<1>4. ASSUME NEW page \in SUBSET drain[d].page, drain' = [drain EXCEPT ![d].page = page],
             UNCHANGED <<row, quota>>
      PROVE  SpentInv'
  <2>1. PICK r : r = [drain[d] EXCEPT !.page = page]
    OBVIOUS
  <2>2. r.page = page /\ r.moved = drain[d].moved /\ r.owed = drain[d].owed
    BY <1>3, <2>1 DEF DrainRecords
  <2>3. drain' = [drain EXCEPT ![d] = r]
    BY <1>4, <2>1
  <2>4. DrainsKeep
    BY <1>3, <2>2, <2>3, DrainPasses
  <2> QED BY <1>3, <1>4, <2>4, LaneStays, FrameSpent DEF quota
<1>5. ASSUME CanTransition(row[e], "queued_quota"), Reserve(e, Day(now), k),
             Put(e, [row[e] EXCEPT !.status = "queued"]),
             drain' = [drain EXCEPT ![d].page = drain[d].page \ {m},
                                    ![d].moved = drain[d].moved \cup {m}]
      PROVE  SpentInv'
  <2>1. PICK r : r = [row[e] EXCEPT !.status = "queued"]
    OBVIOUS
  <2>2. r.status = "queued" /\ r.to = row[e].to
    BY <2>1 DEF TypeOK, RowsOK, Rows
  <2>3. PICK q : q = [drain[d] EXCEPT !.page = drain[d].page \ {m},
                                      !.moved = drain[d].moved \cup {m}]
    OBVIOUS
  <2>4. /\ q.page = drain[d].page \ {m} /\ q.moved = drain[d].moved \cup {m}
        /\ q.owed = drain[d].owed /\ q.pc = drain[d].pc
    BY <1>3, <2>3 DEF DrainRecords
  <2>5. \A c \in Drains : drain'[c] = IF c = d THEN q ELSE drain[c]
    BY <1>5, <2>3 DEF TypeOK, DrainsOK
  <2>6. DrainsHold /\ \A c \in Drains : drain'[c].owed = drain[c].owed
    BY <1>3, <2>4, <2>5 DEF DrainsHold
  <2>7. \A c \in Drains : \A n \in drain'[c].moved :
          \/ n.email = e /\ n.units = k
          \/ n \in drain[c].moved /\ n.email # e
    <3>1. \A n \in drain[d].moved : n.email # e
      BY <1>1 DEF SpentInv, HoldInv
    <3>2. \A c \in Drains : c = d
      BY DEF SoleDrain
    <3> QED BY <1>1, <1>2, <2>4, <2>5, <3>1, <3>2
  <2>8. Units(r.to) <= k
    BY <1>1, <1>2, <2>2 DEF SpentInv, HoldInv
  <2>9. Put(e, r)
    BY <1>5, <2>1
  <2>10. PICK day \in Days : day = Day(now)
    BY <1>3
  <2>11. \A c \in Drains : \A n \in drain'[c].moved :
           \/ n.email = e /\ n.units = k
           \/ n \in drain[c].moved /\ (n.email = e => row[e].status = "queued")
    BY <2>7
  <2>12. Reserve(e, day, k)
    BY <1>5, <2>10
  <2> QED BY <1>3, <2>2, <2>6, <2>8, <2>9, <2>11, <2>12, ReserveSpent
<1>6. \/ \E page \in SUBSET drain[d].page :
           drain' = [drain EXCEPT ![d].page = page] /\ UNCHANGED <<row, quota>>
      \/ /\ CanTransition(row[e], "queued_quota") /\ Reserve(e, Day(now), k)
         /\ Put(e, [row[e] EXCEPT !.status = "queued"])
         /\ drain' = [drain EXCEPT ![d].page = drain[d].page \ {m},
                                   ![d].moved = drain[d].moved \cup {m}]
  <2>1. {} \in SUBSET drain[d].page /\ drain[d].page \ {m} \in SUBSET drain[d].page
    OBVIOUS
  <2> QED BY <1>1, <1>2, <2>1, ZenonT(60) DEF DrainRelease
<1> QED BY <1>4, <1>5, <1>6

(* The row is parked again: what it held is now the drain's to give back.    *)
LEMMA DrainReparkSpent ==
  ASSUME TypeOK, SpentInv, OneDay, SoleDrain, NEW d \in Drains, NEW m \in drain[d].moved,
         DrainRepark(d, m)
  PROVE  SpentInv'
<1>1. PICK e \in Emails : e = m.email
  BY DrainTypes
<1>2. PICK k \in Nat : k = m.units
  BY DrainTypes
<1>3. /\ drain[d] \in DrainRecords /\ drain[d].pc = "repark" /\ drain[d].owed = 0
      /\ lane' = lane /\ suppressed' = suppressed /\ accepted' = accepted
  BY DEF DrainRepark, TypeOK, DrainsOK, SpentInv, HoldInv
<1>4. CASE ~CanTransition(row[e], "queued")
  <2>1. PICK r : r = [drain[d] EXCEPT !.moved = drain[d].moved \ {m}]
    OBVIOUS
  <2>2. r.page = drain[d].page /\ r.moved = drain[d].moved \ {m} /\ r.owed = drain[d].owed
    BY <1>3, <2>1 DEF DrainRecords
  <2>3. drain' = [drain EXCEPT ![d] = r] /\ row' = row /\ charge' = charge
    BY <1>1, <1>4, <2>1 DEF DrainRepark
  <2>4. DrainsKeep
    BY <1>3, <2>2, <2>3, DrainPasses
  <2> QED BY <1>3, <2>3, <2>4, LaneStays, FrameSpent
<1>5. CASE CanTransition(row[e], "queued")
  <2>1. PICK r : r = [row[e] EXCEPT !.status = "queued_quota"]
    OBVIOUS
  <2>2. r.status = "queued_quota" /\ r.to = row[e].to /\ row[e].status = "queued"
    BY <1>5, <2>1 DEF TypeOK, RowsOK, Rows, CanTransition
  <2>3. PICK q : q = [drain[d] EXCEPT !.pc = "refund", !.moved = drain[d].moved \ {m},
                                      !.owed = m.units]
    OBVIOUS
  <2>4. /\ q.page = drain[d].page /\ q.moved = drain[d].moved \ {m}
        /\ q.owed = k /\ q.pc = "refund"
    BY <1>2, <1>3, <2>3 DEF DrainRecords
  <2>5. drain' = [drain EXCEPT ![d] = q] /\ Put(e, r) /\ Uncharge(e)
    BY <1>1, <1>5, <2>1, <2>3 DEF DrainRepark
  <2>6. \A c \in Drains : drain'[c] = IF c = d THEN q ELSE drain[c]
    BY <2>5 DEF TypeOK, DrainsOK
  <2>7. OthersWait(e) /\ charge'[e].units = 0 /\ row'[e].status # "queued" /\ ChargesShrink
    BY <2>2, <2>5, UnchargeShrinks
  <2>8. RowsShrink
    BY <2>2, <2>5, PutShrinks
  <2>9. CopyInv'
    BY <1>3, <2>8, LaneStays, CopyKept DEF SpentInv
  <2>10. HoldInv'
    <3>1. ChargesFit
      BY <2>7 DEF ChargesFit, ChargesShrink
    <3>2. DrainsHold
      BY <2>4, <2>6 DEF DrainsHold
    <3> QED BY <2>8, <3>1, <3>2, HoldKept DEF SpentInv
  <2>11. PICK h \in [Emails -> Nat] : Bears(h) /\ Counts(h)
    BY DEF SpentInv
  <2>12. PICK g \in [Emails -> Nat] : Reloads(g, h, e, 0)
    <3>1. \A n \in Nat : \E g \in [Emails -> Nat] : Reloads(g, h, e, n)
      BY Reload
    <3> QED BY <3>1
  <2>13. Bears(g)'
    <3>1. /\ \A x \in Emails \ {e} :
               /\ charge'[x] = charge[x]
               /\ row'[x].status = "queued" => row[x].status = "queued"
          /\ charge'[e].units <= 0 /\ 0 \in Nat /\ row'[e].status # "queued"
      BY <2>7 DEF OthersWait
    <3>2. \A c \in Drains : \A n \in drain'[c].moved : n.email = e \/ n \in drain[c].moved
      BY <2>4, <2>6
    <3> QED BY <2>11, <2>12, <3>1, <3>2, BearsKept
  <2>14. Counts(g)'
    <3> DEFINE S == Cardinality(Pairs(h))
               T == Cardinality(Pairs(g))
    <3>1. k <= h[e] /\ h[e] \in Nat
      BY <1>1, <1>2, <2>2, <2>11 DEF Bears
    <3>2. IsFiniteSet(Pairs(g)) /\ T \in Nat /\ S \in Nat /\ T + h[e] = S + 0
      BY <2>11, <2>12, Recount DEF Counts
    <3>3. S <= accepted[0] /\ accepted[0] \in Nat
      BY <2>11, OnlyDay DEF Counts, TypeOK, QuotaOK
    <3> HIDE DEF S, T
    <3>4. T <= accepted'[0] /\ T + k <= accepted'[0]
      BY <1>3, <3>1, <3>2, <3>3
    <3>5. \A c \in Drains : drain'[c].owed = k
      BY <2>4, <2>6 DEF SoleDrain
    <3> QED BY <3>2, <3>4, <3>5 DEF Counts, T
  <2> QED BY <2>9, <2>10, <2>13, <2>14 DEF SpentInv
<1> QED BY <1>4, <1>5

LEMMA DrainRefundSpent ==
  ASSUME TypeOK, SpentInv, OneDay, SoleDrain, NEW d \in Drains, DrainRefund(d)
  PROVE  SpentInv'
<1>1. /\ drain[d] \in DrainRecords /\ row' = row /\ charge' = charge
      /\ lane' = lane /\ suppressed' = suppressed /\ drain[d].owed \in Nat
  BY DrainTypes DEF DrainRefund, TypeOK, DrainsOK, rows
<1>2. PICK q : q = [drain[d] EXCEPT !.pc = "repark", !.owed = 0]
  OBVIOUS
<1>3. q.page = drain[d].page /\ q.moved = drain[d].moved /\ q.owed = 0
  BY <1>1, <1>2 DEF DrainRecords
<1>4. drain' = [drain EXCEPT ![d] = q]
  BY <1>2 DEF DrainRefund
<1>5. \A c \in Drains : drain'[c] = IF c = d THEN q ELSE drain[c]
  BY <1>4 DEF TypeOK, DrainsOK
<1>6. DrainsKeep
  BY <1>3, <1>4, DrainPasses
<1>7. RowsShrink /\ ChargesShrink
  BY <1>1, SameShrinks, SameCharges
<1>8. CopyInv'
  BY <1>1, <1>7, LaneStays, CopyKept DEF SpentInv
<1>9. HoldInv'
  <2>1. ChargesFit
    BY <1>7 DEF ChargesFit, ChargesShrink
  <2>2. DrainsHold
    BY <1>6 DEF DrainsHold, DrainsKeep
  <2> QED BY <1>7, <2>1, <2>2, HoldKept DEF SpentInv
<1>10. PICK h \in [Emails -> Nat] : Bears(h) /\ Counts(h)
  BY DEF SpentInv
<1>11. Bears(h)'
  BY <1>1, <1>3, <1>5, <1>10 DEF Bears
<1>12. Counts(h)'
  <2> DEFINE S == Cardinality(Pairs(h))
  <2>1. IsFiniteSet(Pairs(h)) /\ S \in Nat /\ S + drain[d].owed <= accepted[0]
    BY <1>10, FS_CardinalityType DEF Counts
  <2>2. Day(now) = 0 /\ accepted \in [Days -> Nat] /\ Days = {0} /\ accepted[0] \in Nat
    BY OnlyDay DEF TypeOK, ClockOK, QuotaOK
  <2>3. accepted'[0] = Later(accepted[0] - drain[d].owed, 0)
    BY <2>2 DEF DrainRefund, Release
  <2> HIDE DEF S
  <2>4. accepted[0] - drain[d].owed \in Nat
    BY <1>1, <2>1, <2>2
  <2>5. accepted'[0] = accepted[0] - drain[d].owed
    BY <2>3, <2>4 DEF Later
  <2>6. S <= accepted'[0]
    BY <1>1, <2>1, <2>2, <2>5
  <2>7. \A c \in Drains : drain'[c].owed = 0
    BY <1>3, <1>5 DEF SoleDrain
  <2> QED BY <2>1, <2>6, <2>7 DEF Counts, S
<1> QED BY <1>8, <1>9, <1>10, <1>11, <1>12 DEF SpentInv

LEMMA NextSpent ==
  ASSUME TypeOK, SpentInv, OneDay, SoleDrain, [Next]_vars
  PROVE  SpentInv'
<1>1. CopyInv
  BY DEF SpentInv
<1>2. CASE CalmStep
  BY <1>2, CalmSpent DEF CalmStep
<1>3. CASE Stirs
  <2>1. ASSUME NEW e \in Emails, StirsEmail(e) PROVE SpentInv'
    BY <2>1, AcceptSpent, MoveSpent, CancelHeldSpent DEF StirsEmail
  <2>2. ASSUME NEW l \in Lanes, ReadRow(l) \/ Park(l) PROVE SpentInv'
    BY <2>2, ReadRowSpent, ParkSpent
  <2>3. ASSUME NEW d \in Drains, StirsDrain(d) PROVE SpentInv'
    BY <2>3, DrainPageSpent, DrainReleaseSpent, DrainReparkSpent, DrainRefundSpent DEF StirsDrain
  <2> QED BY <1>3, <2>1, <2>2, <2>3 DEF Stirs
<1> QED BY <1>1, <1>2, <1>3, NextCalm

(* Units are reserved only where the day has room.                           *)
CeilingInv == \A d \in Days : accepted[d] <= Ceiling

LEMMA NextUnderCeiling ==
  ASSUME TypeOK, CeilingInv, [Next]_vars
  PROVE  CeilingInv'
<1>1. ASSUME NEW e \in Emails, NEW day \in Days, NEW n \in Nat, HasRoom(day, n), Reserve(e, day, n)
      PROVE  CeilingInv'
  BY <1>1 DEF HasRoom, Reserve, CeilingInv, TypeOK, QuotaOK
<1>2. ASSUME NEW n \in Nat, Release(n) PROVE CeilingInv'
  <2>1. Day(now) \in Days /\ Ceiling \in Nat
    BY DayInDays, SendAssumption DEF TypeOK, ClockOK
  <2>2. \A d \in Days : accepted'[d] \in {accepted[d], Later(accepted[d] - n, 0)}
    BY <1>2, <2>1 DEF Release, TypeOK, QuotaOK
  <2>3. \A d \in Days : Later(accepted[d] - n, 0) <= Ceiling
    BY <2>1 DEF Later, CeilingInv, TypeOK, QuotaOK
  <2> QED BY <2>2, <2>3 DEF CeilingInv
<1>3. ASSUME accepted' = accepted PROVE CeilingInv'
  BY <1>3 DEF CeilingInv
<1>4. \A e \in Emails : Units(row[e].to) \in Nat
  BY UnitsNat DEF TypeOK, RowsOK, Rows
<1>5. \A l \in Lanes : lane[l].pc # "idle" => lane[l].email \in Emails
  BY DEF TypeOK, LanesOK
<1>6. Day(now) \in Days /\ \A at \in ScheduleTimes : Day(Later(at, now)) \in Days
  BY DayInDays, AskedTime, LaterTime DEF TypeOK, ClockOK
<1>7. ASSUME NEW e \in Emails, ApiStep(e) PROVE CeilingInv'
  <2>1. ASSUME NEW to \in SUBSET Recipients, NEW at \in ScheduleTimes, Accept(e, to, at)
        PROVE  CeilingInv'
    BY <2>1, <1>1, <1>3, <1>6, UnitsNat DEF Accept, quota
  <2>2. ASSUME NEW at \in ScheduleTimes, Move(e, at) PROVE CeilingInv'
    BY <2>2, <1>1, <1>3, <1>4, <1>6 DEF Move, quota
  <2>3. CASE CancelHeld(e)
    BY <2>3, <1>2, <1>3, <1>4 DEF CancelHeld
  <2> QED BY <1>7, <2>1, <2>2, <2>3, <1>3
          DEF ApiStep, RecordSuppressed, Enqueue, LoseEnqueue, Cancel, DeleteDomain, quota
<1>8. ASSUME NEW e \in Emails, CronStep(e) PROVE CeilingInv'
  BY <1>8, <1>3 DEF CronStep, DeadLetter, FailStalled, Requeue, quota
<1>9. ASSUME NEW l \in Lanes, LaneStep(l) PROVE CeilingInv'
  <2>1. CASE Park(l)
    BY <2>1, <1>2, <1>3, <1>4, <1>5 DEF Park, quota
  <2>2. CASE LaneStep(l) /\ ~Park(l)
    BY <2>2, <1>3 DEF LaneStep, LaneWork, ReadRow, CheckEligible, Render, Recheck, Claim,
       SesTakes, SesTakesUnnamed, SesRefuses, SesDeadline, ReleaseClaim, Fail, Record,
       FlipSent, CountSent, Throw, Expire, FetchNew, FetchRetry, quota
  <2> QED BY <1>9, <2>1, <2>2
<1>10. ASSUME NEW d \in Drains, DrainStep(d) PROVE CeilingInv'
  <2>1. ASSUME NEW m \in drain[d].page, DrainRelease(d, m) PROVE CeilingInv'
    <3>1. m.email \in Emails /\ m.units \in Nat
      BY DrainTypes
    <3> QED BY <2>1, <3>1, <1>1, <1>3, <1>6 DEF DrainRelease, quota
  <2>2. CASE DrainRefund(d)
    BY <2>2, <1>2, DrainTypes DEF DrainRefund
  <2> QED BY <1>10, <2>1, <2>2, <1>3
          DEF DrainStep, DrainPage, DrainEnqueue, DrainStop, DrainRepark, quota
<1>11. ASSUME EventStep \/ Tick \/ (\E r \in Recipients : Suppress(r)) \/ UNCHANGED vars
       PROVE  CeilingInv'
  BY <1>11, <1>3 DEF EventStep, ApplyEvent, LookUp, Tick, Suppress, vars, quota
<1> QED BY <1>7, <1>8, <1>9, <1>10, <1>11 DEF Next

(* The units of the rows in the queue are covered by the day's counter, and  *)
(* the counter by the plan's ceiling, within one day and with one drain at a *)
(* time: parks, review cancels and refunds after a failed enqueue never give *)
(* back more than the row they park still counts.                            *)
THEOREM ReservationsStay ==
  ASSUME OneDay, SoleDrain
  PROVE  Spec => []ReservationsCovered
<1>1. Init => SpentInv /\ CeilingInv
  <2> SUFFICES ASSUME Init PROVE SpentInv /\ CeilingInv
    OBVIOUS
  <2>1. CopyInv
    BY DEF Init, CopyInv, CopyPcs, IdleLane
  <2>2. HoldInv
    BY DEF Init, HoldInv, AbsentRow, IdleDrain
  <2>3. PICK h \in [Emails -> Nat] : \A e \in Emails : h[e] = 0
    <3>1. [e \in Emails |-> 0] \in [Emails -> Nat]
      OBVIOUS
    <3> QED BY <3>1
  <2>4. Pairs(h) = {}
    BY <2>3 DEF Pairs
  <2>5. Bears(h)
    <3>1. \A e \in Emails : row[e].status = "absent" /\ charge[e].units = 0
      BY DEF Init, AbsentRow, NoCharge
    <3> QED BY <2>3, <3>1 DEF Bears
  <2>6. accepted[0] = 0 /\ CeilingInv
    BY OnlyDay, SendAssumption DEF Init, CeilingInv
  <2>7. Counts(h)
    BY <2>4, <2>6, FS_EmptySet DEF Init, Counts, IdleDrain
  <2> QED BY <2>1, <2>2, <2>5, <2>6, <2>7 DEF SpentInv
<1>2. TypeOK /\ SpentInv /\ CeilingInv /\ [Next]_vars => SpentInv' /\ CeilingInv'
  BY NextSpent, NextUnderCeiling
<1>3. TypeOK /\ SpentInv /\ CeilingInv => ReservationsCovered
  <2> SUFFICES ASSUME TypeOK, SpentInv, CeilingInv PROVE ReservationsCovered
    OBVIOUS
  <2>1. PICK h \in [Emails -> Nat] : Bears(h) /\ Counts(h)
    BY DEF SpentInv
  <2>2. ASSUME NEW c \in Reserved(0) PROVE c \in Pairs(h)
    <3>1. PICK e \in Emails : c \in {e} \X (1..charge[e].units)
      BY <2>2 DEF Reserved
    <3>2. /\ charge[e].units \in Nat /\ charge[e].units <= h[e] /\ h[e] \in Nat
          /\ c = <<e, c[2]>> /\ c[2] \in 1..charge[e].units
      BY <2>1, <3>1 DEF Bears, TypeOK, QuotaOK
    <3> QED BY <3>2 DEF Pairs
  <2>3. /\ Cardinality(Reserved(0)) \in Nat /\ Cardinality(Pairs(h)) \in Nat
        /\ Cardinality(Reserved(0)) <= Cardinality(Pairs(h))
    <3>1. IsFiniteSet(Pairs(h)) /\ Reserved(0) \subseteq Pairs(h)
      BY <2>1, <2>2 DEF Counts
    <3> QED BY <3>1, FS_Subset, FS_CardinalityType
  <2>4. accepted[0] \in Nat /\ Days = {0}
    BY OnlyDay DEF TypeOK, QuotaOK
  <2>5. Cardinality(Reserved(0)) <= accepted[0]
    BY <2>1, <2>3, <2>4 DEF Counts
  <2> QED BY <2>4, <2>5 DEF ReservationsCovered, CeilingInv
<1> QED BY <1>1, <1>2, <1>3, Typing, PTL DEF Spec

-----------------------------------------------------------------------------
(* Mail in the queue for a later day is charged to that day, as long as no   *)
(* PATCH can move a row between a drain's read of it and its release.        *)

NoMoveUnderDrain == Drains = {} \/ MaxMoves = 0

Ahead(e) ==
  row[e].status = "queued" /\ row[e].scheduledAt # NoTime /\ Day(row[e].scheduledAt) > Day(now)
  => /\ charge[e].day = Day(row[e].scheduledAt)
     /\ charge[e].units >= Units(row[e].to)

(* What a drain has read is due, and stays due until it is released.         *)
Due(e) ==
  /\ row[e].status # "absent"
  /\ row[e].scheduledAt = NoTime \/ Day(row[e].scheduledAt) <= Day(now)

PagesDue == \A d \in Drains : \A m \in drain[d].page : Due(m.email)

AheadInv == CopyInv /\ PagesDue /\ \A e \in Emails : Ahead(e)

ClockMoves == now' \in Times /\ now <= now'

PagesShrink == \A d \in Drains : drain'[d].page \subseteq drain[d].page

LEMMA LaterDay ==
  ASSUME NEW t \in Times, NEW u \in Times
  PROVE  /\ Day(t) \in Nat /\ Day(u) \in Nat
         /\ t <= u => Day(t) <= Day(u)
<1>1. t \in Nat /\ u \in Nat /\ DayLength \in Nat \ {0}
  BY SendAssumption DEF Times
<1>2. t \div DayLength \in Nat /\ u \div DayLength \in Nat
  BY <1>1
<1>3. t <= u => t \div DayLength <= u \div DayLength
  BY <1>1
<1> QED BY <1>2, <1>3 DEF Day

LEMMA ClockStays ==
  ASSUME TypeOK, now' = now
  PROVE  ClockMoves
BY SendAssumption DEF ClockMoves, TypeOK, ClockOK, Times

(* Time passes at a tick and at no other step.                               *)
LEMMA NextClock ==
  ASSUME TypeOK, [Next]_vars
  PROVE  ClockMoves
<1>1. CASE Tick
  BY <1>1, SendAssumption DEF Tick, ClockMoves, TypeOK, ClockOK, Times
<1>2. CASE [Next]_vars /\ ~Tick
  <2>1. ASSUME NEW e \in Emails, ApiStep(e) \/ CronStep(e) PROVE now' = now
    BY <2>1 DEF ApiStep, Accept, RecordSuppressed, Enqueue, LoseEnqueue, Cancel, DeleteDomain,
       CancelHeld, Move, CronStep, DeadLetter, FailStalled, Requeue
  <2>2. ASSUME NEW l \in Lanes, LaneStep(l) PROVE now' = now
    BY <2>2 DEF LaneStep, LaneWork, ReadRow, CheckEligible, Render, Recheck, Claim, SesTakes,
       SesTakesUnnamed, SesRefuses, SesDeadline, ReleaseClaim, Fail, Park, Record, FlipSent,
       CountSent, Throw, Expire, FetchNew, FetchRetry
  <2>3. ASSUME NEW d \in Drains, DrainStep(d) PROVE now' = now
    BY <2>3 DEF DrainStep, DrainPage, DrainRelease, DrainEnqueue, DrainRepark, DrainRefund,
       DrainStop
  <2>4. ASSUME EventStep \/ (\E r \in Recipients : Suppress(r)) \/ UNCHANGED vars
        PROVE  now' = now
    BY <2>4 DEF EventStep, ApplyEvent, LookUp, Suppress, vars
  <2>5. now' = now
    BY <1>2, <2>1, <2>2, <2>3, <2>4 DEF Next
  <2> QED BY <2>5, ClockStays
<1> QED BY <1>1, <1>2

(* A date that has come stays come.                                          *)
LEMMA DueKept ==
  ASSUME TypeOK, ClockMoves, NEW e \in Emails, Due(e),
         row'[e].status # "absent", row'[e].scheduledAt = row[e].scheduledAt
  PROVE  Due(e)'
<1>1. CASE row[e].scheduledAt = NoTime
  BY <1>1 DEF Due
<1>2. CASE row[e].scheduledAt # NoTime
  <2>1. row[e].scheduledAt \in Times /\ now \in Times
    BY <1>2 DEF TypeOK, RowsOK, Rows, ClockOK
  <2>2. /\ Day(row[e].scheduledAt) \in Nat /\ Day(now) \in Nat /\ Day(now') \in Nat
        /\ Day(now) <= Day(now')
    BY <2>1, LaterDay DEF ClockMoves
  <2>3. Day(row[e].scheduledAt) <= Day(now)
    BY <1>2 DEF Due
  <2> QED BY <2>2, <2>3 DEF Due
<1> QED BY <1>1, <1>2

(* So does a charge for a day to come, while the row only loses recipients.  *)
LEMMA ChargeKept ==
  ASSUME TypeOK, ClockMoves, NEW e \in Emails, Ahead(e),
         row'[e].status = "queued" =>
           /\ row[e].status = "queued" /\ charge'[e] = charge[e]
           /\ row'[e].scheduledAt = row[e].scheduledAt /\ row'[e].to \subseteq row[e].to
  PROVE  Ahead(e)'
<1> SUFFICES ASSUME row'[e].status = "queued", row'[e].scheduledAt # NoTime,
                    Day(row'[e].scheduledAt) > Day(now')
             PROVE  /\ charge'[e].day = Day(row'[e].scheduledAt)
                    /\ charge'[e].units >= Units(row'[e].to)
  BY DEF Ahead
<1>1. row[e].scheduledAt \in Times /\ now \in Times /\ charge[e].units \in Nat
  BY DEF TypeOK, RowsOK, Rows, ClockOK, QuotaOK
<1>2. /\ Day(row[e].scheduledAt) \in Nat /\ Day(now) \in Nat /\ Day(now') \in Nat
      /\ Day(now) <= Day(now')
  BY <1>1, LaterDay DEF ClockMoves
<1>3. Day(row[e].scheduledAt) > Day(now)
  BY <1>2
<1>4. charge[e].day = Day(row[e].scheduledAt) /\ charge[e].units >= Units(row[e].to)
  BY <1>3 DEF Ahead
<1>5. row'[e].to \in SUBSET row[e].to /\ row[e].to \in SUBSET Recipients
  BY DEF TypeOK, RowsOK, Rows
<1>6. Units(row'[e].to) \in Nat /\ Units(row[e].to) \in Nat /\ Units(row'[e].to) <= Units(row[e].to)
  BY <1>5, UnitsMonotone
<1> QED BY <1>1, <1>4, <1>6

(* Steps that let nothing into the queue and read no page.                   *)
LEMMA PagesKept ==
  ASSUME TypeOK, PagesDue, ClockMoves, RowsShrink, DatesStay, PagesShrink
  PROVE  PagesDue'
<1> SUFFICES ASSUME NEW d \in Drains, NEW m \in drain'[d].page PROVE Due(m.email)'
  BY DEF PagesDue
<1>1. m \in drain[d].page /\ m.email \in Emails
  BY DrainTypes DEF PagesShrink
<1>2. PICK e \in Emails : e = m.email
  BY <1>1
<1>3. Due(e)
  BY <1>1, <1>2 DEF PagesDue
<1>4. row'[e].status # "absent" /\ row'[e].scheduledAt = row[e].scheduledAt
  BY <1>3 DEF Due, RowsShrink, DatesStay
<1>5. Due(e)'
  BY <1>3, <1>4, DueKept
<1> QED BY <1>2, <1>5

LEMMA StillAhead ==
  ASSUME TypeOK, AheadInv, ClockMoves, RowsShrink, ChargesShrink, DatesStay, LanesKeep,
         PagesShrink, suppressed \subseteq suppressed'
  PROVE  AheadInv'
<1>1. CopyInv'
  BY CopyKept DEF AheadInv
<1>2. PagesDue'
  BY PagesKept DEF AheadInv
<1>3. ASSUME NEW e \in Emails PROVE Ahead(e)'
  <2>1. row'[e].status = "queued" =>
          /\ row[e].status = "queued" /\ charge'[e] = charge[e]
          /\ row'[e].scheduledAt = row[e].scheduledAt /\ row'[e].to \subseteq row[e].to
    BY DEF ChargesShrink, DatesStay, RowsShrink
  <2>2. Ahead(e)
    BY DEF AheadInv
  <2> QED BY <2>1, <2>2, ChargeKept
<1> QED BY <1>1, <1>2, <1>3 DEF AheadInv

LEMMA CalmAhead ==
  ASSUME TypeOK, AheadInv, ClockMoves, CalmStep
  PROVE  AheadInv'
BY StillAhead DEF CalmStep, DrainsKeep, PagesShrink

LEMMA FrameAhead ==
  ASSUME TypeOK, AheadInv, ClockMoves, row' = row, charge' = charge, LanesKeep, PagesShrink,
         suppressed \subseteq suppressed'
  PROVE  AheadInv'
BY SameShrinks, SameCharges, StillAhead DEF DatesStay

(* A row that leaves the queue, whatever it hands back.                      *)
LEMMA LeaveAhead ==
  ASSUME TypeOK, AheadInv, ClockMoves, NEW e \in Emails, NEW r, Put(e, r), Uncharge(e),
         r.status \notin {"queued", "absent"}, r.to = row[e].to,
         r.scheduledAt = row[e].scheduledAt, LanesKeep, PagesShrink, suppressed' = suppressed
  PROVE  AheadInv'
BY PutShrinks, UnchargeShrinks, PutDates, StillAhead

LEMMA SamePages ==
  ASSUME drain' = drain
  PROVE  PagesShrink
BY DEF PagesShrink

LEMMA CancelHeldAhead ==
  ASSUME TypeOK, AheadInv, NEW e \in Emails, CancelHeld(e)
  PROVE  AheadInv'
<1>1. PICK r : r = [row[e] EXCEPT !.status = "canceled"]
  OBVIOUS
<1>2. r.status = "canceled" /\ r.to = row[e].to /\ r.scheduledAt = row[e].scheduledAt
  BY <1>1 DEF TypeOK, RowsOK, Rows
<1>3. /\ Put(e, r) /\ Uncharge(e) /\ suppressed' = suppressed
      /\ LanesKeep /\ PagesShrink /\ ClockMoves
  BY <1>1, LaneStays, SamePages, ClockStays DEF CancelHeld
<1> QED BY <1>2, <1>3, LeaveAhead

LEMMA ParkAhead ==
  ASSUME TypeOK, AheadInv, NEW l \in Lanes, Park(l)
  PROVE  AheadInv'
<1>1. PICK e \in Emails : e = lane[l].email
  BY DEF Park, TypeOK, LanesOK
<1>2. PICK r : r = [row[e] EXCEPT !.status = "queued_quota"]
  OBVIOUS
<1>3. r.status = "queued_quota" /\ r.to = row[e].to /\ r.scheduledAt = row[e].scheduledAt
  BY <1>2 DEF TypeOK, RowsOK, Rows
<1>4. LanesKeep /\ PagesShrink /\ suppressed' = suppressed /\ ClockMoves
  BY LaneFinishes, SamePages, ClockStays DEF Park
<1>5. CASE Put(e, r) /\ Uncharge(e)
  BY <1>3, <1>4, <1>5, LeaveAhead
<1>6. CASE row' = row /\ charge' = charge
  BY <1>4, <1>6, FrameAhead
<1> QED BY <1>1, <1>2, <1>5, <1>6 DEF Park, quota

LEMMA ReadRowAhead ==
  ASSUME TypeOK, AheadInv, NEW l \in Lanes, ReadRow(l)
  PROVE  AheadInv'
<1>1. /\ row' = row /\ charge' = charge /\ suppressed' = suppressed /\ drain' = drain
      /\ now' = now /\ ClockMoves /\ PagesShrink
  BY SamePages, ClockStays DEF ReadRow, rows, quota
<1>2. CASE Finish(l)
  BY <1>1, <1>2, LaneFinishes, FrameAhead
<1>3. ASSUME row[lane[l].email].status = "queued", NEW pc \in {"eligible", "park"},
             lane' = [lane EXCEPT ![l].pc = pc, ![l].to = row[lane[l].email].to]
      PROVE  AheadInv'
  <2>1. CopyInv'
    BY <1>1, <1>3, CopyRead DEF AheadInv
  <2>2. PagesDue' /\ \A e \in Emails : Ahead(e)'
    BY <1>1 DEF AheadInv, PagesDue, Due, Ahead
  <2> QED BY <2>1, <2>2 DEF AheadInv
<1> QED BY <1>2, <1>3 DEF ReadRow

(* A step that rewrites one row and its charge alone.                        *)
LEMMA TouchAhead ==
  ASSUME TypeOK, AheadInv, ClockMoves, NEW e \in Emails, NEW r, Put(e, r),
         \A x \in Emails \ {e} : charge'[x] = charge[x],
         row[e].status # "absent" => r.status # "absent" /\ r.to = row[e].to,
         lane' = lane, suppressed' = suppressed, PagesDue', Ahead(e)'
  PROVE  AheadInv'
<1>1. \A x \in Emails : row'[x] = IF x = e THEN r ELSE row[x]
  BY DEF Put, TypeOK, RowsOK
<1>2. RowsShrink
  BY PutShrinks
<1>3. CopyInv'
  BY <1>2, LaneStays, CopyKept DEF AheadInv
<1>4. ASSUME NEW x \in Emails \ {e} PROVE Ahead(x)'
  <2>1. row'[x] = row[x] /\ charge'[x] = charge[x] /\ Ahead(x)
    BY <1>1 DEF AheadInv
  <2> QED BY <2>1, ChargeKept
<1> QED BY <1>3, <1>4 DEF AheadInv

LEMMA ReserveOthers ==
  ASSUME TypeOK, NEW e \in Emails, NEW day, NEW n, Reserve(e, day, n)
  PROVE  /\ charge'[e] = [day |-> day, units |-> n]
         /\ \A x \in Emails \ {e} : charge'[x] = charge[x]
BY DEF Reserve, TypeOK, QuotaOK

(* Mail asked for an instant of a later day is charged to that day.          *)
LEMMA ChargedAsAsked ==
  ASSUME TypeOK, now' = now, NEW e \in Emails, NEW at \in ScheduleTimes,
         row'[e].status = "queued" =>
           /\ row'[e].scheduledAt = at
           /\ at # NoTime /\ at > now =>
                /\ charge'[e].day = Day(Later(at, now))
                /\ charge'[e].units \in Nat /\ charge'[e].units >= Units(row'[e].to)
  PROVE  Ahead(e)'
<1> SUFFICES ASSUME row'[e].status = "queued", at # NoTime, Day(at) > Day(now)
             PROVE  charge'[e].day = Day(at) /\ charge'[e].units >= Units(row'[e].to)
  BY DEF Ahead
<1>1. at \in Times /\ now \in Times /\ at \in Int /\ now \in Int
  BY AskedTime, SendAssumption DEF TypeOK, ClockOK, Times
<1>2. at > now
  BY <1>1, LaterDay
<1>3. Later(at, now) = at
  BY <1>1, <1>2 DEF Later
<1> QED BY <1>2, <1>3

LEMMA AcceptAhead ==
  ASSUME TypeOK, AheadInv, NEW e \in Emails, NEW to \in SUBSET Recipients,
         NEW at \in ScheduleTimes, Accept(e, to, at)
  PROVE  AheadInv'
<1> DEFINE kept == to \ suppressed
           day == Day(Later(at, now))
<1>1. /\ row[e].status = "absent" /\ Units(kept) \in Nat /\ now' = now
      /\ lane' = lane /\ drain' = drain /\ suppressed' = suppressed /\ ClockMoves
  BY UnitsNat, ClockStays DEF Accept
<1>2. PICK admit \in BOOLEAN, held \in BOOLEAN :
        /\ admit = (~held /\ HasRoom(day, Units(kept)))
        /\ Put(e, [AbsentRow EXCEPT
                    !.status = IF admit THEN "queued" ELSE "queued_quota",
                    !.createdAt = now, !.scheduledAt = at, !.to = kept])
        /\ IF admit THEN Reserve(e, day, Units(kept)) ELSE UNCHANGED quota
  BY DEF Accept
<1>3. PICK r : r = [AbsentRow EXCEPT
                    !.status = IF admit THEN "queued" ELSE "queued_quota",
                    !.createdAt = now, !.scheduledAt = at, !.to = kept]
  OBVIOUS
<1>4. /\ r.status = (IF admit THEN "queued" ELSE "queued_quota") /\ r.to = kept
      /\ r.scheduledAt = at
  BY <1>3 DEF AbsentRow
<1>5. Put(e, r)
  BY <1>2, <1>3
<1>6. \A x \in Emails : row'[x] = IF x = e THEN r ELSE row[x]
  BY <1>5 DEF Put, TypeOK, RowsOK
<1>7. PICK k \in Nat : k = Units(kept)
  BY <1>1
<1>8. /\ \A x \in Emails \ {e} : charge'[x] = charge[x]
      /\ admit => charge'[e] = [day |-> day, units |-> k]
  BY <1>2, <1>7, ReserveOthers DEF quota
<1>9. Ahead(e)'
  <2>1. row'[e].status = "queued" =>
          /\ row'[e].scheduledAt = at /\ charge'[e].day = day /\ charge'[e].units = k
          /\ k = Units(row'[e].to)
    <3> HIDE DEF day, kept
    <3>1. row'[e] = r
      BY <1>6
    <3>2. CASE admit
      <4>1. row'[e].scheduledAt = at /\ row'[e].to = kept
        BY <1>4, <3>1
      <4>2. charge'[e].day = day /\ charge'[e].units = k
        BY <1>8, <3>2
      <4> QED BY <1>7, <4>1, <4>2
    <3>3. CASE ~admit
      BY <1>4, <3>1, <3>3
    <3> QED BY <3>2, <3>3
  <2> HIDE DEF day, kept
  <2>2. row'[e].status = "queued" =>
          charge'[e].units \in Nat /\ charge'[e].units >= Units(row'[e].to)
    BY <2>1
  <2> QED BY <1>1, <2>1, <2>2, ChargedAsAsked DEF day
<1>10. PagesDue'
  <2> SUFFICES ASSUME NEW d \in Drains, NEW m \in drain[d].page PROVE Due(m.email)'
    BY <1>1 DEF PagesDue
  <2>1. PICK x \in Emails : x = m.email
    BY DrainTypes
  <2>2. Due(x) /\ x # e
    BY <1>1, <2>1 DEF AheadInv, PagesDue, Due
  <2>3. Due(x)'
    BY <1>1, <1>6, <2>2 DEF Due
  <2> QED BY <2>1, <2>3
<1> QED BY <1>1, <1>5, <1>8, <1>9, <1>10, TouchAhead

LEMMA MoveAhead ==
  ASSUME TypeOK, AheadInv, NoMoveUnderDrain, NEW e \in Emails, NEW at \in ScheduleTimes,
         Move(e, at)
  PROVE  AheadInv'
<1> DEFINE old == row[e].scheduledAt
           day == Day(Later(at, now))
<1>1. /\ row[e] \in Rows(Times) /\ row[e].status \in Waiting /\ now' = now
      /\ lane' = lane /\ suppressed' = suppressed /\ ClockMoves /\ moves < MaxMoves
  BY ClockStays DEF Move, Reachable, TypeOK, RowsOK
<1>2. PagesDue'
  BY <1>1 DEF NoMoveUnderDrain, PagesDue, TypeOK, ClockOK
<1>3. PICK r : r = [row[e] EXCEPT !.scheduledAt = at]
  OBVIOUS
<1>4. PICK p : p = [r EXCEPT !.status = "queued_quota"]
  OBVIOUS
<1>5. /\ r.status = row[e].status /\ r.to = row[e].to /\ r.scheduledAt = at
      /\ p.status = "queued_quota" /\ p.to = row[e].to
  BY <1>1, <1>3, <1>4 DEF Rows
<1>6. "absent" \notin Waiting
  BY DEF Waiting
<1>7. CASE row[e].status = "queued_quota" /\ Put(e, r) /\ UNCHANGED quota
  <2>1. Ahead(e)'
    BY <1>5, <1>7 DEF Ahead, Put, TypeOK, RowsOK
  <2> QED BY <1>1, <1>2, <1>5, <1>6, <1>7, <2>1, TouchAhead DEF quota
<1>8. CASE row[e].status = "queued" /\ old > now /\ Day(old) = day /\ Put(e, r) /\ UNCHANGED quota
  <2>1. charge'[e] = charge[e] /\ row'[e] = r
    BY <1>8 DEF quota, Put, TypeOK, RowsOK
  <2>2. Ahead(e)'
    <3> SUFFICES ASSUME at # NoTime, Day(at) > Day(now)
                 PROVE  charge[e].day = Day(at) /\ charge[e].units >= Units(row[e].to)
      BY <1>1, <1>5, <2>1 DEF Ahead
    <3>1. at \in Times /\ now \in Times /\ at \in Int /\ now \in Int
      BY AskedTime, SendAssumption DEF TypeOK, ClockOK, Times
    <3>2. at > now
      BY <3>1, LaterDay
    <3>3. Later(at, now) = at
      BY <3>1, <3>2 DEF Later
    <3>4. old # NoTime
      BY <1>8, <3>1, SendAssumption DEF NoTime, Times
    <3>5. Day(old) = Day(at)
      BY <1>8, <3>3
    <3>6. Ahead(e)
      BY DEF AheadInv
    <3> QED BY <1>8, <3>4, <3>5, <3>6 DEF Ahead
  <2>3. \A x \in Emails \ {e} : charge'[x] = charge[x]
    BY <1>8 DEF quota
  <2> QED BY <1>1, <1>2, <1>5, <1>6, <1>8, <2>2, <2>3, TouchAhead
<1>9. CASE row[e].status = "queued" /\ Put(e, r) /\ Reserve(e, day, Units(row[e].to))
  <2>1. /\ charge'[e] = [day |-> day, units |-> Units(row[e].to)] /\ row'[e] = r
        /\ \A x \in Emails \ {e} : charge'[x] = charge[x]
    BY <1>9, ReserveOthers DEF Put, TypeOK, RowsOK
  <2>2. Units(row[e].to) \in Nat
    BY <1>1, UnitsNat DEF Rows
  <2>3. Ahead(e)'
    BY <1>1, <1>5, <2>1, <2>2, ChargedAsAsked
  <2> QED BY <1>1, <1>2, <1>5, <1>6, <1>9, <2>1, <2>3, TouchAhead
<1>10. CASE Put(e, p) /\ Uncharge(e)
  <2>1. Ahead(e)'
    BY <1>5, <1>10 DEF Ahead, Put, TypeOK, RowsOK
  <2>2. \A x \in Emails \ {e} : charge'[x] = charge[x]
    BY <1>10 DEF Uncharge, TypeOK, QuotaOK
  <2> QED BY <1>1, <1>2, <1>5, <1>10, <2>1, <2>2, TouchAhead
<1> QED BY <1>3, <1>4, <1>7, <1>8, <1>9, <1>10 DEF Move

(* A page is due as it is read.                                              *)
LEMMA DrainPageAhead ==
  ASSUME TypeOK, AheadInv, NEW d \in Drains, DrainPage(d)
  PROVE  AheadInv'
<1> DEFINE due == {e \in Emails : /\ row[e].status = "queued_quota"
                                  /\ row[e].scheduledAt = NoTime
                                     \/ Day(row[e].scheduledAt) <= Day(now)}
           seen(e) == [email |-> e, at |-> row[e].scheduledAt, units |-> Units(row[e].to)]
<1>1. /\ row' = row /\ charge' = charge /\ suppressed' = suppressed /\ lane' = lane
      /\ now' = now /\ ClockMoves
  BY ClockStays DEF DrainPage, rows, quota
<1>2. PICK page : page = {seen(e) : e \in due}
  OBVIOUS
<1>3. PICK r : r = [IdleDrain EXCEPT !.pc = "release", !.page = page]
  OBVIOUS
<1>4. r.page = page
  BY <1>3 DEF IdleDrain
<1>5. drain' = [drain EXCEPT ![d] = r]
  BY <1>2, <1>3 DEF DrainPage
<1>6. \A c \in Drains : drain'[c] = IF c = d THEN r ELSE drain[c]
  BY <1>5 DEF TypeOK, DrainsOK
<1>7. \A m \in page : Due(m.email)
  BY <1>2 DEF Due
<1> HIDE DEF due, seen
<1>8. \A c \in Drains : \A m \in drain'[c].page : Due(m.email)
  BY <1>4, <1>6, <1>7 DEF AheadInv, PagesDue
<1>9. PagesDue' /\ \A e \in Emails : Ahead(e)'
  BY <1>1, <1>8 DEF AheadInv, PagesDue, Due, Ahead
<1>10. CopyInv'
  BY <1>1 DEF AheadInv, CopyInv
<1> QED BY <1>9, <1>10 DEF AheadInv

(* A drain lets in only what is due, and charges it to the day it is.        *)
LEMMA DrainReleaseAhead ==
  ASSUME TypeOK, AheadInv, NEW d \in Drains, NEW m \in drain[d].page, DrainRelease(d, m)
  PROVE  AheadInv'
<1>1. PICK e \in Emails : e = m.email
  BY DrainTypes
<1>2. /\ drain[d] \in DrainRecords /\ lane' = lane /\ suppressed' = suppressed
      /\ now' = now /\ ClockMoves
  BY ClockStays DEF DrainRelease, TypeOK, DrainsOK
<1>3. ASSUME NEW page \in SUBSET drain[d].page, NEW moved,
             drain' = [drain EXCEPT ![d].page = page, ![d].moved = moved]
      PROVE  PagesShrink
  <2>1. PICK q : q = [drain[d] EXCEPT !.page = page, !.moved = moved]
    OBVIOUS
  <2>2. q.page = page
    BY <1>2, <2>1 DEF DrainRecords
  <2>3. \A c \in Drains : drain'[c] = IF c = d THEN q ELSE drain[c]
    BY <1>3, <2>1 DEF TypeOK, DrainsOK
  <2> QED BY <2>2, <2>3 DEF PagesShrink
<1>4. ASSUME NEW page \in SUBSET drain[d].page, drain' = [drain EXCEPT ![d].page = page]
      PROVE  PagesShrink
  <2>1. PICK q : q = [drain[d] EXCEPT !.page = page]
    OBVIOUS
  <2>2. q.page = page
    BY <1>2, <2>1 DEF DrainRecords
  <2>3. \A c \in Drains : drain'[c] = IF c = d THEN q ELSE drain[c]
    BY <1>4, <2>1 DEF TypeOK, DrainsOK
  <2> QED BY <2>2, <2>3 DEF PagesShrink
<1>5. CASE PagesShrink /\ UNCHANGED <<row, quota>>
  BY <1>2, <1>5, LaneStays, FrameAhead DEF quota
<1>6. CASE /\ PagesShrink /\ CanTransition(row[e], "queued_quota")
           /\ Reserve(e, Day(now), m.units) /\ Put(e, [row[e] EXCEPT !.status = "queued"])
  <2>1. PICK r : r = [row[e] EXCEPT !.status = "queued"]
    OBVIOUS
  <2>2. r.status = "queued" /\ r.to = row[e].to /\ r.scheduledAt = row[e].scheduledAt
    BY <2>1 DEF TypeOK, RowsOK, Rows
  <2>3. Put(e, r) /\ \A x \in Emails : row'[x] = IF x = e THEN r ELSE row[x]
    BY <1>6, <2>1 DEF Put, TypeOK, RowsOK
  <2>4. \A x \in Emails \ {e} : charge'[x] = charge[x]
    BY <1>6, ReserveOthers
  <2>5. RowsShrink /\ DatesStay
    BY <2>2, <2>3, PutShrinks, PutDates
  <2>6. PagesDue'
    BY <1>2, <1>6, <2>5, PagesKept DEF AheadInv
  <2>7. Due(e)'
    <3>1. Due(e)
      BY <1>1 DEF AheadInv, PagesDue
    <3> QED BY <1>2, <2>2, <2>3, <3>1, DueKept
  <2>8. Ahead(e)'
    <3>1. row'[e].scheduledAt \in Times \cup {NoTime} /\ now' \in Times
      BY <1>2, <2>2, <2>3 DEF ClockMoves, TypeOK, RowsOK, Rows
    <3>2. row'[e].scheduledAt # NoTime => ~(Day(row'[e].scheduledAt) > Day(now'))
      BY <2>7, <3>1, LaterDay DEF Due
    <3> QED BY <3>2 DEF Ahead
  <2> QED BY <1>2, <2>2, <2>3, <2>4, <2>6, <2>8, TouchAhead
<1> QED BY <1>1, <1>3, <1>4, <1>5, <1>6 DEF DrainRelease

LEMMA DrainReparkAhead ==
  ASSUME TypeOK, AheadInv, NEW d \in Drains, NEW m \in drain[d].moved, DrainRepark(d, m)
  PROVE  AheadInv'
<1>1. PICK e \in Emails : e = m.email
  BY DrainTypes
<1>2. /\ drain[d] \in DrainRecords /\ suppressed' = suppressed /\ LanesKeep /\ ClockMoves
  BY LaneStays, ClockStays DEF DrainRepark, TypeOK, DrainsOK
<1>3. PICK q : drain' = [drain EXCEPT ![d] = q] /\ q.page = drain[d].page
  <2>1. PICK p : p = [drain[d] EXCEPT !.pc = "refund", !.moved = drain[d].moved \ {m},
                                      !.owed = m.units]
    OBVIOUS
  <2>2. PICK r : r = [drain[d] EXCEPT !.moved = drain[d].moved \ {m}]
    OBVIOUS
  <2>3. p.page = drain[d].page /\ r.page = drain[d].page
    BY <1>2, <2>1, <2>2 DEF DrainRecords
  <2>4. drain' = [drain EXCEPT ![d] = p] \/ drain' = [drain EXCEPT ![d] = r]
    BY <2>1, <2>2 DEF DrainRepark
  <2> QED BY <2>3, <2>4
<1>4. PagesShrink
  BY <1>3 DEF PagesShrink, TypeOK, DrainsOK
<1>5. CASE row' = row /\ charge' = charge
  BY <1>2, <1>4, <1>5, FrameAhead
<1>6. CASE Put(e, [row[e] EXCEPT !.status = "queued_quota"]) /\ Uncharge(e)
  <2>1. PICK r : r = [row[e] EXCEPT !.status = "queued_quota"]
    OBVIOUS
  <2>2. r.status = "queued_quota" /\ r.to = row[e].to /\ r.scheduledAt = row[e].scheduledAt
    BY <2>1 DEF TypeOK, RowsOK, Rows
  <2> QED BY <1>2, <1>4, <1>6, <2>1, <2>2, LeaveAhead
<1> QED BY <1>1, <1>5, <1>6 DEF DrainRepark

LEMMA DrainRefundAhead ==
  ASSUME TypeOK, AheadInv, NEW d \in Drains, DrainRefund(d)
  PROVE  AheadInv'
<1>1. /\ drain[d] \in DrainRecords /\ row' = row /\ charge' = charge
      /\ LanesKeep /\ suppressed' = suppressed /\ ClockMoves
  BY LaneStays, ClockStays DEF DrainRefund, TypeOK, DrainsOK, rows
<1>2. PICK q : q = [drain[d] EXCEPT !.pc = "repark", !.owed = 0]
  OBVIOUS
<1>3. q.page = drain[d].page
  BY <1>1, <1>2 DEF DrainRecords
<1>4. drain' = [drain EXCEPT ![d] = q]
  BY <1>2 DEF DrainRefund
<1>5. PagesShrink
  BY <1>3, <1>4 DEF PagesShrink, TypeOK, DrainsOK
<1> QED BY <1>1, <1>5, FrameAhead

(* Mail in the queue for a later day is charged to that very day: by its     *)
(* accept, or by the PATCH that moved it there (ChargedAhead).  It takes a   *)
(* drain that read the row before the PATCH and releases it after to break   *)
(* it, so the theorem has no drains, or no PATCH of scheduled_at.            *)
THEOREM ChargesAhead ==
  ASSUME NoMoveUnderDrain
  PROVE  Spec => []ChargedAhead
<1>1. Init => AheadInv
  <2> SUFFICES ASSUME Init PROVE AheadInv
    OBVIOUS
  <2>1. CopyInv
    BY DEF Init, CopyInv, CopyPcs, IdleLane
  <2>2. PagesDue
    BY DEF Init, PagesDue, IdleDrain
  <2>3. \A e \in Emails : row[e].status = "absent"
    BY DEF Init, AbsentRow
  <2> QED BY <2>1, <2>2, <2>3 DEF AheadInv, Ahead
<1>2. TypeOK /\ AheadInv /\ [Next]_vars => AheadInv'
  <2> SUFFICES ASSUME TypeOK, AheadInv, [Next]_vars PROVE AheadInv'
    OBVIOUS
  <2>1. CASE CalmStep
    BY <2>1, NextClock, CalmAhead
  <2>2. CASE Stirs
    <3>1. ASSUME NEW e \in Emails, StirsEmail(e) PROVE AheadInv'
      BY <3>1, AcceptAhead, MoveAhead, CancelHeldAhead DEF StirsEmail
    <3>2. ASSUME NEW l \in Lanes, ReadRow(l) \/ Park(l) PROVE AheadInv'
      BY <3>2, ReadRowAhead, ParkAhead
    <3>3. ASSUME NEW d \in Drains, StirsDrain(d) PROVE AheadInv'
      BY <3>3, DrainPageAhead, DrainReleaseAhead, DrainReparkAhead, DrainRefundAhead
         DEF StirsDrain
    <3> QED BY <2>2, <3>1, <3>2, <3>3 DEF Stirs
  <2> QED BY <2>1, <2>2, NextCalm DEF AheadInv
<1>3. AheadInv => ChargedAhead
  BY DEF AheadInv, Ahead, ChargedAhead
<1> QED BY <1>1, <1>2, <1>3, Typing, PTL DEF Spec

=============================================================================
