------------------------- MODULE WebhookDrainProofs -------------------------
(***************************************************************************)
(* Theorems about WebhookDrain, for any rows, any number of overlapping    *)
(* passes and workers, and any lease that outlives a pass: every variable  *)
(* has its type, no two passes hold a row, and a row's count of attempts   *)
(* is the number of its answers.                                           *)
(***************************************************************************)
EXTENDS WebhookDrain, FiniteSetTheorems, TLAPS

RowRecords ==
  [status : {"absent", "matched", "pending", "failed", "success", "exhausted"},
   attempts : 0..MaxAttempts, wait : Ticks, old : BOOLEAN, throttled : BOOLEAN]
PassRecords ==
  [pc : {"idle", "start", "claim", "check", "work", "park", "rearm"},
   spent : 0..PassTime, page : SUBSET Deliveries, read : [Deliveries -> 0..MaxAttempts],
   hand : [Deliveries -> Hands], since : [Deliveries -> 0..PassTime],
   back : SUBSET Deliveries, stop : {"none", "budget", "throttled", "disabled"},
   until : Ticks, failed : 0..Concurrency, aborted : BOOLEAN]

(* What a pass with memory r holds, and what its workers hold of that.      *)
BusyOf(r) == {d \in Deliveries : r.hand[d] # "none"}
HeldBy(r) == r.page \cup r.back \cup BusyOf(r)

(* An idle pass holds nothing, a row is held in one way, no more workers    *)
(* are out than a page has, and no post began before its pass.              *)
Orderly(r) ==
  /\ r.pc = "idle" => HeldBy(r) = {}
  /\ r.page \cap r.back = {} /\ BusyOf(r) \cap (r.page \cup r.back) = {}
  /\ Cardinality(BusyOf(r)) + r.failed <= Concurrency
  /\ \A d \in Deliveries : r.since[d] <= r.spent

(* A row a pass holds was written, and while it is open its lease is what   *)
(* is left of one taken since the pass began.                               *)
Leased(r, rows) ==
  \A d \in HeldBy(r) :
    /\ rows[d].status \notin {"absent", "matched"}
    /\ rows[d].status \in {"pending", "failed"} /\ rows[d].wait # Null
       => rows[d].wait >= Lease - r.spent

(* Until it writes a row's answer, a pass knows the row's count.            *)
Knows(r, rows) ==
  \A d \in HeldBy(r) :
    r.hand[d] \in {"none", "bucket", "posting"} =>
      r.read[d] = rows[d].attempts /\ r.read[d] < MaxAttempts

PassOk(r, rows) == Orderly(r) /\ Leased(r, rows) /\ Knows(r, rows)

(* A row that may be posted has a rung of the schedule left.                *)
RungLeft(rows) ==
  \A d \in Deliveries :
    rows[d].status \in {"absent", "matched", "pending", "failed"}
      => rows[d].attempts < MaxAttempts

(* The inductive invariant.                                                 *)
DrainInv ==
  /\ TypeOK
  /\ \A p \in Passes : PassOk(pass[p], delivery)
  /\ \A p, q \in Passes : p # q => HeldBy(pass[p]) \cap HeldBy(pass[q]) = {}
  /\ RungLeft(delivery)
  /\ CountsEveryAnswer

-----------------------------------------------------------------------------
LEMMA NullTick == Null \in Ticks
BY DEF Null, Ticks

LEMMA DrainTypes ==
  ASSUME DrainAssumption, TypeOK
  PROVE  /\ pass \in [Passes -> PassRecords] /\ delivery \in [Deliveries -> RowRecords]
         /\ \A p \in Passes : HeldBy(pass[p]) \subseteq Deliveries /\ Busy(p) = BusyOf(pass[p])
                              /\ Holds(p) = HeldBy(pass[p])
<1>1. pass \in [Passes -> PassRecords] /\ delivery \in [Deliveries -> RowRecords]
  BY DEF TypeOK, PassRecords, RowRecords
<1>2. ASSUME NEW p \in Passes
      PROVE  HeldBy(pass[p]) \subseteq Deliveries /\ Busy(p) = BusyOf(pass[p])
             /\ Holds(p) = HeldBy(pass[p])
  BY <1>1 DEF PassRecords, HeldBy, BusyOf, Busy, Holds
<1> QED
  BY <1>1, <1>2

LEMMA MaxOfTwo ==
  ASSUME NEW a \in Int, NEW b \in Int
  PROVE  Max({a, b}) = IF a >= b THEN a ELSE b
<1> DEFINE m == IF a >= b THEN a ELSE b
<1>1. m \in {a, b} /\ \A y \in {a, b} : m >= y
  OBVIOUS
<1>2. \A x \in {a, b} : (\A y \in {a, b} : x >= y) => x = m
  OBVIOUS
<1> QED
  BY <1>1, <1>2 DEF Max

(* The memory of a pass that rests.                                         *)
LEMMA RestingOk ==
  ASSUME DrainAssumption, NEW r \in PassRecords, HeldBy(r) = {}, r.failed = 0,
         \A d \in Deliveries : r.since[d] = 0, NEW rows
  PROVE  PassOk(r, rows)
<1>1. BusyOf(r) = {} /\ r.page = {} /\ r.back = {}
  BY DEF HeldBy
<1>2. Cardinality(BusyOf(r)) = 0
  BY <1>1, FS_EmptySet
<1>3. r.spent \in Nat
  BY DEF PassRecords, DrainAssumption
<1> QED
  BY <1>1, <1>2, <1>3 DEF PassOk, Orderly, Leased, Knows, DrainAssumption

(* What a pass holds is what matters of the rows to it.                     *)
LEMMA OtherRows ==
  ASSUME NEW r, NEW rows, NEW changed, PassOk(r, rows),
         \A d \in HeldBy(r) : /\ changed[d].status = rows[d].status
                             /\ changed[d].wait = rows[d].wait
                             /\ changed[d].attempts = rows[d].attempts
  PROVE  PassOk(r, changed)
BY DEF PassOk, Leased, Knows

(* A worker goes on with its row, or lets it go.                            *)
LEMMA LettingOk ==
  ASSUME DrainAssumption, TypeOK, NEW p \in Passes, NEW d \in Deliveries,
         Orderly(pass[p]), pass[p].pc = "work", pass[p].hand[d] # "none", NEW doing \in Hands
  PROVE  LET r == Letting(p, d, doing) IN
         /\ r \in PassRecords /\ Orderly(r)
         /\ \A c \in Deliveries : r.hand[c] = IF c = d THEN doing ELSE pass[p].hand[c]
         /\ r.page = pass[p].page /\ r.back = pass[p].back /\ r.failed = pass[p].failed
         /\ r.pc = "work" /\ r.stop = pass[p].stop /\ r.spent = pass[p].spent
         /\ r.read = pass[p].read /\ r.until = pass[p].until
         /\ HeldBy(r) = IF doing = "none" THEN HeldBy(pass[p]) \ {d} ELSE HeldBy(pass[p])
         /\ doing = "none" => Cardinality(BusyOf(r)) = Cardinality(BusyOf(pass[p])) - 1
<1> DEFINE r == Letting(p, d, doing)
<1>1. pass[p] \in PassRecords
  BY DrainTypes
<1>2. /\ r \in PassRecords
      /\ \A c \in Deliveries : /\ r.hand[c] = IF c = d THEN doing ELSE pass[p].hand[c]
                               /\ r.since[c] = IF c = d THEN 0 ELSE pass[p].since[c]
      /\ r.page = pass[p].page /\ r.back = pass[p].back /\ r.failed = pass[p].failed
      /\ r.pc = "work" /\ r.stop = pass[p].stop /\ r.spent = pass[p].spent
      /\ r.read = pass[p].read /\ r.until = pass[p].until
  <2> DEFINE hand == [pass[p].hand EXCEPT ![d] = doing]
             since == [pass[p].since EXCEPT ![d] = 0]
  <2>1. r = [pass[p] EXCEPT !.hand = hand, !.since = since]
    BY <1>1 DEF Letting, PassRecords
  <2>2. hand \in [Deliveries -> Hands] /\ since \in [Deliveries -> 0..PassTime]
    BY <1>1 DEF PassRecords, DrainAssumption
  <2>3. \A c \in Deliveries : /\ hand[c] = IF c = d THEN doing ELSE pass[p].hand[c]
                              /\ since[c] = IF c = d THEN 0 ELSE pass[p].since[c]
    BY <1>1 DEF PassRecords
  <2> HIDE DEF hand, since, r
  <2>4. r.hand = hand /\ r.since = since
    BY <1>1, <2>1 DEF PassRecords
  <2> QED BY <1>1, <2>1, <2>2, <2>3, <2>4 DEF PassRecords
<1>3. BusyOf(r) = IF doing = "none" THEN BusyOf(pass[p]) \ {d} ELSE BusyOf(pass[p])
  BY <1>2 DEF BusyOf
<1>4. d \in BusyOf(pass[p]) /\ IsFiniteSet(BusyOf(pass[p]))
  BY FS_Subset DEF BusyOf, DrainAssumption
<1>5. /\ Cardinality(BusyOf(pass[p])) \in Nat /\ Cardinality(BusyOf(r)) \in Nat
      /\ Cardinality(BusyOf(r)) <= Cardinality(BusyOf(pass[p]))
      /\ doing = "none" => Cardinality(BusyOf(r)) = Cardinality(BusyOf(pass[p])) - 1
  <2>1. /\ IsFiniteSet(BusyOf(pass[p]) \ {d})
        /\ Cardinality(BusyOf(pass[p]) \ {d}) = Cardinality(BusyOf(pass[p])) - 1
    BY <1>4, FS_RemoveElement
  <2>2. /\ Cardinality(BusyOf(pass[p])) \in Nat
        /\ Cardinality(BusyOf(pass[p]) \ {d}) \in Nat
    BY <1>4, <2>1, FS_CardinalityType
  <2> QED BY <1>3, <2>1, <2>2
<1>6. HeldBy(r) = IF doing = "none" THEN HeldBy(pass[p]) \ {d} ELSE HeldBy(pass[p])
  BY <1>2, <1>3, <1>4 DEF HeldBy, Orderly
<1>7. Orderly(r)
  <2>1. BusyOf(r) \cap (r.page \cup r.back) = {} /\ r.page \cap r.back = {}
    BY <1>2, <1>3 DEF Orderly
  <2>2. \A c \in Deliveries : r.since[c] <= r.spent
    BY <1>1, <1>2, SMTT(40) DEF Orderly, PassRecords
  <2>3. Cardinality(BusyOf(r)) + r.failed <= Concurrency
    BY <1>1, <1>2, <1>5, SMTT(30) DEF Orderly, PassRecords, DrainAssumption
  <2> QED BY <1>2, <2>1, <2>2, <2>3 DEF Orderly
<1> QED
  BY <1>2, <1>5, <1>6, <1>7

-----------------------------------------------------------------------------
(* A step of a pass, in parts: its own, what the others hold, the counts.   *)
LEMMA PassStepOk ==
  ASSUME DrainAssumption, DrainInv, NEW p \in Passes, NEW r \in PassRecords,
         NEW rows \in [Deliveries -> RowRecords], Put(p, r), delivery' = rows,
         PassOk(r, rows),
         \A q \in Passes \ {p} : /\ PassOk(pass[q], rows)
                                 /\ HeldBy(r) \cap HeldBy(pass[q]) = {},
         RungLeft(rows), TypeOK', CountsEveryAnswer'
  PROVE  DrainInv'
<1>1. pass' \in [Passes -> PassRecords] /\ pass'[p] = r
      /\ \A q \in Passes \ {p} : pass'[q] = pass[q]
  BY DrainTypes DEF Put, DrainInv
<1>2. \A q \in Passes : PassOk(pass'[q], rows)
  BY <1>1
<1>3. \A a, b \in Passes : a # b => HeldBy(pass'[a]) \cap HeldBy(pass'[b]) = {}
  BY <1>1, SMTT(40) DEF DrainInv
<1> QED
  BY <1>2, <1>3 DEF DrainInv

(* A step of a pass that changes no row but the ones it holds.              *)
LEMMA OwnStep ==
  ASSUME DrainAssumption, DrainInv, NEW p \in Passes, NEW r \in PassRecords,
         NEW rows \in [Deliveries -> RowRecords], Put(p, r), delivery' = rows,
         HeldBy(r) \subseteq HeldBy(pass[p]), PassOk(r, rows),
         \A d \in Deliveries \ HeldBy(pass[p]) : rows[d] = delivery[d],
         RungLeft(rows), TypeOK', CountsEveryAnswer'
  PROVE  DrainInv'
<1>1. \A q \in Passes \ {p} : \A d \in HeldBy(pass[q]) : rows[d] = delivery[d]
  BY DrainTypes DEF DrainInv
<1>2. \A q \in Passes \ {p} : PassOk(pass[q], rows)
  BY <1>1, OtherRows DEF DrainInv
<1>3. \A q \in Passes \ {p} : HeldBy(r) \cap HeldBy(pass[q]) = {}
  BY DEF DrainInv
<1> QED
  BY <1>2, <1>3, PassStepOk

(* The rows unchanged.                                                      *)
LEMMA QuietStep ==
  ASSUME DrainAssumption, DrainInv, NEW p \in Passes, NEW r \in PassRecords,
         Put(p, r), UNCHANGED <<delivery, answered>>,
         HeldBy(r) \subseteq HeldBy(pass[p]), Orderly(r),
         r.spent = pass[p].spent \/ HeldBy(r) = {},
         \A d \in HeldBy(r) :
           r.hand[d] \in {"none", "bucket", "posting"} =>
             r.read[d] = pass[p].read[d] /\ pass[p].hand[d] \in {"none", "bucket", "posting"},
         TypeOK'
  PROVE  DrainInv'
<1>1. Leased(r, delivery)
  BY DEF DrainInv, PassOk, Leased
<1>2. Knows(r, delivery)
  BY DEF DrainInv, PassOk, Knows
<1>3. PassOk(r, delivery) /\ RungLeft(delivery) /\ CountsEveryAnswer'
  BY <1>1, <1>2 DEF PassOk, DrainInv, CountsEveryAnswer
<1>4. delivery \in [Deliveries -> RowRecords] /\ delivery' = delivery
  BY DrainTypes DEF DrainInv
<1> QED
  BY <1>3, <1>4, OwnStep

(* Rows that change under the passes in nothing they mind.                  *)
LEMMA Unminded ==
  ASSUME DrainAssumption, DrainInv, NEW rows \in [Deliveries -> RowRecords],
         \A p \in Passes : \A d \in HeldBy(pass[p]) :
           /\ rows[d].status \notin {"absent", "matched"}
           /\ rows[d].status \in {"pending", "failed"} /\ rows[d].wait # Null
              => rows[d].status = delivery[d].status /\ rows[d].wait = delivery[d].wait,
         \A d \in Deliveries : rows[d].attempts = delivery[d].attempts,
         \A d \in Deliveries :
           rows[d].status \in {"absent", "matched", "pending", "failed"}
             => delivery[d].status \in {"absent", "matched", "pending", "failed"}
  PROVE  RungLeft(rows) /\ \A p \in Passes : PassOk(pass[p], rows)
<1>1. ASSUME NEW p \in Passes PROVE PassOk(pass[p], rows)
  <2>1. HeldBy(pass[p]) \subseteq Deliveries
    BY DrainTypes DEF DrainInv
  <2>2. Leased(pass[p], rows)
    BY <2>1 DEF DrainInv, PassOk, Leased
  <2>3. Knows(pass[p], rows)
    BY <2>1 DEF DrainInv, PassOk, Knows
  <2> QED BY <2>2, <2>3 DEF DrainInv, PassOk
<1> QED
  BY <1>1 DEF DrainInv, RungLeft

LEMMA RowStep ==
  ASSUME DrainAssumption, DrainInv, NEW rows \in [Deliveries -> RowRecords],
         delivery' = rows, UNCHANGED <<pass, answered>>, TypeOK',
         RungLeft(rows), \A p \in Passes : PassOk(pass[p], rows),
         \A d \in Deliveries : rows[d].attempts = delivery[d].attempts
  PROVE  DrainInv'
BY DEF DrainInv, CountsEveryAnswer

(* What a step of a pass must show of types.                                *)
LEMMA StepTyped ==
  ASSUME DrainAssumption, TypeOK, NEW p \in Passes, NEW r \in PassRecords, Put(p, r),
         delivery' \in [Deliveries -> RowRecords],
         endpoint' \in {"enabled", "disabled", "auto_disabled"},
         job' \in Ticks, retry' \in BOOLEAN, failures' \in Nat, toggles' = toggles,
         answered' \in [Deliveries -> Nat], asked' \in [Passes -> Ticks]
  PROVE  TypeOK'
<1>1. pass' \in [Passes -> PassRecords]
  BY DrainTypes DEF Put
<1> QED
  BY <1>1 DEF TypeOK, PassRecords, RowRecords

LEMMA GotoPut ==
  ASSUME DrainAssumption, TypeOK, NEW p \in Passes,
         NEW pc \in {"start", "claim", "check", "work", "park", "rearm"}, Goto(p, pc)
  PROVE  LET r == [pass[p] EXCEPT !.pc = pc] IN
         /\ Put(p, r) /\ r \in PassRecords /\ HeldBy(r) = HeldBy(pass[p])
         /\ r.pc = pc /\ r.hand = pass[p].hand /\ r.read = pass[p].read
         /\ r.spent = pass[p].spent
         /\ Orderly(pass[p]) => Orderly(r)
<1> DEFINE r == [pass[p] EXCEPT !.pc = pc]
<1>1. pass \in [Passes -> PassRecords]
  BY DrainTypes
<1>2. Put(p, r)
  BY <1>1 DEF Goto, Put
<1>3. /\ r \in PassRecords /\ r.pc = pc /\ r.hand = pass[p].hand /\ r.read = pass[p].read
      /\ r.spent = pass[p].spent /\ r.page = pass[p].page /\ r.back = pass[p].back
      /\ r.since = pass[p].since /\ r.failed = pass[p].failed
  BY <1>1, ZenonT(60) DEF PassRecords
<1>4. BusyOf(r) = BusyOf(pass[p]) /\ HeldBy(r) = HeldBy(pass[p])
  BY <1>3 DEF BusyOf, HeldBy
<1> QED
  BY <1>2, <1>3, <1>4 DEF Orderly

(* A pass that ends keeps nothing.                                          *)
LEMMA Rests ==
  ASSUME DrainAssumption
  PROVE  /\ IdlePass \in PassRecords /\ HeldBy(IdlePass) = {} /\ Orderly(IdlePass)
         /\ \A rows : PassOk(IdlePass, rows)
<1>1. IdlePass \in PassRecords
  BY DEF IdlePass, PassRecords, DrainAssumption, Hands, Ticks
<1>2. HeldBy(IdlePass) = {} /\ IdlePass.failed = 0 /\ \A d \in Deliveries : IdlePass.since[d] = 0
  BY DEF IdlePass, HeldBy, BusyOf
<1> QED
  BY <1>1, <1>2, RestingOk DEF PassOk

(* A pass that ends, whatever became of rows it does not mind.              *)
LEMMA FinishStep ==
  ASSUME DrainAssumption, DrainInv, NEW p \in Passes, Finish(p), UNCHANGED <<delivery, answered>>,
         UNCHANGED <<endpoint, toggles>>, job' \in Ticks, retry' \in BOOLEAN, failures' \in Nat
  PROVE  DrainInv'
<1>1. IdlePass \in PassRecords /\ HeldBy(IdlePass) = {} /\ Orderly(IdlePass) /\ Put(p, IdlePass)
  BY Rests DEF Finish
<1>2. asked' \in [Passes -> Ticks] /\ delivery' \in [Deliveries -> RowRecords]
      /\ answered' \in [Deliveries -> Nat] /\ endpoint' \in {"enabled", "disabled", "auto_disabled"}
  <2>1. asked' = [asked EXCEPT ![p] = 0] /\ asked \in [Passes -> Int]
    BY DEF Finish, DrainInv, TypeOK, Ticks
  <2>2. asked' \in [Passes -> Int]
    BY <2>1
  <2>3. delivery \in [Deliveries -> RowRecords]
    BY DrainTypes DEF DrainInv
  <2> QED BY <2>2, <2>3 DEF DrainInv, TypeOK, Ticks
<1>3. TypeOK'
  BY <1>1, <1>2, StepTyped DEF DrainInv
<1> QED
  BY <1>1, <1>3, QuietStep

-----------------------------------------------------------------------------
(* The rows' own steps. *)

LEMMA FanoutKeeps ==
  ASSUME DrainAssumption, DrainInv, NEW d \in Deliveries,
         FanoutRead(d) \/ FanoutInsert(d) \/ GrowOld(d)
  PROVE  DrainInv'
<1>1. delivery \in [Deliveries -> RowRecords]
  BY DrainTypes DEF DrainInv
<1>2. \A p \in Passes : d \in HeldBy(pass[p]) => delivery[d].status \notin {"absent", "matched"}
  BY DEF DrainInv, PassOk, Leased
<1>3. \E status \in {"matched", "pending", delivery[d].status}, wait \in Ticks, old \in BOOLEAN :
        /\ delivery' = [delivery EXCEPT ![d] =
             [delivery[d] EXCEPT !.status = status, !.wait = wait, !.old = old]]
        /\ \/ delivery[d].status \in {"absent", "matched"}
           \/ status = delivery[d].status /\ wait = delivery[d].wait
  <2>1. CASE FanoutRead(d)
    <3>1. delivery' = [delivery EXCEPT ![d] = [delivery[d] EXCEPT !.status = "matched",
                          !.wait = delivery[d].wait, !.old = delivery[d].old]]
      BY <1>1, <2>1 DEF FanoutRead, RowRecords
    <3> QED BY <1>1, <2>1, <3>1 DEF FanoutRead, RowRecords
  <2>2. CASE FanoutInsert(d)
    <3>1. delivery' = [delivery EXCEPT ![d] = [delivery[d] EXCEPT !.status = "pending",
                          !.wait = 0, !.old = delivery[d].old]]
      <4>1. delivery' = [delivery EXCEPT ![d] = [delivery[d] EXCEPT !.status = "pending",
                                                                    !.wait = 0]]
        BY <2>2 DEF FanoutInsert
      <4>2. [delivery[d] EXCEPT !.status = "pending", !.wait = 0, !.old = delivery[d].old]
              = [delivery[d] EXCEPT !.status = "pending", !.wait = 0]
        BY <1>1 DEF RowRecords
      <4> QED BY <4>1, <4>2
    <3>2. delivery[d].old \in BOOLEAN /\ delivery[d].status \in {"absent", "matched"}
      BY <1>1, <2>2 DEF FanoutInsert, RowRecords
    <3>3. 0 \in Ticks
      BY DEF Ticks
    <3> QED BY <3>1, <3>2, <3>3
  <2>3. CASE GrowOld(d)
    <3>1. delivery' = [delivery EXCEPT ![d] = [delivery[d] EXCEPT
             !.status = delivery[d].status, !.wait = delivery[d].wait, !.old = TRUE]]
      BY <1>1, <2>3 DEF GrowOld, RowRecords
    <3> QED BY <1>1, <2>3, <3>1 DEF GrowOld, RowRecords
  <2> QED BY <2>1, <2>2, <2>3
<1>4. PICK status \in {"matched", "pending", delivery[d].status}, wait \in Ticks, old \in BOOLEAN :
        /\ delivery' = [delivery EXCEPT ![d] =
             [delivery[d] EXCEPT !.status = status, !.wait = wait, !.old = old]]
        /\ \/ delivery[d].status \in {"absent", "matched"}
           \/ status = delivery[d].status /\ wait = delivery[d].wait
  BY <1>3
<1> DEFINE rows == [delivery EXCEPT ![d] =
                      [delivery[d] EXCEPT !.status = status, !.wait = wait, !.old = old]]
<1>5. /\ rows \in [Deliveries -> RowRecords]
      /\ \A c \in Deliveries \ {d} : rows[c] = delivery[c]
      /\ rows[d].status = status /\ rows[d].wait = wait
      /\ rows[d].attempts = delivery[d].attempts
  BY <1>1 DEF RowRecords
<1>6. UNCHANGED <<pass, answered>> /\ TypeOK'
  <2>1. UNCHANGED <<endpoint, retry, pass, failures, toggles, answered, asked>>
    BY DEF FanoutRead, FanoutInsert, GrowOld
  <2>2. job' \in Int
    BY DEF FanoutRead, FanoutInsert, GrowOld, Arm, DrainInv, TypeOK, Ticks
  <2>3. delivery' \in [Deliveries -> RowRecords]
    BY <1>4, <1>5
  <2> HIDE DEF rows
  <2> QED BY <2>1, <2>2, <2>3 DEF DrainInv, TypeOK, RowRecords, Ticks
<1>7. \A p \in Passes : HeldBy(pass[p]) \subseteq Deliveries
  BY DrainTypes DEF DrainInv
<1> HIDE DEF rows
<1>8. RungLeft(rows) /\ \A p \in Passes : PassOk(pass[p], rows)
  <2>1. \A p \in Passes : \A c \in HeldBy(pass[p]) :
           /\ rows[c].status \notin {"absent", "matched"}
           /\ rows[c].status = delivery[c].status /\ rows[c].wait = delivery[c].wait
    BY <1>2, <1>4, <1>5, <1>7 DEF DrainInv, PassOk, Leased
  <2>2. \A c \in Deliveries :
           rows[c].status \in {"absent", "matched", "pending", "failed"}
             => delivery[c].status \in {"absent", "matched", "pending", "failed"}
    BY <1>4, <1>5
  <2> QED BY <1>5, <2>1, <2>2, Unminded
<1> QED
  BY <1>4, <1>5, <1>6, <1>8, RowStep DEF rows

LEMMA Settles ==
  ASSUME NEW r \in RowRecords, NEW status \in {"success", "exhausted"}
  PROVE  LET s == Settle(r, status) IN
         /\ s \in RowRecords /\ s.attempts = r.attempts /\ s.status = status
         /\ s.wait = Null
<1> DEFINE w == Null
<1>1. w \in Int
  BY DEF Null
<1>2. Settle(r, status) = [r EXCEPT !.status = status, !.wait = w]
  BY DEF Settle
<1> HIDE DEF w
<1>3. LET s == [r EXCEPT !.status = status, !.wait = w] IN
         /\ s \in RowRecords /\ s.attempts = r.attempts /\ s.status = status
         /\ s.wait = w
  BY <1>1 DEF RowRecords, Ticks
<1> QED
  BY <1>2, <1>3 DEF w

LEMMA Exhausted ==
  ASSUME DrainAssumption, DrainInv, NEW D \in SUBSET Deliveries, Exhaust(D)
  PROVE  /\ delivery' \in [Deliveries -> RowRecords] /\ RungLeft(delivery')
         /\ \A d \in Deliveries : delivery'[d].attempts = delivery[d].attempts
         /\ \A p \in Passes : PassOk(pass[p], delivery')
<1>1. delivery \in [Deliveries -> RowRecords]
  BY DrainTypes DEF DrainInv
<1> DEFINE rows == [d \in Deliveries |-> IF d \in D /\ Open(d)
                                         THEN Settle(delivery[d], "exhausted")
                                         ELSE delivery[d]]
<1>2. /\ rows \in [Deliveries -> RowRecords]
      /\ \A d \in Deliveries : rows[d].attempts = delivery[d].attempts
      /\ \A d \in Deliveries : rows[d] = delivery[d] \/ rows[d].status = "exhausted"
  <2>1. \A d \in Deliveries : rows[d] = delivery[d] \/ rows[d] = Settle(delivery[d], "exhausted")
    OBVIOUS
  <2>2. \A d \in Deliveries :
          LET r == Settle(delivery[d], "exhausted") IN
          /\ r \in RowRecords /\ r.attempts = delivery[d].attempts
          /\ r.status = "exhausted"
    BY <1>1, Settles
  <2> HIDE DEF rows
  <2>3. \A d \in Deliveries : /\ rows[d] \in RowRecords
                              /\ rows[d].attempts = delivery[d].attempts
                              /\ rows[d] = delivery[d] \/ rows[d].status = "exhausted"
    BY <1>1, <2>1, <2>2
  <2>4. rows = [d \in Deliveries |-> rows[d]]
    BY DEF rows
  <2> QED BY <2>3, <2>4
<1>3. \A p \in Passes : \A d \in HeldBy(pass[p]) :
         d \in Deliveries /\ delivery[d].status \notin {"absent", "matched"}
  BY DrainTypes DEF DrainInv, PassOk, Leased
<1> HIDE DEF rows
<1>4. RungLeft(rows) /\ \A p \in Passes : PassOk(pass[p], rows)
  BY <1>2, <1>3, Unminded
<1> QED
  BY <1>2, <1>4 DEF Exhaust, rows

LEMMA SweepKeeps ==
  ASSUME DrainAssumption, DrainInv, SweepOld PROVE DrainInv'
<1>1. Exhaust({d \in Deliveries : delivery[d].old})
      /\ UNCHANGED <<endpoint, job, retry, pass, failures, toggles, answered, asked>>
  BY DEF SweepOld
<1>2. /\ delivery' \in [Deliveries -> RowRecords] /\ RungLeft(delivery')
      /\ \A d \in Deliveries : delivery'[d].attempts = delivery[d].attempts
      /\ \A p \in Passes : PassOk(pass[p], delivery')
  BY <1>1, Exhausted
<1>3. TypeOK'
  BY <1>1, <1>2 DEF DrainInv, TypeOK, RowRecords
<1> QED
  BY <1>1, <1>2, <1>3, RowStep

-----------------------------------------------------------------------------
(* A pass, until it posts. *)

LEMMA FetchKeeps ==
  ASSUME DrainAssumption, DrainInv, NEW p \in Passes, Fetch(p) PROVE DrainInv'
<1> DEFINE r == [pass[p] EXCEPT !.pc = "start"]
<1>1. /\ Put(p, r) /\ r \in PassRecords /\ HeldBy(r) = HeldBy(pass[p])
      /\ r.hand = pass[p].hand /\ r.read = pass[p].read /\ r.spent = pass[p].spent /\ Orderly(r)
  BY GotoPut DEF Fetch, DrainInv, PassOk
<1>2. job' \in Ticks /\ retry' \in BOOLEAN
  BY NullTick DEF Fetch, DrainInv, TypeOK
<1>3. UNCHANGED <<endpoint, delivery, failures, toggles, answered, asked>>
  BY DEF Fetch
<1> HIDE DEF r
<1>4. TypeOK'
  BY <1>1, <1>2, <1>3, DrainTypes, StepTyped DEF DrainInv, TypeOK
<1>5. \A d \in HeldBy(r) : r.hand[d] \in {"none", "bucket", "posting"} =>
         r.read[d] = pass[p].read[d] /\ pass[p].hand[d] \in {"none", "bucket", "posting"}
  BY <1>1
<1> QED
  BY <1>1, <1>3, <1>4, <1>5, QuietStep

LEMMA StartKeeps ==
  ASSUME DrainAssumption, DrainInv, NEW p \in Passes, Start(p) PROVE DrainInv'
<1>1. UNCHANGED <<endpoint, job, retry, failures, toggles, answered>>
  BY DEF Start
<1>2. CASE Exhaust(Deliveries) /\ Finish(p)
  <2>1. /\ delivery' \in [Deliveries -> RowRecords] /\ RungLeft(delivery')
        /\ \A d \in Deliveries : delivery'[d].attempts = delivery[d].attempts
        /\ \A q \in Passes : PassOk(pass[q], delivery')
    BY <1>2, Exhausted
  <2>2. IdlePass \in PassRecords /\ HeldBy(IdlePass) = {} /\ PassOk(IdlePass, delivery')
        /\ Put(p, IdlePass)
    BY <1>2, Rests DEF Finish
  <2>3. asked' \in [Passes -> Ticks]
    BY <1>2 DEF Finish, DrainInv, TypeOK, Ticks
  <2>4. TypeOK'
    BY <1>1, <2>1, <2>2, <2>3, StepTyped DEF DrainInv, TypeOK
  <2>5. CountsEveryAnswer'
    BY <1>1, <2>1 DEF CountsEveryAnswer, DrainInv
  <2> QED BY <2>1, <2>2, <2>4, <2>5, PassStepOk
<1>3. CASE Put(p, [IdlePass EXCEPT !.pc = "claim"]) /\ UNCHANGED <<delivery, asked>>
  <2> DEFINE r == [IdlePass EXCEPT !.pc = "claim"]
  <2>1. r \in PassRecords /\ r.failed = 0 /\ \A d \in Deliveries : r.since[d] = 0
    BY Rests DEF IdlePass, PassRecords
  <2>2. HeldBy(r) = {}
    BY DEF IdlePass, HeldBy, BusyOf
  <2> HIDE DEF r
  <2>3. Orderly(r)
    BY <2>1, <2>2, RestingOk DEF PassOk
  <2>4. Put(p, r)
    BY <1>3 DEF r
  <2>5. TypeOK'
    BY <1>1, <1>3, <2>1, <2>4, DrainTypes, StepTyped DEF DrainInv, TypeOK
  <2> QED BY <1>1, <1>3, <2>1, <2>2, <2>3, <2>4, <2>5, QuietStep
<1> QED
  BY <1>2, <1>3 DEF Start

(* The memory with which a pass goes from one part of its work to another.  *)
LEMMA RestingTyped ==
  ASSUME DrainAssumption, TypeOK, NEW p \in Passes,
         NEW pc \in {"start", "claim", "check", "work", "park", "rearm"}
  PROVE  LET r == Resting(p, pc) IN
         /\ r \in PassRecords /\ r.pc = pc /\ r.spent = pass[p].spent /\ r.page = {} /\ r.back = {}
         /\ \A d \in Deliveries : r.hand[d] = "none" /\ r.since[d] = 0
         /\ r.failed = 0 /\ HeldBy(r) = {}
<1> DEFINE r == Resting(p, pc)
<1>1. pass[p].spent \in 0..PassTime /\ pass[p].aborted \in BOOLEAN
  BY DrainTypes DEF PassRecords
<1>2. IdlePass \in PassRecords /\ HeldBy(IdlePass) = {}
  BY Rests
<1>3. /\ r \in PassRecords /\ r.pc = pc /\ r.spent = pass[p].spent /\ r.page = {} /\ r.back = {}
      /\ r.hand = [d \in Deliveries |-> "none"] /\ r.since = [d \in Deliveries |-> 0]
      /\ r.failed = 0
  BY <1>1, <1>2 DEF Resting, IdlePass, PassRecords
<1>4. HeldBy(r) = {}
  BY <1>3 DEF HeldBy, BusyOf
<1> QED
  BY <1>3, <1>4

LEMMA Waits ==
  ASSUME NEW r \in RowRecords, NEW wait \in Ticks
  PROVE  LET s == [r EXCEPT !.wait = wait] IN
         /\ s \in RowRecords /\ s.attempts = r.attempts /\ s.status = r.status
         /\ s.wait = wait
BY DEF RowRecords

(* A row a pass holds under a living lease is not due.                      *)
LEMMA HeldNotDue ==
  ASSUME DrainAssumption, DrainInv, NEW p \in Passes, NEW d \in HeldBy(pass[p])
  PROVE  ~Due(d)
<1>1. pass[p].spent \in 0..PassTime /\ d \in Deliveries /\ delivery[d].wait \in Int
  BY DrainTypes DEF DrainInv, PassRecords, RowRecords, Ticks
<1>2. Open(d) => delivery[d].wait >= Lease - pass[p].spent
  BY DEF DrainInv, PassOk, Leased, Open
<1> QED
  BY <1>1, <1>2 DEF Due, DrainAssumption

LEMMA ClaimKeeps ==
  ASSUME DrainAssumption, DrainInv, NEW p \in Passes, Claim(p) PROVE DrainInv'
<1> DEFINE due == {d \in Deliveries : Due(d)}
<1>1. UNCHANGED <<endpoint, job, retry, failures, toggles, answered>>
      /\ asked' \in [Passes -> Ticks]
  BY DEF Claim, DrainInv, TypeOK, Ticks
<1>t. pass \in [Passes -> PassRecords] /\ delivery \in [Deliveries -> RowRecords]
  BY DrainTypes DEF DrainInv
<1>2. ASSUME Goto(p, "rearm"), UNCHANGED delivery PROVE DrainInv'
  <2> DEFINE r == [pass[p] EXCEPT !.pc = "rearm"]
  <2>1. /\ Put(p, r) /\ r \in PassRecords /\ HeldBy(r) = HeldBy(pass[p])
        /\ r.hand = pass[p].hand /\ r.read = pass[p].read /\ r.spent = pass[p].spent /\ Orderly(r)
    BY <1>2, GotoPut DEF DrainInv, PassOk
  <2> HIDE DEF r
  <2>2. TypeOK'
    BY <1>1, <1>2, <2>1, <1>t, StepTyped DEF DrainInv, TypeOK
  <2> QED BY <1>1, <1>2, <2>1, <2>2, QuietStep
<1> DEFINE rows == [d \in Deliveries |-> IF d \in due THEN [delivery[d] EXCEPT !.wait = Lease]
                                         ELSE delivery[d]]
           read == [d \in Deliveries |-> IF d \in due THEN delivery[d].attempts ELSE 0]
           r == [Resting(p, "check") EXCEPT !.page = due, !.read = read]
<1>3. ASSUME delivery' = rows, Put(p, r) PROVE DrainInv'
  <2>1. /\ rows \in [Deliveries -> RowRecords]
        /\ \A d \in Deliveries : rows[d].status = delivery[d].status
                                 /\ rows[d].attempts = delivery[d].attempts
        /\ \A d \in Deliveries \ due : rows[d] = delivery[d]
        /\ \A d \in due : rows[d].wait = Lease
    <3>1. ASSUME NEW d \in Deliveries
          PROVE  LET x == [delivery[d] EXCEPT !.wait = Lease] IN
                 x \in RowRecords /\ x.status = delivery[d].status
                 /\ x.attempts = delivery[d].attempts /\ x.wait = Lease
      BY <1>t, Waits DEF Ticks, DrainAssumption
    <3> HIDE DEF due
    <3> QED BY <1>t, <3>1 DEF due
  <2>2. read \in [Deliveries -> 0..MaxAttempts]
    <3>1. \A d \in Deliveries : delivery[d].attempts \in 0..MaxAttempts
      BY <1>t DEF RowRecords
    <3> HIDE DEF due
    <3> QED BY <3>1 DEF DrainAssumption
  <2>3. due \subseteq Deliveries /\ \A d \in due : /\ read[d] = delivery[d].attempts
                                                  /\ delivery[d].status \in {"pending", "failed"}
    BY DEF Due, Open
  <2> DEFINE rest == Resting(p, "check")
  <2>4. /\ rest \in PassRecords /\ rest.spent = pass[p].spent /\ rest.back = {} /\ rest.pc = "check"
        /\ \A d \in Deliveries : rest.hand[d] = "none" /\ rest.since[d] = 0
        /\ rest.failed = 0
    BY RestingTyped DEF DrainInv
  <2> HIDE DEF due, read, rows, rest
  <2>5. /\ r \in PassRecords /\ r.spent = pass[p].spent /\ r.page = due /\ r.read = read
        /\ \A d \in Deliveries : r.hand[d] = "none" /\ r.since[d] = 0
        /\ r.failed = 0 /\ r.back = {} /\ r.pc = "check"
    <3>1. r = [rest EXCEPT !.page = due, !.read = read]
      BY DEF rest
    <3> HIDE DEF r
    <3> QED BY <2>2, <2>3, <2>4, <3>1 DEF PassRecords
  <2> HIDE DEF r
  <2>6. BusyOf(r) = {} /\ HeldBy(r) = due
    BY <2>5 DEF BusyOf, HeldBy
  <2>7. Orderly(r)
    <3>1. Cardinality(BusyOf(r)) = 0
      BY <2>6, FS_EmptySet
    <3>2. r.spent \in Nat
      BY <2>5 DEF PassRecords, DrainAssumption
    <3> QED BY <2>5, <2>6, <3>1, <3>2 DEF Orderly, DrainAssumption
  <2>8. Leased(r, rows)
    <3>1. r.spent \in Nat
      BY <2>5 DEF PassRecords, DrainAssumption
    <3>2. Lease >= Lease - r.spent
      BY <3>1 DEF DrainAssumption
    <3>3. \A d \in due : rows[d].status \in {"pending", "failed"} /\ rows[d].wait = Lease
      BY <2>1, <2>3
    <3> QED BY <2>6, <3>2, <3>3 DEF Leased
  <2>9. Knows(r, rows)
    BY <2>1, <2>3, <2>5, <2>6 DEF Knows, DrainInv, RungLeft
  <2>10. ASSUME NEW q \in Passes \ {p}
         PROVE  PassOk(pass[q], rows) /\ HeldBy(r) \cap HeldBy(pass[q]) = {}
    <3>1. \A d \in HeldBy(pass[q]) : d \in Deliveries \ due
      BY HeldNotDue, DrainTypes DEF due, DrainInv
    <3>2. PassOk(pass[q], delivery)
      BY DEF DrainInv
    <3>3. \A d \in HeldBy(pass[q]) : rows[d] = delivery[d]
      BY <2>1, <3>1
    <3> QED BY <2>6, <3>1, <3>2, <3>3, OtherRows
  <2>11. RungLeft(rows) /\ CountsEveryAnswer'
    BY <1>1, <1>3, <2>1 DEF RungLeft, CountsEveryAnswer, DrainInv
  <2>12. TypeOK'
    BY <1>1, <1>3, <2>1, <2>5, StepTyped DEF DrainInv, TypeOK
  <2> QED
    BY <1>3, <2>1, <2>5, <2>7, <2>8, <2>9, <2>10, <2>11, <2>12, PassStepOk DEF PassOk
<1> QED
  BY <1>2, <1>3 DEF Claim

LEMMA ReleasedRows ==
  ASSUME DrainAssumption, DrainInv, NEW D \in SUBSET Deliveries, NEW instant \in Ticks
  PROVE  LET rows == Released(D, instant) IN
         /\ rows \in [Deliveries -> RowRecords] /\ RungLeft(rows)
         /\ \A d \in Deliveries : rows[d].status = delivery[d].status
                                  /\ rows[d].attempts = delivery[d].attempts
         /\ \A d \in Deliveries \ D : rows[d] = delivery[d]
<1>1. delivery \in [Deliveries -> RowRecords]
  BY DrainTypes DEF DrainInv
<1> DEFINE rows == Released(D, instant)
<1>2. ASSUME NEW d \in Deliveries
      PROVE  LET s == [delivery[d] EXCEPT !.wait = instant] IN
             /\ s \in RowRecords /\ s.attempts = delivery[d].attempts
             /\ s.status = delivery[d].status
  BY <1>1, Waits
<1>3. /\ rows \in [Deliveries -> RowRecords]
      /\ \A d \in Deliveries : rows[d].status = delivery[d].status
                               /\ rows[d].attempts = delivery[d].attempts
      /\ \A d \in Deliveries \ D : rows[d] = delivery[d]
  BY <1>1, <1>2 DEF Released
<1> QED
  BY <1>3 DEF RungLeft, DrainInv

LEMMA CheckKeeps ==
  ASSUME DrainAssumption, DrainInv, NEW p \in Passes, Check(p) PROVE DrainInv'
<1>1. UNCHANGED <<endpoint, job, retry, failures, toggles, answered, asked>>
  BY DEF Check
<1>t. pass \in [Passes -> PassRecords] /\ delivery \in [Deliveries -> RowRecords]
  BY DrainTypes DEF DrainInv
<1>2. ASSUME Goto(p, "work"), UNCHANGED delivery PROVE DrainInv'
  <2> DEFINE r == [pass[p] EXCEPT !.pc = "work"]
  <2>1. /\ Put(p, r) /\ r \in PassRecords /\ HeldBy(r) = HeldBy(pass[p])
        /\ r.hand = pass[p].hand /\ r.read = pass[p].read /\ r.spent = pass[p].spent /\ Orderly(r)
    BY <1>2, GotoPut DEF DrainInv, PassOk
  <2> HIDE DEF r
  <2>2. TypeOK'
    BY <1>1, <1>2, <2>1, <1>t, StepTyped DEF DrainInv, TypeOK
  <2> QED BY <1>1, <1>2, <2>1, <2>2, QuietStep
<1> DEFINE rows == Released(pass[p].page, 0)
           r == [pass[p] EXCEPT !.pc = "rearm", !.page = {}]
<1>3. ASSUME delivery' = rows, Put(p, r) PROVE DrainInv'
  <2>1. /\ rows \in [Deliveries -> RowRecords] /\ RungLeft(rows)
        /\ \A d \in Deliveries : rows[d].status = delivery[d].status
                                 /\ rows[d].attempts = delivery[d].attempts
        /\ \A d \in Deliveries \ pass[p].page : rows[d] = delivery[d]
    <3>1. pass[p].page \in SUBSET Deliveries /\ 0 \in Ticks
      BY <1>t DEF PassRecords, Ticks
    <3> QED BY <3>1, ReleasedRows
  <2>2. /\ r \in PassRecords /\ r.pc = "rearm" /\ r.page = {} /\ r.back = pass[p].back
        /\ r.hand = pass[p].hand /\ r.read = pass[p].read /\ r.spent = pass[p].spent
        /\ r.since = pass[p].since /\ r.failed = pass[p].failed
    BY <1>t, ZenonT(60) DEF PassRecords
  <2> HIDE DEF r, rows
  <2>3. BusyOf(r) = BusyOf(pass[p]) /\ HeldBy(r) = HeldBy(pass[p]) \ pass[p].page
    BY <2>2 DEF BusyOf, HeldBy, DrainInv, PassOk, Orderly
  <2>4. Orderly(r)
    BY <2>2, <2>3 DEF Orderly, DrainInv, PassOk
  <2>5. HeldBy(pass[p]) \subseteq Deliveries /\ pass[p].page \subseteq HeldBy(pass[p])
    BY DrainTypes DEF DrainInv, HeldBy
  <2>6. \A d \in HeldBy(r) : rows[d] = delivery[d]
    BY <2>1, <2>3, <2>5
  <2>7. Leased(r, rows) /\ Knows(r, rows)
    BY <2>2, <2>3, <2>6 DEF Leased, Knows, DrainInv, PassOk
  <2>8. CountsEveryAnswer'
    BY <1>1, <1>3, <2>1 DEF CountsEveryAnswer, DrainInv
  <2>9. TypeOK'
    BY <1>1, <1>3, <2>1, <2>2, StepTyped DEF DrainInv, TypeOK
  <2> QED
    BY <1>3, <2>1, <2>2, <2>3, <2>4, <2>5, <2>7, <2>8, <2>9, OwnStep DEF PassOk
<1> QED
  BY <1>2, <1>3 DEF Check

LEMMA TakeKeeps ==
  ASSUME DrainAssumption, DrainInv, NEW p \in Passes, NEW d \in Deliveries, Take(p, d)
  PROVE  DrainInv'
<1> DEFINE rest == [pass[p] EXCEPT !.page = @ \ {d}]
<1>1. UNCHANGED <<endpoint, job, retry, failures, toggles, answered, asked>>
      /\ d \in pass[p].page /\ FreeWorker(p) /\ pass[p].pc = "work"
  BY DEF Take
<1>t. pass \in [Passes -> PassRecords] /\ delivery \in [Deliveries -> RowRecords]
      /\ Busy(p) = BusyOf(pass[p])
  BY DrainTypes DEF DrainInv
<1>2. /\ rest \in PassRecords /\ rest.pc = "work" /\ rest.page = pass[p].page \ {d}
      /\ rest.back = pass[p].back /\ rest.hand = pass[p].hand /\ rest.read = pass[p].read
      /\ rest.spent = pass[p].spent /\ rest.since = pass[p].since
      /\ rest.failed = pass[p].failed
  BY <1>1, <1>t, ZenonT(60) DEF PassRecords
<1>3. d \in HeldBy(pass[p]) /\ d \notin BusyOf(pass[p]) /\ d \notin pass[p].back
  BY <1>1 DEF HeldBy, DrainInv, PassOk, Orderly
<1>4. ASSUME delivery' = [delivery EXCEPT ![d] = Settle(@, "exhausted")], Put(p, rest)
      PROVE  DrainInv'
  <2> DEFINE rows == [delivery EXCEPT ![d] = Settle(delivery[d], "exhausted")]
  <2>1. /\ rows \in [Deliveries -> RowRecords]
        /\ \A c \in Deliveries \ {d} : rows[c] = delivery[c]
        /\ \A c \in Deliveries : rows[c].attempts = delivery[c].attempts
        /\ rows[d].status = "exhausted"
    BY <1>t, Settles
  <2> HIDE DEF rest, rows
  <2>2. BusyOf(rest) = BusyOf(pass[p]) /\ HeldBy(rest) = HeldBy(pass[p]) \ {d}
    BY <1>2, <1>3 DEF BusyOf, HeldBy
  <2>3. Orderly(rest)
    BY <1>2, <2>2 DEF Orderly, DrainInv, PassOk
  <2>4. \A c \in HeldBy(rest) : rows[c] = delivery[c]
    BY <2>1, <2>2, DrainTypes DEF DrainInv
  <2>5. Leased(rest, rows) /\ Knows(rest, rows)
    BY <1>2, <2>2, <2>4 DEF Leased, Knows, DrainInv, PassOk
  <2>6. RungLeft(rows)
    BY <2>1 DEF RungLeft, DrainInv
  <2>7. delivery' = rows
    BY <1>4 DEF rows
  <2>8. CountsEveryAnswer' /\ TypeOK'
    BY <1>1, <1>2, <1>4, <2>1, <2>7, StepTyped, ZenonT(60) DEF CountsEveryAnswer, DrainInv, TypeOK
  <2> QED
    BY <1>2, <1>3, <1>4, <2>1, <2>2, <2>3, <2>5, <2>6, <2>7, <2>8, OwnStep DEF PassOk
<1> DEFINE r == [rest EXCEPT !.hand[d] = "bucket"]
<1>5. ASSUME Put(p, r), UNCHANGED delivery PROVE DrainInv'
  <2> DEFINE hand == [pass[p].hand EXCEPT ![d] = "bucket"]
  <2>1. hand \in [Deliveries -> Hands] /\ pass[p].hand \in [Deliveries -> Hands]
        /\ \A c \in Deliveries : hand[c] = IF c = d THEN "bucket" ELSE pass[p].hand[c]
    BY <1>t DEF PassRecords, Hands
  <2>2. /\ r \in PassRecords /\ r.pc = "work" /\ r.page = pass[p].page \ {d}
        /\ r.back = pass[p].back /\ r.hand = hand /\ r.read = pass[p].read
        /\ r.spent = pass[p].spent /\ r.since = pass[p].since /\ r.failed = pass[p].failed
    <3>1. r = [rest EXCEPT !.hand = hand]
      BY <1>2
    <3> HIDE DEF hand, rest, r
    <3> QED BY <1>2, <2>1, <3>1 DEF PassRecords
  <2> HIDE DEF hand, r, rest
  <2>3. BusyOf(r) = BusyOf(pass[p]) \cup {d} /\ HeldBy(r) = HeldBy(pass[p])
    BY <1>1, <2>1, <2>2 DEF BusyOf, HeldBy
  <2>4. Cardinality(BusyOf(r)) + r.failed <= Concurrency
    <3>1. IsFiniteSet(BusyOf(pass[p]))
      BY FS_Subset DEF BusyOf, DrainAssumption
    <3>2. Cardinality(BusyOf(r)) = Cardinality(BusyOf(pass[p])) + 1
          /\ Cardinality(BusyOf(pass[p])) \in Nat
      BY <1>3, <2>3, <3>1, FS_AddElement, FS_CardinalityType
    <3>3. pass[p].failed \in Nat
      BY <1>t DEF PassRecords, DrainAssumption
    <3> QED BY <1>1, <1>t, <2>2, <3>2, <3>3 DEF FreeWorker, DrainAssumption
  <2>5. Orderly(r)
    BY <1>3, <2>2, <2>3, <2>4 DEF Orderly, DrainInv, PassOk
  <2>6. \A c \in HeldBy(r) : r.hand[c] \in {"none", "bucket", "posting"} =>
           r.read[c] = pass[p].read[c] /\ pass[p].hand[c] \in {"none", "bucket", "posting"}
    <3>1. pass[p].hand[d] = "none"
      BY <1>3 DEF BusyOf
    <3> QED BY <2>1, <2>2, <2>3, <3>1, DrainTypes DEF DrainInv
  <2>7. TypeOK'
    BY <1>1, <1>5, <1>t, <2>2, StepTyped DEF DrainInv, TypeOK
  <2> QED BY <1>1, <1>5, <2>2, <2>3, <2>5, <2>6, <2>7, QuietStep
<1> QED
  BY <1>4, <1>5 DEF Take

(* A pass notes something beside its rows.                                  *)
LEMMA StopKeeps ==
  ASSUME DrainAssumption, DrainInv, NEW p \in Passes, Abort(p) \/ StopEarly(p)
  PROVE  DrainInv'
<1>t. pass \in [Passes -> PassRecords] /\ delivery \in [Deliveries -> RowRecords]
  BY DrainTypes DEF DrainInv
<1>1. UNCHANGED <<endpoint, delivery, job, retry, toggles, answered, asked>>
  BY DEF Abort, StopEarly
<1>2. failures' \in Nat
  BY DEF Abort, StopEarly, DrainInv, TypeOK
<1>3. \E r \in PassRecords :
        /\ Put(p, r) /\ r.pc = pass[p].pc /\ r.page = pass[p].page /\ r.back = pass[p].back
        /\ r.hand = pass[p].hand /\ r.read = pass[p].read /\ r.spent = pass[p].spent
        /\ r.since = pass[p].since /\ r.failed = pass[p].failed
  <2>1. CASE Abort(p)
    <3> DEFINE r == [pass[p] EXCEPT !.aborted = TRUE]
    <3>1. r \in PassRecords /\ r.pc = pass[p].pc /\ r.page = pass[p].page /\ r.back = pass[p].back
          /\ r.hand = pass[p].hand /\ r.read = pass[p].read /\ r.spent = pass[p].spent
          /\ r.since = pass[p].since /\ r.failed = pass[p].failed
      BY <1>t, ZenonT(60) DEF PassRecords
    <3> QED BY <2>1, <3>1 DEF Abort
  <2>2. CASE StopEarly(p)
    <3> DEFINE r == [pass[p] EXCEPT !.stop = "budget", !.until = 0]
    <3>1. r \in PassRecords /\ r.pc = pass[p].pc /\ r.page = pass[p].page /\ r.back = pass[p].back
          /\ r.hand = pass[p].hand /\ r.read = pass[p].read /\ r.spent = pass[p].spent
          /\ r.since = pass[p].since /\ r.failed = pass[p].failed
      <4>1. 0 \in Ticks
        BY DEF Ticks
      <4> QED BY <1>t, <4>1, ZenonT(60) DEF PassRecords
    <3> QED BY <2>2, <3>1 DEF StopEarly
  <2> QED BY <2>1, <2>2
<1>4. PICK r \in PassRecords :
        /\ Put(p, r) /\ r.pc = pass[p].pc /\ r.page = pass[p].page /\ r.back = pass[p].back
        /\ r.hand = pass[p].hand /\ r.read = pass[p].read /\ r.spent = pass[p].spent
        /\ r.since = pass[p].since /\ r.failed = pass[p].failed
  BY <1>3
<1>5. BusyOf(r) = BusyOf(pass[p]) /\ HeldBy(r) = HeldBy(pass[p])
  BY <1>4 DEF BusyOf, HeldBy
<1>6. Orderly(r)
  BY <1>4, <1>5 DEF Orderly, DrainInv, PassOk
<1>7. TypeOK'
  BY <1>1, <1>2, <1>4, <1>t, StepTyped DEF DrainInv, TypeOK
<1> QED
  BY <1>1, <1>4, <1>5, <1>6, <1>7, QuietStep

-----------------------------------------------------------------------------
(* A worker and its row. *)

(* A worker lets its row go on, or hands it back, and the page is told.     *)
LEMMA QuietWorker ==
  ASSUME DrainAssumption, DrainInv, NEW p \in Passes, NEW d \in Deliveries,
         pass[p].pc = "work", pass[p].hand[d] # "none", NEW doing \in Hands,
         doing \in {"bucket", "posting"} => pass[p].hand[d] \in {"bucket", "posting"},
         NEW back \in {pass[p].back, pass[p].back \cup {d}},
         back # pass[p].back => doing = "none" /\ pass[p].hand[d] \in {"bucket", "posting"},
         NEW stop \in {"none", "budget", "throttled", "disabled"}, NEW until \in Ticks,
         NEW failed \in {pass[p].failed, pass[p].failed + 1},
         failed # pass[p].failed => doing = "none",
         Put(p, [Letting(p, d, doing) EXCEPT !.back = back, !.stop = stop, !.until = until,
                                            !.failed = failed]),
         UNCHANGED <<delivery, job, retry, toggles, answered, asked>>,
         endpoint' \in {"enabled", "disabled", "auto_disabled"}, failures' \in Nat
  PROVE  DrainInv'
<1> DEFINE let == Letting(p, d, doing)
           r == [let EXCEPT !.back = back, !.stop = stop, !.until = until, !.failed = failed]
<1>t. /\ pass[p] \in PassRecords /\ delivery \in [Deliveries -> RowRecords]
      /\ Orderly(pass[p]) /\ back \subseteq Deliveries
  BY DrainTypes DEF DrainInv, PassOk, PassRecords
<1>1. /\ let \in PassRecords /\ Orderly(let)
      /\ \A c \in Deliveries : let.hand[c] = IF c = d THEN doing ELSE pass[p].hand[c]
      /\ let.page = pass[p].page /\ let.back = pass[p].back /\ let.failed = pass[p].failed
      /\ let.pc = "work" /\ let.spent = pass[p].spent /\ let.read = pass[p].read
      /\ HeldBy(let) = IF doing = "none" THEN HeldBy(pass[p]) \ {d} ELSE HeldBy(pass[p])
      /\ doing = "none" => Cardinality(BusyOf(let)) = Cardinality(BusyOf(pass[p])) - 1
  BY <1>t, LettingOk DEF DrainInv
<1> HIDE DEF let
<1>2. /\ Cardinality(BusyOf(pass[p])) \in Nat /\ Cardinality(BusyOf(let)) \in Nat
      /\ Cardinality(BusyOf(let)) + failed <= Concurrency
      /\ failed \in 0..Concurrency
  <2>1. Cardinality(BusyOf(pass[p])) \in Nat /\ Cardinality(BusyOf(let)) \in Nat
    BY FS_Subset, FS_CardinalityType DEF BusyOf, DrainAssumption
  <2>2. pass[p].failed \in Nat /\ Concurrency \in Nat
        /\ Cardinality(BusyOf(pass[p])) + pass[p].failed <= Concurrency
        /\ Cardinality(BusyOf(let)) + pass[p].failed <= Concurrency
    BY <1>t, <1>1 DEF PassRecords, Orderly, DrainAssumption
  <2>3. CASE failed = pass[p].failed
    BY <2>1, <2>2, <2>3, SMTT(40)
  <2>4. CASE failed = pass[p].failed + 1
    <3>1. doing = "none"
      BY <2>2, <2>4
    <3>2. Cardinality(BusyOf(let)) = Cardinality(BusyOf(pass[p])) - 1
      BY <1>1, <3>1
    <3>3. \A m, n, f, c \in Nat :
            n = m - 1 /\ m + f <= c => n + (f + 1) <= c /\ f + 1 \in 0..c
      BY SMTT(40)
    <3>4. /\ Cardinality(BusyOf(let)) + (pass[p].failed + 1) <= Concurrency
          /\ pass[p].failed + 1 \in 0..Concurrency
      BY <2>1, <2>2, <3>2, <3>3
    <3> QED BY <2>1, <2>4, <3>4
  <2> QED BY <2>1, <2>3, <2>4
<1>3. /\ r \in PassRecords /\ r.pc = "work" /\ r.page = let.page /\ r.back = back
      /\ r.hand = let.hand /\ r.read = let.read /\ r.spent = let.spent
      /\ r.since = let.since /\ r.failed = failed
  BY <1>t, <1>1, <1>2 DEF PassRecords
<1> HIDE DEF r
<1>4. BusyOf(r) = BusyOf(let) /\ HeldBy(r) \subseteq HeldBy(pass[p])
  <2>1. BusyOf(r) = BusyOf(let)
    BY <1>3 DEF BusyOf
  <2>2. d \in HeldBy(pass[p])
    BY DEF HeldBy, BusyOf
  <2>3. HeldBy(r) \subseteq HeldBy(let) \cup {d} /\ (back = pass[p].back => HeldBy(r) = HeldBy(let))
    BY <1>1, <1>3, <2>1 DEF HeldBy
  <2> QED BY <1>1, <2>1, <2>2, <2>3
<1>5. Orderly(r)
  <2>1. r.page \cap r.back = {} /\ BusyOf(r) \cap (r.page \cup r.back) = {}
    <3>1. d \notin pass[p].page /\ (doing = "none" => d \notin BusyOf(r))
      BY <1>t, <1>1, <1>3 DEF Orderly, BusyOf
    <3> QED BY <1>1, <1>3, <1>4, <3>1 DEF Orderly
  <2> QED BY <1>1, <1>2, <1>3, <1>4, <2>1 DEF Orderly
<1>6. \A c \in HeldBy(r) : r.hand[c] \in {"none", "bucket", "posting"} =>
         r.read[c] = pass[p].read[c] /\ pass[p].hand[c] \in {"none", "bucket", "posting"}
  <2> SUFFICES ASSUME NEW c \in HeldBy(r), r.hand[c] \in {"none", "bucket", "posting"}
               PROVE  r.read[c] = pass[p].read[c] /\ pass[p].hand[c] \in {"none", "bucket", "posting"}
    OBVIOUS
  <2>1. c \in Deliveries
    BY <1>4, DrainTypes DEF DrainInv
  <2>2. CASE c # d
    BY <1>1, <1>3, <2>1, <2>2
  <2>3. CASE c = d /\ doing # "none"
    BY <1>1, <1>3, <2>1, <2>3
  <2>4. CASE c = d /\ doing = "none" /\ back = pass[p].back
    <3>1. d \notin HeldBy(r)
      <4>1. d \notin HeldBy(let)
        BY <1>1, <2>4
      <4> QED BY <1>1, <1>3, <1>4, <2>4, <4>1 DEF HeldBy
    <3> QED BY <2>4, <3>1
  <2>5. CASE c = d /\ back # pass[p].back
    BY <1>1, <1>3, <2>1, <2>5
  <2> QED BY <2>2, <2>3, <2>4, <2>5
<1>7. Put(p, r)
  BY DEF r, let
<1>8. TypeOK'
  BY <1>3, <1>7, <1>t, StepTyped DEF DrainInv, TypeOK
<1> QED
  BY <1>1, <1>3, <1>4, <1>5, <1>6, <1>7, <1>8, QuietStep

LEMMA Rewritten ==
  ASSUME NEW l \in PassRecords, NEW b, NEW s, NEW u, NEW f
  PROVE  /\ [l EXCEPT !.back = l.back, !.stop = l.stop, !.until = l.until, !.failed = l.failed] = l
         /\ [l EXCEPT !.back = b, !.stop = l.stop, !.until = l.until, !.failed = l.failed]
              = [l EXCEPT !.back = b]
         /\ [l EXCEPT !.back = l.back, !.stop = l.stop, !.until = l.until, !.failed = f]
              = [l EXCEPT !.failed = f]
         /\ [l EXCEPT !.back = l.back, !.stop = s, !.until = u, !.failed = l.failed]
              = [l EXCEPT !.stop = s, !.until = u]
         /\ [l EXCEPT !.back = b, !.stop = s, !.until = u, !.failed = l.failed]
              = [l EXCEPT !.stop = s, !.until = u, !.back = b]
<1>1. [l EXCEPT !.back = l.back, !.stop = l.stop, !.until = l.until, !.failed = l.failed] = l
  BY DEF PassRecords
<1>2. [l EXCEPT !.back = b, !.stop = l.stop, !.until = l.until, !.failed = l.failed]
        = [l EXCEPT !.back = b]
  BY DEF PassRecords
<1>3. [l EXCEPT !.back = l.back, !.stop = l.stop, !.until = l.until, !.failed = f]
        = [l EXCEPT !.failed = f]
  BY DEF PassRecords
<1>4. [l EXCEPT !.back = l.back, !.stop = s, !.until = u, !.failed = l.failed]
        = [l EXCEPT !.stop = s, !.until = u]
  BY DEF PassRecords
<1>5. [l EXCEPT !.back = b, !.stop = s, !.until = u, !.failed = l.failed]
        = [l EXCEPT !.stop = s, !.until = u, !.back = b]
  BY DEF PassRecords
<1> QED
  BY <1>1, <1>2, <1>3, <1>4, <1>5

(* The forms in which the model writes it.                                  *)
LEMMA QuietForms ==
  ASSUME DrainAssumption, DrainInv, NEW p \in Passes, NEW d \in Deliveries,
         pass[p].pc = "work", pass[p].hand[d] # "none", NEW doing \in Hands,
         doing \in {"bucket", "posting"} => pass[p].hand[d] \in {"bucket", "posting"},
         UNCHANGED <<delivery, job, retry, toggles, answered, asked>>,
         endpoint' \in {"enabled", "disabled", "auto_disabled"}, failures' \in Nat,
         LET l == Letting(p, d, doing) IN
         \/ Put(p, l)
         \/ doing = "none" /\ Put(p, [l EXCEPT !.failed = pass[p].failed + 1])
         \/ doing = "none" /\ Put(p, [l EXCEPT !.stop = "disabled", !.until = 0])
         \/ /\ doing = "none" /\ pass[p].hand[d] \in {"bucket", "posting"}
            /\ \/ Put(p, [l EXCEPT !.back = pass[p].back \cup {d}])
               \/ Put(p, [l EXCEPT !.stop = "budget", !.until = 0,
                                   !.back = pass[p].back \cup {d}])
  PROVE  DrainInv'
<1> DEFINE l == Letting(p, d, doing)
           back == pass[p].back \cup {d}
<1>1. l \in PassRecords /\ l.back = pass[p].back /\ l.failed = pass[p].failed
  BY LettingOk DEF DrainInv, PassOk
<1>2. l.until \in Ticks /\ l.stop \in {"none", "budget", "throttled", "disabled"} /\ 0 \in Ticks
  BY <1>1 DEF PassRecords, Ticks
<1>3. ASSUME NEW b \in {l.back, back}, NEW s \in {"none", "budget", "throttled", "disabled"},
             NEW u \in Ticks, NEW f \in {l.failed, l.failed + 1},
             b # l.back => doing = "none" /\ pass[p].hand[d] \in {"bucket", "posting"},
             f # l.failed => doing = "none",
             Put(p, [l EXCEPT !.back = b, !.stop = s, !.until = u, !.failed = f])
      PROVE  DrainInv'
  BY <1>1, <1>3, QuietWorker, ZenonT(60)
<1> HIDE DEF l, back
<1>4. CASE Put(p, l)
  <2>1. Put(p, [l EXCEPT !.back = l.back, !.stop = l.stop, !.until = l.until, !.failed = l.failed])
    BY <1>1, <1>4, Rewritten
  <2> QED BY <1>2, <1>3, <2>1
<1>5. CASE doing = "none" /\ Put(p, [l EXCEPT !.failed = l.failed + 1])
  <2>1. Put(p, [l EXCEPT !.back = l.back, !.stop = l.stop, !.until = l.until,
                         !.failed = l.failed + 1])
    BY <1>1, <1>5, Rewritten
  <2> QED BY <1>2, <1>3, <1>5, <2>1
<1>6. CASE doing = "none" /\ Put(p, [l EXCEPT !.stop = "disabled", !.until = 0])
  <2>1. Put(p, [l EXCEPT !.back = l.back, !.stop = "disabled", !.until = 0, !.failed = l.failed])
    <3>1. [l EXCEPT !.back = l.back, !.stop = "disabled", !.until = 0, !.failed = l.failed]
            = [l EXCEPT !.stop = "disabled", !.until = 0]
      BY <1>1, Rewritten, Zenon
    <3> QED BY <1>6, <3>1, Zenon
  <2> QED BY <1>2, <1>3, <2>1
<1>7. CASE /\ doing = "none" /\ pass[p].hand[d] \in {"bucket", "posting"}
           /\ Put(p, [l EXCEPT !.back = back])
  <2>1. Put(p, [l EXCEPT !.back = back, !.stop = l.stop, !.until = l.until, !.failed = l.failed])
    BY <1>1, <1>7, Rewritten
  <2> QED BY <1>2, <1>3, <1>7, <2>1
<1>8. CASE /\ doing = "none" /\ pass[p].hand[d] \in {"bucket", "posting"}
           /\ Put(p, [l EXCEPT !.stop = "budget", !.until = 0, !.back = back])
  <2>1. Put(p, [l EXCEPT !.back = back, !.stop = "budget", !.until = 0, !.failed = l.failed])
    <3>1. [l EXCEPT !.back = back, !.stop = "budget", !.until = 0, !.failed = l.failed]
            = [l EXCEPT !.stop = "budget", !.until = 0, !.back = back]
      BY <1>1, Rewritten, Zenon
    <3> QED BY <1>8, <3>1, Zenon
  <2> QED BY <1>2, <1>3, <1>8, <2>1
<1> QED
  BY <1>1, <1>4, <1>5, <1>6, <1>7, <1>8 DEF l, back

LEMMA WorkerKeeps ==
  ASSUME DrainAssumption, DrainInv, NEW p \in Passes, NEW d \in Deliveries,
         Post(p, d) \/ CountSettled(p, d) \/ AutoDisable(p, d) \/ WorkerFails(p, d)
  PROVE  DrainInv'
<1>1. /\ UNCHANGED <<delivery, job, retry, toggles, answered, asked>>
      /\ endpoint' \in {"enabled", "disabled", "auto_disabled"} /\ failures' \in Nat
      /\ pass[p].pc = "work" /\ pass[p].hand[d] # "none"
  BY SMTT(40) DEF Post, CountSettled, AutoDisable, WorkerFails, DrainInv, TypeOK
<1>2. {"none", "posting", "disable"} \subseteq Hands
  BY DEF Hands
<1>3. LET l == Letting(p, d, "none") IN
      l \in PassRecords /\ l.back = pass[p].back /\ l.failed = pass[p].failed
  BY <1>1, <1>2, LettingOk DEF DrainInv, PassOk
<1>4. CASE Post(p, d)
  <2>1. pass[p].hand[d] = "bucket"
        /\ \/ Put(p, Letting(p, d, "posting"))
           \/ Put(p, [Letting(p, d, "none") EXCEPT !.back = pass[p].back \cup {d}])
           \/ Put(p, [Letting(p, d, "none") EXCEPT !.stop = "budget", !.until = 0,
                                                   !.back = pass[p].back \cup {d}])
    <3> HIDE DEF Letting
    <3> QED BY <1>3, <1>4 DEF Post
  <2> QED BY <1>1, <1>2, <2>1, QuietForms
<1>5. CASE CountSettled(p, d)
  <2>1. Put(p, Letting(p, d, "disable")) \/ Put(p, Letting(p, d, "none"))
    BY <1>5 DEF CountSettled
  <2> QED BY <1>1, <1>2, <2>1, QuietForms
<1>6. CASE AutoDisable(p, d)
  <2>1. \/ Put(p, Letting(p, d, "none"))
        \/ Put(p, [Letting(p, d, "none") EXCEPT !.stop = "disabled", !.until = 0])
    BY <1>6 DEF AutoDisable
  <2> QED BY <1>1, <1>2, <2>1, QuietForms
<1>7. CASE WorkerFails(p, d)
  <2>1. Put(p, [Letting(p, d, "none") EXCEPT !.failed = pass[p].failed + 1])
    BY <1>3, <1>7 DEF WorkerFails
  <2> QED BY <1>1, <1>2, <2>1, QuietForms
<1> QED
  BY <1>4, <1>5, <1>6, <1>7

(* An answer is written to the row it is about, and the worker is free, or  *)
(* counts a row it settled.                                                 *)
LEMMA AnswerStep ==
  ASSUME DrainAssumption, DrainInv, NEW p \in Passes, NEW d \in Deliveries,
         pass[p].pc = "work", pass[p].hand[d] = "posting", NEW doing \in {"none", "count"},
         NEW row \in RowRecords, delivery' = [delivery EXCEPT ![d] = row],
         doing = "count" => row.status = "exhausted",
         row.status \in {"absent", "matched", "pending", "failed"} => row.attempts < MaxAttempts,
         NEW stop \in {"none", "budget", "throttled", "disabled"}, NEW until \in Ticks,
         Put(p, [Letting(p, d, doing) EXCEPT !.stop = stop, !.until = until]),
         \/ row.attempts = delivery[d].attempts /\ answered' = answered
         \/ /\ row.attempts = delivery[d].attempts + 1
            /\ answered' = [answered EXCEPT ![d] = @ + 1],
         UNCHANGED <<endpoint, job, retry, failures, toggles>>, asked' \in [Passes -> Ticks]
  PROVE  DrainInv'
<1> DEFINE let == Letting(p, d, doing)
           r == [let EXCEPT !.stop = stop, !.until = until]
           rows == [delivery EXCEPT ![d] = row]
<1>t. pass[p] \in PassRecords /\ delivery \in [Deliveries -> RowRecords]
      /\ answered \in [Deliveries -> Nat] /\ HeldBy(pass[p]) \subseteq Deliveries
  BY DrainTypes DEF DrainInv, TypeOK
<1>1. /\ let \in PassRecords /\ Orderly(let)
      /\ \A c \in Deliveries : let.hand[c] = IF c = d THEN doing ELSE pass[p].hand[c]
      /\ let.pc = "work" /\ let.spent = pass[p].spent /\ let.read = pass[p].read
      /\ HeldBy(let) = IF doing = "none" THEN HeldBy(pass[p]) \ {d} ELSE HeldBy(pass[p])
  BY LettingOk DEF DrainInv, PassOk, Hands
<1> HIDE DEF let
<1>2. /\ r \in PassRecords /\ r.pc = "work" /\ r.page = let.page /\ r.back = let.back
      /\ r.hand = let.hand /\ r.read = let.read /\ r.spent = let.spent
      /\ r.since = let.since /\ r.failed = let.failed
  BY <1>1 DEF PassRecords
<1>3. /\ rows \in [Deliveries -> RowRecords] /\ rows[d] = row
      /\ \A c \in Deliveries \ {d} : rows[c] = delivery[c]
  BY <1>t
<1>4. Put(p, r) /\ delivery' = rows
  BY DEF r, let, rows
<1> HIDE DEF r, rows
<1>5. BusyOf(r) = BusyOf(let) /\ HeldBy(r) = HeldBy(let)
  BY <1>2 DEF BusyOf, HeldBy
<1>6. Orderly(r)
  BY <1>1, <1>2, <1>5 DEF Orderly
<1>7. HeldBy(r) \subseteq HeldBy(pass[p]) /\ d \in HeldBy(pass[p])
  BY <1>1, <1>5 DEF HeldBy, BusyOf
<1>8. \A c \in HeldBy(r) : \/ c # d /\ rows[c] = delivery[c] /\ r.hand[c] = pass[p].hand[c]
                           \/ c = d /\ rows[c].status = "exhausted" /\ r.hand[c] = "count"
  BY <1>t, <1>1, <1>2, <1>3, <1>5, <1>7
<1>9. Leased(r, rows)
  BY <1>1, <1>2, <1>7, <1>8 DEF Leased, DrainInv, PassOk
<1>10. Knows(r, rows)
  BY <1>1, <1>2, <1>7, <1>8 DEF Knows, DrainInv, PassOk
<1>11. RungLeft(rows)
  BY <1>3 DEF RungLeft, DrainInv
<1>12. CountsEveryAnswer'
  <2>1. answered[d] = delivery[d].attempts /\ delivery'[d] = row
    BY <1>3, <1>4 DEF DrainInv, CountsEveryAnswer
  <2>2. answered'[d] = row.attempts
    BY <1>t, <2>1
  <2>3. \A c \in Deliveries \ {d} : answered'[c] = answered[c] /\ delivery'[c] = delivery[c]
    BY <1>t, <1>3, <1>4
  <2> QED BY <2>1, <2>2, <2>3 DEF DrainInv, CountsEveryAnswer
<1>13. TypeOK'
  <2>1. answered' \in [Deliveries -> Nat]
    BY <1>t
  <2> QED BY <1>2, <1>3, <1>4, <2>1, StepTyped DEF DrainInv, TypeOK
<1>14. \A c \in Deliveries \ HeldBy(pass[p]) : rows[c] = delivery[c]
  BY <1>3, <1>7
<1> QED
  BY <1>2, <1>3, <1>4, <1>6, <1>7, <1>9, <1>10, <1>11, <1>12, <1>13, <1>14, OwnStep DEF PassOk

LEMMA Posting ==
  ASSUME DrainAssumption, DrainInv, NEW p \in Passes, NEW d \in Deliveries,
         pass[p].pc = "work", pass[p].hand[d] = "posting", NEW doing \in {"none", "count"}
  PROVE  /\ delivery[d] \in RowRecords /\ pass[p].read[d] = delivery[d].attempts
         /\ delivery[d].attempts + 1 \in 1..MaxAttempts /\ pass[p].since[d] \in Int
         /\ delivery[d].status \in {"absent", "matched", "pending", "failed"}
              => delivery[d].attempts < MaxAttempts
         /\ LET l == Letting(p, d, doing) IN
            /\ l \in PassRecords /\ l.until \in Ticks
            /\ l.stop \in {"none", "budget", "throttled", "disabled"}
            /\ [l EXCEPT !.stop = l.stop, !.until = l.until] = l
<1>1. d \in HeldBy(pass[p]) /\ pass[p] \in PassRecords /\ delivery[d] \in RowRecords
  BY DrainTypes DEF HeldBy, BusyOf, DrainInv
<1>2. pass[p].read[d] = delivery[d].attempts /\ pass[p].read[d] < MaxAttempts
  BY <1>1 DEF DrainInv, PassOk, Knows
<1>3. pass[p].since[d] \in Int /\ delivery[d].attempts \in Nat /\ MaxAttempts \in Nat
  <2>1. pass[p].since[d] \in 0..PassTime /\ delivery[d].attempts \in 0..MaxAttempts
    BY <1>1 DEF PassRecords, RowRecords
  <2> QED BY <2>1 DEF DrainAssumption
<1>4. Letting(p, d, doing) \in PassRecords
  BY LettingOk DEF DrainInv, PassOk, Hands
<1>5. \A l \in PassRecords : /\ l.until \in Ticks
                             /\ l.stop \in {"none", "budget", "throttled", "disabled"}
                             /\ [l EXCEPT !.stop = l.stop, !.until = l.until] = l
  BY DEF PassRecords
<1>6. delivery[d].attempts + 1 \in 1..MaxAttempts
  BY <1>2, <1>3
<1>7. delivery[d].status \in {"absent", "matched", "pending", "failed"}
        => delivery[d].attempts < MaxAttempts
  BY DEF DrainInv, RungLeft
<1> HIDE DEF Letting
<1> QED
  BY <1>1, <1>2, <1>3, <1>4, <1>5, <1>6, <1>7

LEMMA ThrottledKeeps ==
  ASSUME DrainAssumption, DrainInv, NEW p \in Passes, NEW d \in Deliveries, Throttled(p, d)
  PROVE  DrainInv'
<1>1. PICK w \in RetryAfters :
        LET until == w - pass[p].since[d] IN
        /\ pass[p].pc = "work" /\ pass[p].hand[d] = "posting"
        /\ delivery' = [delivery EXCEPT ![d] = [@ EXCEPT !.wait = until, !.throttled = TRUE]]
        /\ Put(p, StopThrottled(Letting(p, d, "none"), until))
        /\ asked' = [asked EXCEPT ![p] = IF until > @ THEN until ELSE @]
        /\ UNCHANGED <<endpoint, job, retry, failures, toggles, answered>>
  BY DEF Throttled
<1> DEFINE until == w - pass[p].since[d]
           l == Letting(p, d, "none")
           row == [delivery[d] EXCEPT !.wait = until, !.throttled = TRUE]
<1>2. /\ delivery[d] \in RowRecords /\ pass[p].since[d] \in Int
      /\ delivery[d].status \in {"absent", "matched", "pending", "failed"}
           => delivery[d].attempts < MaxAttempts
      /\ l \in PassRecords /\ l.until \in Ticks
      /\ l.stop \in {"none", "budget", "throttled", "disabled"}
      /\ [l EXCEPT !.stop = l.stop, !.until = l.until] = l
  BY <1>1, Posting
<1>3. until \in Ticks
  BY <1>2 DEF DrainAssumption, Ticks
<1>4. asked' \in [Passes -> Ticks]
  <2>1. asked \in [Passes -> Ticks] /\ asked' = [asked EXCEPT ![p] = IF until > @ THEN until ELSE @]
    BY <1>1 DEF DrainInv, TypeOK
  <2> HIDE DEF until
  <2> QED BY <1>3, <2>1
<1>5. \E stop \in {"none", "budget", "throttled", "disabled"}, u \in Ticks :
        Put(p, [l EXCEPT !.stop = stop, !.until = u])
  <2>1. Put(p, l) \/ Put(p, [l EXCEPT !.stop = "throttled", !.until = until])
    BY <1>1 DEF StopThrottled
  <2> HIDE DEF l, until
  <2>2. CASE Put(p, l)
    <3>1. Put(p, [l EXCEPT !.stop = l.stop, !.until = l.until])
      BY <1>2, <2>2
    <3> QED BY <1>2, <3>1
  <2>3. CASE Put(p, [l EXCEPT !.stop = "throttled", !.until = until])
    BY <1>3, <2>3
  <2> QED BY <2>1, <2>2, <2>3
<1>6. /\ row \in RowRecords /\ row.attempts = delivery[d].attempts
      /\ row.status = delivery[d].status
  <2> HIDE DEF until
  <2> QED BY <1>2, <1>3 DEF RowRecords
<1>7. delivery' = [delivery EXCEPT ![d] = row]
  BY <1>1
<1> HIDE DEF row, l, until
<1>8. PICK stop \in {"none", "budget", "throttled", "disabled"}, u \in Ticks :
        Put(p, [l EXCEPT !.stop = stop, !.until = u])
  BY <1>5
<1> QED
  BY <1>1, <1>2, <1>4, <1>6, <1>7, <1>8, AnswerStep DEF l

LEMMA AcceptedKeeps ==
  ASSUME DrainAssumption, DrainInv, NEW p \in Passes, NEW d \in Deliveries, Accepted(p, d)
  PROVE  DrainInv'
<1> DEFINE l == Letting(p, d, "none")
           row == [Settle(delivery[d], "success") EXCEPT !.attempts = pass[p].read[d] + 1,
                                                         !.throttled = FALSE]
<1>1. /\ pass[p].pc = "work" /\ pass[p].hand[d] = "posting"
      /\ delivery' = [delivery EXCEPT ![d] = row] /\ Put(p, l)
      /\ answered' = [answered EXCEPT ![d] = @ + 1]
      /\ UNCHANGED <<endpoint, job, retry, failures, toggles, asked>>
  BY DEF Accepted
<1>2. /\ delivery[d] \in RowRecords /\ pass[p].read[d] = delivery[d].attempts
      /\ delivery[d].attempts + 1 \in 1..MaxAttempts
      /\ l \in PassRecords /\ l.until \in Ticks
      /\ l.stop \in {"none", "budget", "throttled", "disabled"}
      /\ [l EXCEPT !.stop = l.stop, !.until = l.until] = l
  BY <1>1, Posting
<1>3. row \in RowRecords /\ row.attempts = delivery[d].attempts + 1 /\ row.status = "success"
  <2> DEFINE settled == Settle(delivery[d], "success")
             n == delivery[d].attempts + 1
  <2>1. settled \in RowRecords /\ settled.status = "success" /\ n \in 0..MaxAttempts
    BY <1>2, Settles
  <2>2. row = [settled EXCEPT !.attempts = n, !.throttled = FALSE]
    BY <1>2
  <2> HIDE DEF settled, n, row
  <2>3. row \in RowRecords /\ row.attempts = n /\ row.status = "success"
    BY <2>1, <2>2 DEF RowRecords
  <2> QED BY <2>3 DEF n
<1> HIDE DEF row, l
<1>4. Put(p, [l EXCEPT !.stop = l.stop, !.until = l.until])
  BY <1>1, <1>2
<1>5. asked' \in [Passes -> Ticks]
  BY <1>1 DEF DrainInv, TypeOK
<1> QED
  BY <1>1, <1>2, <1>3, <1>4, <1>5, AnswerStep DEF l

LEMMA RefusedKeeps ==
  ASSUME DrainAssumption, DrainInv, NEW p \in Passes, NEW d \in Deliveries, Refused(p, d)
  PROVE  DrainInv'
<1> DEFINE n == pass[p].read[d] + 1
           base == [delivery[d] EXCEPT !.attempts = n, !.throttled = FALSE]
           wait == RetryDelay[n] - pass[p].since[d]
<1>1. /\ pass[p].pc = "work" /\ pass[p].hand[d] = "posting"
      /\ answered' = [answered EXCEPT ![d] = @ + 1]
      /\ UNCHANGED <<endpoint, job, retry, failures, toggles, asked>>
  BY DEF Refused
<1>2. /\ delivery[d] \in RowRecords /\ n = delivery[d].attempts + 1
      /\ n \in 1..MaxAttempts /\ pass[p].since[d] \in Int
  BY <1>1, Posting
<1>3. asked' \in [Passes -> Ticks]
  BY <1>1 DEF DrainInv, TypeOK
<1>4. ASSUME NEW doing \in {"none", "count"}
      PROVE  LET l == Letting(p, d, doing) IN
             /\ l.until \in Ticks /\ l.stop \in {"none", "budget", "throttled", "disabled"}
             /\ [l EXCEPT !.stop = l.stop, !.until = l.until] = l
  BY <1>1, Posting
<1>5. base \in RowRecords /\ base.attempts = n
  <2>1. n \in 0..MaxAttempts
    BY <1>2
  <2> HIDE DEF n
  <2> QED BY <1>2, <2>1 DEF RowRecords
<1>6. CASE /\ n >= MaxAttempts
           /\ delivery' = [delivery EXCEPT ![d] = Settle(base, "exhausted")]
           /\ Put(p, Letting(p, d, "count"))
  <2> DEFINE row == Settle(base, "exhausted")
             l == Letting(p, d, "count")
  <2>1. row \in RowRecords /\ row.attempts = n /\ row.status = "exhausted"
    BY <1>5, Settles
  <2>2. l.until \in Ticks /\ l.stop \in {"none", "budget", "throttled", "disabled"}
        /\ [l EXCEPT !.stop = l.stop, !.until = l.until] = l
    BY <1>4
  <2> HIDE DEF l
  <2>3. Put(p, [l EXCEPT !.stop = l.stop, !.until = l.until])
    BY <1>6, <2>2 DEF l
  <2> HIDE DEF row, n
  <2>4. delivery' = [delivery EXCEPT ![d] = row]
    BY <1>6 DEF row
  <2> QED BY <1>1, <1>2, <1>3, <2>1, <2>2, <2>3, <2>4, AnswerStep, ZenonT(60) DEF l
<1>7. CASE /\ n < MaxAttempts
           /\ delivery' = [delivery EXCEPT ![d] = [base EXCEPT !.status = "failed", !.wait = wait]]
           /\ Put(p, Letting(p, d, "none"))
  <2> DEFINE row == [base EXCEPT !.status = "failed", !.wait = wait]
             l == Letting(p, d, "none")
  <2>1. wait \in Ticks
    BY <1>2 DEF DrainAssumption, Ticks
  <2>2. row \in RowRecords /\ row.attempts = n /\ row.status = "failed"
    <3> HIDE DEF base, wait, n
    <3> QED BY <1>5, <2>1 DEF RowRecords
  <2>3. l.until \in Ticks /\ l.stop \in {"none", "budget", "throttled", "disabled"}
        /\ [l EXCEPT !.stop = l.stop, !.until = l.until] = l
    BY <1>4
  <2> HIDE DEF l
  <2>4. Put(p, [l EXCEPT !.stop = l.stop, !.until = l.until])
    BY <1>7, <2>3 DEF l
  <2> HIDE DEF row, n
  <2>5. delivery' = [delivery EXCEPT ![d] = row]
    BY <1>7 DEF row
  <2>6. row.attempts < MaxAttempts /\ row.attempts = delivery[d].attempts + 1
    BY <1>2, <1>7, <2>2
  <2> QED BY <1>1, <1>3, <2>2, <2>3, <2>4, <2>5, <2>6, AnswerStep DEF l
<1> QED
  BY <1>6, <1>7 DEF Refused

-----------------------------------------------------------------------------
(* The end of a page and of a pass. *)

LEMMA PageEndKeeps ==
  ASSUME DrainAssumption, DrainInv, NEW p \in Passes, PageEnd(p) PROVE DrainInv'
<1>t. pass[p] \in PassRecords /\ delivery \in [Deliveries -> RowRecords]
      /\ Busy(p) = BusyOf(pass[p]) /\ HeldBy(pass[p]) \subseteq Deliveries
  BY DrainTypes DEF DrainInv
<1>1. UNCHANGED <<endpoint, job, failures, toggles, answered>> /\ BusyOf(pass[p]) = {}
  BY <1>t DEF PageEnd
<1>2. ASSUME GiveUp(p), UNCHANGED delivery PROVE DrainInv'
  BY <1>1, <1>2, FinishStep DEF GiveUp, DrainInv, TypeOK
<1>3. ASSUME Goto(p, "claim"), UNCHANGED <<delivery, retry, asked>> PROVE DrainInv'
  <2> DEFINE r == [pass[p] EXCEPT !.pc = "claim"]
  <2>1. /\ Put(p, r) /\ r \in PassRecords /\ HeldBy(r) = HeldBy(pass[p])
        /\ r.hand = pass[p].hand /\ r.read = pass[p].read /\ r.spent = pass[p].spent /\ Orderly(r)
    BY <1>3, GotoPut DEF DrainInv, PassOk
  <2> HIDE DEF r
  <2>2. TypeOK'
    BY <1>1, <1>3, <2>1, <1>t, StepTyped DEF DrainInv, TypeOK
  <2> QED BY <1>1, <1>3, <2>1, <2>2, QuietStep
<1> DEFINE held == pass[p].page \cup pass[p].back
           rows == Released(held, pass[p].until)
           r(pc) == [Resting(p, pc) EXCEPT !.until = pass[p].until]
<1>4. ASSUME NEW pc \in {"park", "rearm"}, delivery' = rows, Put(p, r(pc)),
             UNCHANGED <<retry, asked>>
      PROVE  DrainInv'
  <2>1. held = HeldBy(pass[p]) /\ pass[p].until \in Ticks
    BY <1>1, <1>t DEF HeldBy, PassRecords
  <2>2. /\ rows \in [Deliveries -> RowRecords] /\ RungLeft(rows)
        /\ \A d \in Deliveries : rows[d].attempts = delivery[d].attempts
        /\ \A d \in Deliveries \ HeldBy(pass[p]) : rows[d] = delivery[d]
    <3> HIDE DEF held
    <3> QED BY <1>t, <2>1, ReleasedRows
  <2> DEFINE rest == Resting(p, pc)
             new == r(pc)
  <2>3. /\ rest \in PassRecords /\ rest.page = {} /\ rest.back = {}
        /\ \A d \in Deliveries : rest.hand[d] = "none" /\ rest.since[d] = 0
        /\ rest.failed = 0
    BY RestingTyped DEF DrainInv
  <2> HIDE DEF rest
  <2>4. /\ new \in PassRecords /\ new.page = {} /\ new.back = {} /\ new.hand = rest.hand
        /\ new.since = rest.since /\ new.failed = 0
    <3>1. new = [rest EXCEPT !.until = pass[p].until]
      BY DEF rest
    <3> HIDE DEF new
    <3> QED BY <2>1, <2>3, <3>1 DEF PassRecords
  <2> HIDE DEF new, rows
  <2>5. HeldBy(new) = {}
    BY <2>3, <2>4 DEF HeldBy, BusyOf
  <2>6. PassOk(new, rows)
    BY <2>3, <2>4, <2>5, RestingOk
  <2>7. Put(p, new)
    BY <1>4 DEF new
  <2>8. CountsEveryAnswer'
    BY <1>1, <1>4, <2>2 DEF CountsEveryAnswer, DrainInv
  <2>9. TypeOK'
    BY <1>1, <1>4, <2>2, <2>4, <2>7, StepTyped DEF DrainInv, TypeOK
  <2> QED
    BY <1>4, <2>2, <2>4, <2>5, <2>6, <2>7, <2>8, <2>9, OwnStep
<1>5. \/ GiveUp(p) /\ UNCHANGED delivery
      \/ Goto(p, "claim") /\ UNCHANGED <<delivery, retry, asked>>
      \/ /\ delivery' = rows /\ UNCHANGED <<retry, asked>>
         /\ Put(p, r("park")) \/ Put(p, r("rearm"))
  BY DEF PageEnd
<1> QED
  BY <1>2, <1>3, <1>4, <1>5

LEMMA EndKeeps ==
  ASSUME DrainAssumption, DrainInv, NEW p \in Passes, Park(p) \/ Rearm(p) \/ Die(p)
  PROVE  DrainInv'
<1>1. Finish(p) /\ UNCHANGED <<endpoint, delivery, toggles, answered>>
  BY DEF Park, Rearm, Die, GiveUp
<1>2. retry' \in BOOLEAN /\ failures' \in Nat
  <2>1. retry \in BOOLEAN /\ failures \in Nat
    BY DEF DrainInv, TypeOK
  <2>2. CASE Park(p) \/ Rearm(p)
    BY <2>1, <2>2 DEF Park, Rearm
  <2>3. CASE Die(p)
    <3>1. retry' \in {TRUE, retry} /\ failures' = failures + 1
      BY <2>3 DEF Die, GiveUp
    <3>2. retry' \in BOOLEAN
      BY <2>1, <3>1, Zenon
    <3>3. failures' \in Nat
      BY <2>1, <3>1
    <3> QED BY <3>2, <3>3
  <2> QED BY <2>2, <2>3
<1>3. job' \in Ticks
  <2>1. job \in Int /\ pass[p].until \in Int /\ IdlePoll \in Int
        /\ \A d \in Deliveries : delivery[d].wait \in Int
    BY DrainTypes, SMTT(40) DEF DrainInv, TypeOK, PassRecords, RowRecords, Ticks, DrainAssumption
  <2>2. CASE Park(p)
    BY <2>1, <2>2 DEF Park, Arm, Ticks
  <2>3. CASE Rearm(p)
    BY <2>1, <2>3 DEF Rearm, Arm, Ticks
  <2>4. CASE Die(p)
    BY <2>1, <2>4 DEF Die, Ticks
  <2> QED BY <2>2, <2>3, <2>4
<1> QED
  BY <1>1, <1>2, <1>3, FinishStep

-----------------------------------------------------------------------------
(* Time. *)

Fall(t) == Max({t - 1, -StaleAfter})
Down(t) == IF t = Null THEN Null ELSE Fall(t)

LEMMA Falls ==
  ASSUME DrainAssumption, NEW t \in Ticks
  PROVE  Fall(t) \in Ticks /\ Fall(t) = IF t - 1 >= -StaleAfter THEN t - 1 ELSE -StaleAfter
<1>1. t - 1 \in Int /\ -StaleAfter \in Int
  BY DEF Ticks, DrainAssumption
<1> QED
  BY <1>1, MaxOfTwo DEF Fall, Ticks

LEMMA Downs ==
  ASSUME DrainAssumption, NEW t \in Ticks
  PROVE  /\ Down(t) \in Ticks /\ (Down(t) # Null => t # Null)
         /\ t >= 1 => (Down(t) = Null \/ Down(t) = t - 1)
<1>1. t - 1 \in Int /\ -StaleAfter \in Int /\ t \in Int /\ StaleAfter \in Nat
  BY DEF Ticks, DrainAssumption
<1>2. Fall(t) = IF t - 1 >= -StaleAfter THEN t - 1 ELSE -StaleAfter
  BY Falls
<1> QED
  BY <1>1, <1>2, NullTick DEF Down, Ticks

LEMMA TickKeeps ==
  ASSUME DrainAssumption, DrainInv, Tick PROVE DrainInv'
<1>t. /\ pass \in [Passes -> PassRecords] /\ delivery \in [Deliveries -> RowRecords]
      /\ job \in Ticks /\ asked \in [Passes -> Ticks]
  BY DrainTypes DEF DrainInv, TypeOK
<1>1. /\ UNCHANGED <<endpoint, retry, failures, toggles, answered>>
      /\ \A p \in Passes : pass[p].pc # "idle" => pass[p].spent < PassTime
      /\ delivery' = [d \in Deliveries |-> [delivery[d] EXCEPT !.wait = Down(@)]]
      /\ job' = IF job = Null THEN Null ELSE Max({job - 1, 0})
      /\ asked' = [p \in Passes |-> Fall(asked[p])]
  BY DEF Tick, Down, Fall
<1> DEFINE since(p) == [d \in Deliveries |-> IF pass[p].hand[d] = "posting"
                                             THEN pass[p].since[d] + 1 ELSE 0]
           older(p) == [pass[p] EXCEPT !.spent = @ + 1, !.until = Fall(@), !.since = since(p)]
<1>2. pass' = [p \in Passes |-> IF pass[p].pc = "idle" THEN pass[p] ELSE older(p)]
  BY <1>t DEF Tick, Fall, PassRecords
<1>3. /\ delivery' \in [Deliveries -> RowRecords]
      /\ \A d \in Deliveries : /\ delivery'[d].status = delivery[d].status
                               /\ delivery'[d].attempts = delivery[d].attempts
                               /\ delivery'[d].wait = Down(delivery[d].wait)
  <2>1. ASSUME NEW d \in Deliveries
        PROVE  LET s == [delivery[d] EXCEPT !.wait = Down(@)] IN
               /\ s \in RowRecords /\ s.status = delivery[d].status
               /\ s.attempts = delivery[d].attempts /\ s.wait = Down(delivery[d].wait)
    <3>1. delivery[d] \in RowRecords /\ delivery[d].wait \in Ticks
      BY <1>t DEF RowRecords
    <3>2. Down(delivery[d].wait) \in Ticks
      BY <3>1, Downs
    <3> QED BY <3>1, <3>2, Waits
  <2> QED BY <1>1, <2>1
<1>4. ASSUME NEW p \in Passes, pass[p].pc # "idle"
      PROVE  /\ older(p) \in PassRecords /\ older(p).spent = pass[p].spent + 1
             /\ older(p).pc = pass[p].pc /\ older(p).page = pass[p].page
             /\ older(p).back = pass[p].back /\ older(p).hand = pass[p].hand
             /\ older(p).read = pass[p].read /\ older(p).failed = pass[p].failed
             /\ \A d \in Deliveries : older(p).since[d] <= older(p).spent
  <2>1. /\ pass[p] \in PassRecords /\ pass[p].spent + 1 \in 0..PassTime
        /\ Fall(pass[p].until) \in Ticks
    <3>1. pass[p].spent \in 0..PassTime /\ pass[p].until \in Ticks /\ PassTime \in Nat
      BY <1>t DEF PassRecords, DrainAssumption
    <3> QED BY <1>1, <1>4, <1>t, <3>1, Falls, SMTT(40)
  <2>2. \A d \in Deliveries : /\ since(p)[d] \in 0..PassTime
                              /\ since(p)[d] <= pass[p].spent + 1
    <3>1. ASSUME NEW d \in Deliveries
          PROVE  pass[p].since[d] \in 0..PassTime /\ pass[p].since[d] <= pass[p].spent
                 /\ pass[p].spent \in 0..PassTime
      BY <1>t DEF PassRecords, DrainInv, PassOk, Orderly
    <3> QED BY <2>1, <3>1, SMTT(40) DEF DrainAssumption
  <2> DEFINE s == since(p)
             until == Fall(pass[p].until)
             spent == pass[p].spent + 1
             new == older(p)
  <2>3. s \in [Deliveries -> 0..PassTime] /\ (\A d \in Deliveries : s[d] <= spent)
        /\ spent \in 0..PassTime /\ until \in Ticks
    BY <2>1, <2>2
  <2>4. new = [pass[p] EXCEPT !.spent = spent, !.until = until, !.since = s]
    BY <2>1 DEF PassRecords
  <2> HIDE DEF s, until, spent, new
  <2>5. /\ new \in PassRecords /\ new.spent = spent /\ new.since = s
        /\ new.pc = pass[p].pc /\ new.page = pass[p].page
        /\ new.back = pass[p].back /\ new.hand = pass[p].hand
        /\ new.read = pass[p].read /\ new.failed = pass[p].failed
    BY <2>1, <2>3, <2>4 DEF PassRecords
  <2> QED BY <2>3, <2>5 DEF new, spent
<1> HIDE DEF older
<1>5. ASSUME NEW p \in Passes
      PROVE  /\ pass'[p] \in PassRecords /\ HeldBy(pass'[p]) = HeldBy(pass[p])
             /\ PassOk(pass'[p], delivery')
  <2>1. CASE pass[p].pc = "idle"
    <3>1. pass'[p] = pass[p] /\ HeldBy(pass[p]) = {}
      BY <1>2, <2>1 DEF DrainInv, PassOk, Orderly
    <3>2. Orderly(pass[p])
      BY DEF DrainInv, PassOk
    <3> QED BY <1>t, <3>1, <3>2 DEF PassOk, Leased, Knows
  <2>2. CASE pass[p].pc # "idle"
    <3> DEFINE r == older(p)
    <3>1. /\ r \in PassRecords /\ r.spent = pass[p].spent + 1
          /\ r.pc = pass[p].pc /\ r.page = pass[p].page
          /\ r.back = pass[p].back /\ r.hand = pass[p].hand
          /\ r.read = pass[p].read /\ r.failed = pass[p].failed
          /\ \A d \in Deliveries : r.since[d] <= r.spent
      BY <1>4, <2>2
    <3>2. pass'[p] = r
      BY <1>2, <2>2
    <3> HIDE DEF r
    <3>3. BusyOf(r) = BusyOf(pass[p]) /\ HeldBy(r) = HeldBy(pass[p])
      BY <3>1 DEF BusyOf, HeldBy
    <3>4. Orderly(r)
      BY <3>1, <3>3 DEF Orderly, DrainInv, PassOk
    <3>5. Knows(r, delivery')
      <4>1. HeldBy(pass[p]) \subseteq Deliveries /\ Knows(pass[p], delivery)
        BY DrainTypes DEF DrainInv, PassOk
      <4> QED BY <1>3, <3>1, <3>3, <4>1 DEF Knows
    <3>6. Leased(r, delivery')
      <4> SUFFICES ASSUME NEW d \in HeldBy(pass[p])
                   PROVE  /\ delivery'[d].status \notin {"absent", "matched"}
                          /\ delivery'[d].status \in {"pending", "failed"}
                             /\ delivery'[d].wait # Null
                             => delivery'[d].wait >= Lease - r.spent
        BY <3>3 DEF Leased
      <4>1. d \in Deliveries /\ delivery[d].wait \in Ticks /\ pass[p].spent \in 0..PassTime
        BY <1>t, DrainTypes DEF RowRecords, PassRecords, DrainInv
      <4>2. /\ delivery[d].status \notin {"absent", "matched"}
            /\ delivery[d].status \in {"pending", "failed"} /\ delivery[d].wait # Null
               => delivery[d].wait >= Lease - pass[p].spent
        BY DEF DrainInv, PassOk, Leased
      <4>3. ASSUME delivery'[d].status \in {"pending", "failed"}, delivery'[d].wait # Null
            PROVE  delivery'[d].wait >= Lease - r.spent
        <5>1. delivery[d].wait # Null /\ delivery[d].status \in {"pending", "failed"}
          BY <1>3, <4>1, <4>3, Downs
        <5>2. delivery[d].wait >= Lease - pass[p].spent /\ delivery[d].wait >= 1
          BY <4>1, <4>2, <5>1 DEF DrainAssumption, Ticks
        <5>3. delivery'[d].wait = delivery[d].wait - 1
          BY <1>3, <4>1, <4>3, <5>2, Downs
        <5> QED BY <3>1, <4>1, <5>2, <5>3 DEF DrainAssumption, Ticks
      <4> QED BY <1>3, <4>1, <4>2, <4>3
    <3> QED BY <3>1, <3>2, <3>3, <3>4, <3>5, <3>6 DEF PassOk
  <2> QED BY <2>1, <2>2
<1>6. \A p, q \in Passes : p # q => HeldBy(pass'[p]) \cap HeldBy(pass'[q]) = {}
  BY <1>5 DEF DrainInv
<1>7. RungLeft(delivery') /\ CountsEveryAnswer'
  BY <1>1, <1>3 DEF RungLeft, CountsEveryAnswer, DrainInv
<1>8. TypeOK'
  <2>1. pass' \in [Passes -> PassRecords]
    BY <1>2, <1>5
  <2>2. job' \in Ticks
    <3>1. Max({job - 1, 0}) \in Int
      BY <1>t, MaxOfTwo, SMTT(30) DEF Ticks
    <3> QED BY <1>1, <3>1, NullTick DEF Ticks
  <2>3. asked' \in [Passes -> Ticks]
    BY <1>1, <1>t, Falls
  <2> QED BY <1>1, <1>3, <2>1, <2>2, <2>3 DEF DrainInv, TypeOK, PassRecords, RowRecords
<1> QED
  BY <1>5, <1>6, <1>7, <1>8 DEF DrainInv

-----------------------------------------------------------------------------
(* Types, the leases and the counts, held together: a count stays within    *)
(* the schedule because nobody else wrote the row since it was read, which  *)
(* is what the lease is for.                                                *)
THEOREM Leases == Spec => []DrainInv
<1>1. Init => DrainInv
  <2> SUFFICES ASSUME Init PROVE DrainInv
    OBVIOUS
  <2>1. /\ pass = [p \in Passes |-> IdlePass] /\ IdlePass \in PassRecords
        /\ HeldBy(IdlePass) = {} /\ PassOk(IdlePass, delivery)
    BY DrainAssumption, Rests DEF Init
  <2>2. AbsentDelivery \in RowRecords /\ AbsentDelivery.attempts = 0
    BY DrainAssumption, NullTick DEF AbsentDelivery, RowRecords
  <2>3. delivery = [d \in Deliveries |-> AbsentDelivery]
    BY DEF Init
  <2>4. TypeOK
    <3>1. pass \in [Passes -> PassRecords] /\ delivery \in [Deliveries -> RowRecords]
      BY <2>1, <2>2, <2>3
    <3>2. /\ endpoint \in {"enabled", "disabled", "auto_disabled"} /\ job \in Ticks
          /\ retry \in BOOLEAN /\ failures \in Nat /\ toggles \in Nat
      BY NullTick DEF Init
    <3>3. answered \in [Deliveries -> Nat] /\ asked \in [Passes -> Ticks]
      BY DEF Init, Ticks
    <3> QED BY <3>1, <3>2, <3>3 DEF TypeOK, PassRecords, RowRecords
  <2>5. RungLeft(delivery) /\ CountsEveryAnswer
    BY DrainAssumption, <2>2, <2>3 DEF RungLeft, CountsEveryAnswer, Init, DrainAssumption
  <2> QED BY <2>1, <2>4, <2>5 DEF DrainInv
<1>2. DrainInv /\ [Next]_vars => DrainInv'
  <2> SUFFICES ASSUME DrainInv, [Next]_vars PROVE DrainInv'
    OBVIOUS
  <2> USE DrainAssumption
  <2>1. ASSUME NEW p \in Passes, PassStep(p) PROVE DrainInv'
    <3>1. CASE Start(p) \/ Claim(p) \/ Check(p) \/ Fetch(p)
      BY <3>1, StartKeeps, ClaimKeeps, CheckKeeps, FetchKeeps
    <3>2. CASE PageEnd(p) \/ Park(p) \/ Rearm(p) \/ Die(p)
      BY <3>2, PageEndKeeps, EndKeeps
    <3>3. CASE StopEarly(p) \/ Abort(p)
      BY <3>3, StopKeeps
    <3>4. ASSUME NEW d \in Deliveries, Take(p, d) PROVE DrainInv'
      BY <3>4, TakeKeeps
    <3>5. ASSUME NEW d \in Deliveries,
                 Post(p, d) \/ CountSettled(p, d) \/ AutoDisable(p, d) \/ WorkerFails(p, d)
          PROVE  DrainInv'
      BY <3>5, WorkerKeeps
    <3>6. ASSUME NEW d \in Deliveries, Throttled(p, d) \/ Accepted(p, d) \/ Refused(p, d)
          PROVE  DrainInv'
      BY <3>6, ThrottledKeeps, AcceptedKeeps, RefusedKeeps
    <3> QED BY <2>1, <3>1, <3>2, <3>3, <3>4, <3>5, <3>6 DEF PassStep, PassWork
  <2>2. ASSUME NEW d \in Deliveries, FanoutRead(d) \/ FanoutInsert(d) \/ GrowOld(d)
        PROVE  DrainInv'
    BY <2>2, FanoutKeeps
  <2>3. CASE SweepOld
    BY <2>3, SweepKeeps
  <2>4. CASE Tick
    BY <2>4, TickKeeps
  <2>5. CASE Toggle \/ SweepStale \/ UNCHANGED vars
    <3>1. UNCHANGED <<delivery, pass, answered, retry, failures, asked>>
      BY <2>5 DEF Toggle, SweepStale, vars
    <3>2. /\ endpoint' \in {"enabled", "disabled", "auto_disabled"}
          /\ job' \in Ticks /\ toggles' \in Nat
      BY <2>5 DEF Toggle, SweepStale, Arm, vars, DrainInv, TypeOK, Ticks
    <3>3. TypeOK'
      BY <3>1, <3>2 DEF DrainInv, TypeOK
    <3> QED BY <3>1, <3>3 DEF DrainInv, CountsEveryAnswer
  <2> QED BY <2>1, <2>2, <2>3, <2>4, <2>5 DEF Next
<1> QED
  BY <1>1, <1>2, PTL DEF Spec

(* Every variable has its type.                                             *)
THEOREM DrainTyping == Spec => []TypeOK
<1>1. DrainInv => TypeOK
  BY DEF DrainInv
<1> QED
  BY <1>1, Leases, PTL

(* No two passes hold a row at once (queue/index.ts: "the row lease keeps   *)
(* them on disjoint rows"), for any number of passes, any page and any      *)
(* Retry-After, as long as the lease outlives a pass.                       *)
THEOREM RowsApart == Spec => []LeaseExclusive
<1>1. DrainInv => LeaseExclusive
  <2> SUFFICES ASSUME DrainInv, NEW p \in Passes, NEW q \in Passes, p # q
               PROVE  Holds(p) \cap Holds(q) = {}
    BY DEF LeaseExclusive
  <2>1. Holds(p) = HeldBy(pass[p]) /\ Holds(q) = HeldBy(pass[q])
    BY DrainAssumption, DrainTypes DEF DrainInv
  <2> QED BY <2>1 DEF DrainInv
<1> QED
  BY <1>1, Leases, PTL

(* A row's attempts are its answers: the count a pass read with its claim   *)
(* is still the row's when it writes the answer.                            *)
THEOREM EveryAnswerCounts == Spec => []CountsEveryAnswer
<1>1. DrainInv => CountsEveryAnswer
  BY DEF DrainInv
<1> QED
  BY <1>1, Leases, PTL

-----------------------------------------------------------------------------
(* What a pass knows of the waits its page was asked for: while one is not  *)
(* over, the pass is throttled for the longest, unless the breaker tripped, *)
(* and a spent budget asks for no wait.                                     *)
WaitInv(p) ==
  /\ pass[p].pc = "check" => pass[p].stop = "none" /\ asked[p] <= 0
  /\ pass[p].pc = "work" /\ pass[p].stop # "disabled" =>
       /\ asked[p] > 0 => pass[p].stop = "throttled" /\ pass[p].until >= asked[p]
       /\ pass[p].stop = "budget" => pass[p].until <= 0

LEMMA OthersStay ==
  ASSUME DrainAssumption, TypeOK, NEW p \in Passes, NEW q \in Passes \ {p}, PassStep(q)
  PROVE  pass'[p] = pass[p] /\ asked'[p] = asked[p]
<1>t. pass \in [Passes -> PassRecords] /\ asked \in [Passes -> Ticks]
  BY DrainTypes DEF TypeOK
<1>1. asked' = asked \/ \E w : asked' = [asked EXCEPT ![q] = w]
  BY DEF PassStep, PassWork, Start, Claim, Check, PageEnd, Park, Rearm, StopEarly, Take, Post,
         Throttled, Accepted, Refused, CountSettled, AutoDisable, Fetch, Abort, Die, WorkerFails,
         GiveUp, Finish
<1>2. (\E r : Put(q, r)) \/ (\E pc : Goto(q, pc))
  BY DEF PassStep, PassWork, Start, Claim, Check, PageEnd, Park, Rearm, StopEarly, Take, Post,
         Throttled, Accepted, Refused, CountSettled, AutoDisable, Fetch, Abort, Die, WorkerFails,
         GiveUp, Finish
<1>3. asked'[p] = asked[p]
  BY <1>t, <1>1
<1>4. pass'[p] = pass[p]
  BY <1>t, <1>2 DEF Put, Goto
<1> QED
  BY <1>3, <1>4

(* A pass that goes on as it was, and has been asked for nothing new.       *)
LEMMA WaitSame ==
  ASSUME NEW p \in Passes, WaitInv(p), pass[p].pc = "work", pass'[p].pc = "work",
         pass'[p].stop = pass[p].stop, pass'[p].until = pass[p].until, asked'[p] = asked[p]
  PROVE  WaitInv(p)'
BY DEF WaitInv

LEMMA WaitElsewhere ==
  ASSUME NEW p \in Passes, pass'[p].pc \notin {"check", "work"}
  PROVE  WaitInv(p)'
BY DEF WaitInv

LEMMA WorkerWaits ==
  ASSUME DrainAssumption, DrainInv, NEW p \in Passes, NEW d \in Deliveries, WaitInv(p),
         \/ Post(p, d) \/ CountSettled(p, d) \/ AutoDisable(p, d) \/ WorkerFails(p, d)
         \/ Throttled(p, d) \/ Accepted(p, d) \/ Refused(p, d)
  PROVE  WaitInv(p)' /\ pass'[p].pc = "work"
<1>t. pass \in [Passes -> PassRecords] /\ asked \in [Passes -> Int] /\ Orderly(pass[p])
  BY DrainTypes DEF DrainInv, TypeOK, PassOk, Ticks
<1>w. pass[p].pc = "work" /\ pass[p].hand[d] # "none"
  BY DEF Post, CountSettled, AutoDisable, WorkerFails, Throttled, Accepted, Refused
<1>1. ASSUME NEW doing \in Hands
      PROVE  LET l == Letting(p, d, doing) IN
             /\ l \in PassRecords /\ l.pc = "work" /\ l.stop = pass[p].stop
             /\ l.until = pass[p].until
  BY <1>t, <1>w, LettingOk DEF DrainInv
<1>2. {"none", "posting", "disable", "count"} \subseteq Hands
  BY DEF Hands
<1>3. \A r : Put(p, r) => pass'[p] = r
  BY <1>t DEF Put
<1>4. ASSUME asked' = asked, NEW doing \in Hands, NEW back, NEW failed,
             LET l == Letting(p, d, doing) IN
             \/ Put(p, l) \/ Put(p, [l EXCEPT !.back = back]) \/ Put(p, [l EXCEPT !.failed = failed])
      PROVE  WaitInv(p)' /\ pass'[p].pc = "work"
  <2> DEFINE l == Letting(p, d, doing)
  <2>1. /\ l \in PassRecords /\ l.pc = "work" /\ l.stop = pass[p].stop
        /\ l.until = pass[p].until
    BY <1>1
  <2> HIDE DEF l
  <2>2. pass'[p] = l \/ pass'[p] = [l EXCEPT !.back = back] \/ pass'[p] = [l EXCEPT !.failed = failed]
    BY <1>3, <1>4 DEF l
  <2>3. pass'[p].pc = "work" /\ pass'[p].stop = pass[p].stop /\ pass'[p].until = pass[p].until
    BY <2>1, <2>2 DEF PassRecords
  <2> QED BY <1>4, <1>w, <2>3, WaitSame
<1>5. CASE Post(p, d)
  <2> DEFINE l == Letting(p, d, "none")
             r == [l EXCEPT !.stop = "budget", !.until = 0, !.back = @ \cup {d}]
  <2>1. asked' = asked
    BY <1>5 DEF Post
  <2>2. \/ Put(p, Letting(p, d, "posting")) \/ Put(p, [l EXCEPT !.back = l.back \cup {d}])
        \/ pass[p].stop = "none" /\ Put(p, r)
    <3> HIDE DEF Letting
    <3> QED BY <1>5 DEF Post
  <2>3. ASSUME pass[p].stop = "none", Put(p, r) PROVE WaitInv(p)' /\ pass'[p].pc = "work"
    <3>1. l \in PassRecords /\ l.pc = "work"
      BY <1>1, <1>2
    <3> HIDE DEF l
    <3>2. pass'[p].stop = "budget" /\ pass'[p].until = 0
      BY <1>3, <2>3, <3>1 DEF PassRecords
    <3>3. asked[p] \in Int /\ ~(asked[p] > 0)
      BY <1>t, <1>w, <2>3 DEF WaitInv
    <3>4. pass'[p].pc = "work"
      BY <1>3, <2>3, <3>1 DEF PassRecords
    <3> QED BY <2>1, <3>2, <3>3, <3>4 DEF WaitInv
  <2> QED BY <1>2, <1>4, <2>1, <2>2, <2>3
<1>6. CASE CountSettled(p, d) \/ Accepted(p, d) \/ Refused(p, d) \/ WorkerFails(p, d)
  <2>1. asked' = asked
    BY <1>6 DEF CountSettled, Accepted, Refused, WorkerFails
  <2>2. \/ Put(p, Letting(p, d, "none")) \/ Put(p, Letting(p, d, "disable"))
        \/ Put(p, Letting(p, d, "count"))
        \/ Put(p, [Letting(p, d, "none") EXCEPT !.failed = Letting(p, d, "none").failed + 1])
    <3> HIDE DEF Letting
    <3> QED BY <1>6 DEF CountSettled, Accepted, Refused, WorkerFails
  <2> QED BY <1>2, <1>4, <2>1, <2>2
<1>7. CASE AutoDisable(p, d)
  <2> DEFINE l == Letting(p, d, "none")
             r == [l EXCEPT !.stop = "disabled", !.until = 0]
  <2>1. asked' = asked /\ (Put(p, l) \/ Put(p, r))
    BY <1>7 DEF AutoDisable
  <2>2. ASSUME Put(p, r) PROVE WaitInv(p)' /\ pass'[p].pc = "work"
    <3>1. l \in PassRecords /\ l.pc = "work"
      BY <1>1, <1>2
    <3> HIDE DEF l
    <3>2. pass'[p].stop = "disabled" /\ pass'[p].pc = "work"
      BY <1>3, <2>2, <3>1 DEF PassRecords
    <3> QED BY <3>2 DEF WaitInv
  <2> QED BY <1>2, <1>4, <2>1, <2>2
<1>8. CASE Throttled(p, d)
  <2>1. PICK w \in RetryAfters :
          LET until == w - pass[p].since[d] IN
          /\ Put(p, StopThrottled(Letting(p, d, "none"), until))
          /\ asked' = [asked EXCEPT ![p] = IF until > @ THEN until ELSE @]
    BY <1>8 DEF Throttled
  <2> DEFINE until == w - pass[p].since[d]
             l == Letting(p, d, "none")
  <2>2. until \in Int
    BY <1>t DEF PassRecords, DrainAssumption
  <2>3. l \in PassRecords /\ l.pc = "work" /\ l.stop = pass[p].stop /\ l.until = pass[p].until
    BY <1>1, <1>2
  <2>4. pass'[p] = StopThrottled(l, until)
    BY <1>3, <2>1
  <2>5. asked'[p] = (IF until > asked[p] THEN until ELSE asked[p]) /\ asked[p] \in Int
    BY <1>t, <2>1
  <2>6. pass[p].until \in Int
    BY <1>t DEF PassRecords, Ticks
  <2> HIDE DEF until, l
  <2>7. CASE l.stop = "none" \/ (l.stop # "disabled" /\ l.until < until)
    <3>1. pass'[p].stop = "throttled" /\ pass'[p].until = until
      BY <2>3, <2>4, <2>7 DEF StopThrottled, PassRecords
    <3>2. pass'[p].pc = "work"
      BY <2>3, <2>4, <2>7 DEF StopThrottled, PassRecords
    <3>3. asked'[p] > 0 => until >= asked'[p]
      <4>1. asked[p] > 0 => l.stop = "throttled" /\ l.until >= asked[p]
        BY <1>w, <2>3, <2>7 DEF WaitInv
      <4> QED BY <2>2, <2>3, <2>5, <2>6, <2>7, <4>1
    <3> QED BY <3>1, <3>2, <3>3 DEF WaitInv
  <2>8. CASE ~(l.stop = "none" \/ (l.stop # "disabled" /\ l.until < until))
    <3>1. pass'[p] = l
      BY <2>4, <2>8 DEF StopThrottled
    <3>2. CASE pass[p].stop = "disabled"
      BY <2>3, <3>1, <3>2 DEF WaitInv
    <3>3. CASE pass[p].stop # "disabled"
      <4>1. until <= pass[p].until /\ pass[p].stop \in {"budget", "throttled"}
        BY <1>t, <2>2, <2>3, <2>6, <2>8, <3>3, SMTT(40) DEF PassRecords
      <4>2. /\ asked[p] > 0 => pass[p].stop = "throttled" /\ pass[p].until >= asked[p]
            /\ pass[p].stop = "budget" => pass[p].until <= 0
        BY <1>w, <3>3 DEF WaitInv
      <4>3. asked'[p] > 0 => pass[p].stop = "throttled" /\ pass[p].until >= asked'[p]
        BY <2>2, <2>5, <2>6, <4>1, <4>2
      <4> QED BY <2>3, <3>1, <4>2, <4>3 DEF WaitInv
    <3> QED BY <3>2, <3>3
  <2> QED BY <2>7, <2>8
<1> QED
  BY <1>5, <1>6, <1>7, <1>8

LEMMA PassWaits ==
  ASSUME DrainAssumption, DrainInv, NEW p \in Passes, WaitInv(p), PassStep(p)
  PROVE  /\ WaitInv(p)'
         /\ pass[p].pc = "work" /\ pass'[p].pc \in {"park", "rearm"} => PageEnd(p)
<1>t. pass \in [Passes -> PassRecords] /\ asked \in [Passes -> Int]
  BY DrainTypes DEF DrainInv, TypeOK, Ticks
<1>1. \A r : Put(p, r) => pass'[p] = r
  BY <1>t DEF Put
<1>2. \A pc : Goto(p, pc) => /\ pass'[p].pc = pc /\ pass'[p].stop = pass[p].stop
                             /\ pass'[p].until = pass[p].until
  BY <1>t DEF Goto, PassRecords
<1>3. ASSUME Finish(p) PROVE WaitInv(p)'
  <2>1. pass'[p].pc = "idle"
    BY <1>1, <1>3 DEF Finish, IdlePass
  <2> QED BY <2>1, WaitElsewhere
<1>4. ASSUME Fetch(p) PROVE WaitInv(p)'
  <2>1. pass'[p].pc = "start"
    BY <1>2, <1>4 DEF Fetch
  <2> QED BY <2>1, WaitElsewhere
<1>5. ASSUME Start(p) PROVE WaitInv(p)'
  <2>1. ASSUME Put(p, [IdlePass EXCEPT !.pc = "claim"]) PROVE WaitInv(p)'
    <3>1. pass'[p].pc = "claim"
      BY <1>1, <2>1 DEF IdlePass
    <3> QED BY <3>1, WaitElsewhere
  <2> QED BY <1>3, <1>5, <2>1 DEF Start
<1>6. ASSUME Claim(p) PROVE WaitInv(p)'
  <2>1. ASSUME Goto(p, "rearm") PROVE WaitInv(p)'
    <3>1. pass'[p].pc = "rearm"
      BY <1>2, <2>1
    <3> QED BY <3>1, WaitElsewhere
  <2>2. ASSUME NEW page, NEW read,
               Put(p, [Resting(p, "check") EXCEPT !.page = page, !.read = read])
        PROVE  WaitInv(p)'
    <3> DEFINE r == [Resting(p, "check") EXCEPT !.page = page, !.read = read]
    <3>1. r.pc = "check" /\ r.stop = "none"
      BY DEF Resting, IdlePass
    <3>2. pass'[p] = r
      BY <1>1, <2>2
    <3>3. asked'[p] = 0
      BY <1>6, <1>t DEF Claim
    <3> HIDE DEF r
    <3> QED BY <3>1, <3>2, <3>3 DEF WaitInv
  <2> QED BY <1>6, <2>1, <2>2 DEF Claim
<1>7. ASSUME Check(p) PROVE WaitInv(p)'
  <2>1. asked' = asked /\ pass[p].pc = "check"
    BY <1>7 DEF Check
  <2>2. ASSUME Goto(p, "work") PROVE WaitInv(p)'
    BY <1>2, <1>t, <2>1, <2>2 DEF WaitInv
  <2>3. ASSUME Put(p, [pass[p] EXCEPT !.pc = "rearm", !.page = {}]) PROVE WaitInv(p)'
    <3>1. pass'[p].pc = "rearm"
      BY <1>1, <1>t, <2>3 DEF PassRecords
    <3> QED BY <3>1, WaitElsewhere
  <2> QED BY <1>7, <2>2, <2>3 DEF Check
<1>8. ASSUME PageEnd(p) PROVE WaitInv(p)'
  <2>1. ASSUME Goto(p, "claim") PROVE WaitInv(p)'
    <3>1. pass'[p].pc = "claim"
      BY <1>2, <2>1
    <3> QED BY <3>1, WaitElsewhere
  <2>2. ASSUME NEW pc \in {"park", "rearm"}, NEW u,
               Put(p, [Resting(p, pc) EXCEPT !.until = u])
        PROVE  WaitInv(p)'
    <3>1. [Resting(p, pc) EXCEPT !.until = u].pc = pc
      BY DEF Resting, IdlePass
    <3>2. pass'[p].pc = pc
      BY <1>1, <2>2, <3>1
    <3> QED BY <3>2, WaitElsewhere
  <2> QED BY <1>3, <1>8, <2>1, <2>2 DEF PageEnd, GiveUp
<1>9. ASSUME Park(p) \/ Rearm(p) \/ Die(p) PROVE WaitInv(p)'
  <2>1. Finish(p)
    BY <1>9 DEF Park, Rearm, Die, GiveUp
  <2> QED BY <1>3, <2>1
<1>10. ASSUME StopEarly(p) PROVE WaitInv(p)'
  <2> DEFINE r == [pass[p] EXCEPT !.stop = "budget", !.until = 0]
  <2>1. asked' = asked /\ pass[p].pc = "work" /\ pass[p].stop = "none" /\ Put(p, r)
    BY <1>10 DEF StopEarly
  <2>2. r.pc = "work" /\ r.stop = "budget" /\ r.until = 0
    BY <1>t, <2>1 DEF PassRecords
  <2>3. pass'[p] = r
    BY <1>1, <2>1
  <2> HIDE DEF r
  <2> QED BY <2>1, <2>2, <2>3 DEF WaitInv
<1>11. ASSUME Abort(p) PROVE WaitInv(p)'
  <2> DEFINE r == [pass[p] EXCEPT !.aborted = TRUE]
  <2>1. asked' = asked /\ pass'[p] = r
    BY <1>1, <1>11 DEF Abort
  <2>2. r.pc = pass[p].pc /\ r.stop = pass[p].stop /\ r.until = pass[p].until
    BY <1>t DEF PassRecords
  <2> HIDE DEF r
  <2> QED BY <2>1, <2>2 DEF WaitInv
<1>12. ASSUME NEW d \in Deliveries, Take(p, d) PROVE WaitInv(p)' /\ pass'[p].pc = "work"
  <2> DEFINE rest == [pass[p] EXCEPT !.page = @ \ {d}]
  <2>1. /\ asked' = asked /\ pass[p].pc = "work"
        /\ pass'[p] = rest \/ pass'[p] = [rest EXCEPT !.hand[d] = "bucket"]
    BY <1>1, <1>12 DEF Take
  <2>2. rest.pc = "work" /\ rest.stop = pass[p].stop /\ rest.until = pass[p].until
        /\ rest \in PassRecords
    <3>1. pass[p].page \ {d} \in SUBSET Deliveries
      BY <1>t DEF PassRecords
    <3>2. pass[p] \in PassRecords
      BY <1>t
    <3> QED BY <2>1, <3>1, <3>2 DEF PassRecords
  <2>3. /\ pass'[p].pc = "work" /\ pass'[p].stop = pass[p].stop
        /\ pass'[p].until = pass[p].until
    <3> DEFINE hand == [pass[p].hand EXCEPT ![d] = "bucket"]
    <3>1. rest.hand = pass[p].hand
      BY <1>t DEF PassRecords
    <3>2. [rest EXCEPT !.hand[d] = "bucket"] = [rest EXCEPT !.hand = hand]
      BY <3>1
    <3> HIDE DEF rest, hand
    <3>3. LET r == [rest EXCEPT !.hand = hand] IN
          r.pc = rest.pc /\ r.stop = rest.stop /\ r.until = rest.until
      BY <1>t, <2>2 DEF PassRecords
    <3> QED BY <2>1, <2>2, <3>2, <3>3
  <2> QED BY <2>1, <2>3, WaitSame
<1>13. ASSUME NEW d \in Deliveries,
              \/ Post(p, d) \/ CountSettled(p, d) \/ AutoDisable(p, d) \/ WorkerFails(p, d)
              \/ Throttled(p, d) \/ Accepted(p, d) \/ Refused(p, d)
       PROVE  WaitInv(p)'
  BY <1>13, WorkerWaits
<1>14. WaitInv(p)'
  BY <1>4, <1>5, <1>6, <1>7, <1>8, <1>9, <1>10, <1>11, <1>12, <1>13 DEF PassStep, PassWork
<1>15. ASSUME pass[p].pc = "work", pass'[p].pc \in {"park", "rearm"} PROVE PageEnd(p)
  <2>1. ~(Fetch(p) \/ Start(p) \/ Claim(p) \/ Check(p) \/ Park(p) \/ Rearm(p))
    BY <1>15 DEF Fetch, Start, Claim, Check, Park, Rearm
  <2>2. ~Die(p)
    <3>1. Finish(p) => pass'[p].pc = "idle"
      BY <1>1 DEF Finish, IdlePass
    <3> QED BY <1>15, <3>1 DEF Die, GiveUp
  <2>3. ~(Abort(p) \/ StopEarly(p))
    <3>1. \A s, u : [pass[p] EXCEPT !.stop = s, !.until = u].pc = pass[p].pc
          /\ [pass[p] EXCEPT !.aborted = TRUE].pc = pass[p].pc
      BY <1>t DEF PassRecords
    <3>2. Abort(p) => pass'[p].pc = "work"
      BY <1>1, <1>15, <3>1 DEF Abort
    <3>3. StopEarly(p) => pass'[p].pc = "work"
      <4>1. StopEarly(p) => pass'[p] = [pass[p] EXCEPT !.stop = "budget", !.until = 0]
        BY <1>1 DEF StopEarly
      <4>2. [pass[p] EXCEPT !.stop = "budget", !.until = 0].pc = "work"
        BY <1>15, <3>1
      <4> QED BY <4>1, <4>2
    <3> QED BY <1>15, <3>2, <3>3
  <2>4. \A d \in Deliveries :
          ~(\/ Post(p, d) \/ CountSettled(p, d) \/ AutoDisable(p, d) \/ WorkerFails(p, d)
            \/ Throttled(p, d) \/ Accepted(p, d) \/ Refused(p, d))
    BY <1>15, WorkerWaits
  <2>5. \A d \in Deliveries : ~Take(p, d)
    BY <1>12, <1>15
  <2> QED BY <2>1, <2>2, <2>3, <2>4, <2>5 DEF PassStep, PassWork
<1> QED
  BY <1>14, <1>15

LEMMA TickWaits ==
  ASSUME DrainAssumption, DrainInv, NEW p \in Passes, WaitInv(p), Tick
  PROVE  WaitInv(p)' /\ pass'[p].pc = pass[p].pc
<1>t. pass[p] \in PassRecords /\ pass[p].until \in Ticks /\ asked[p] \in Ticks
      /\ pass \in [Passes -> PassRecords]
  BY DrainTypes DEF DrainInv, TypeOK, PassRecords
<1> DEFINE since == [d \in Deliveries |-> IF pass[p].hand[d] = "posting"
                                          THEN pass[p].since[d] + 1 ELSE 0]
           r == [pass[p] EXCEPT !.spent = pass[p].spent + 1, !.until = Fall(pass[p].until),
                                !.since = since]
<1>1. pass'[p] = (IF pass[p].pc = "idle" THEN pass[p] ELSE r) /\ asked'[p] = Fall(asked[p])
  BY <1>t DEF Tick, Fall, PassRecords
<1> HIDE DEF since
<1>2. r.pc = pass[p].pc /\ r.stop = pass[p].stop /\ r.until = Fall(pass[p].until)
  BY <1>t DEF PassRecords
<1> HIDE DEF r
<1>3. /\ \A t \in Ticks : t <= 0 => Fall(t) <= 0
      /\ \A t, u \in Ticks : t >= u => Fall(t) >= Fall(u)
      /\ \A t \in Ticks : Fall(t) > 0 => t > 0
  <2>1. StaleAfter \in Nat
    BY DEF DrainAssumption
  <2>2. \A t \in Ticks : Fall(t) = IF t - 1 >= -StaleAfter THEN t - 1 ELSE -StaleAfter
    BY Falls
  <2>3. ASSUME NEW t \in Int, NEW u \in Int
        PROVE  /\ Fall(t) = IF t - 1 >= -StaleAfter THEN t - 1 ELSE -StaleAfter
               /\ Fall(u) = IF u - 1 >= -StaleAfter THEN u - 1 ELSE -StaleAfter
    BY <2>2 DEF Ticks
  <2> HIDE DEF Fall
  <2>4. ASSUME NEW t \in Int, NEW u \in Int
        PROVE  /\ t <= 0 => Fall(t) <= 0
               /\ t >= u => Fall(t) >= Fall(u)
               /\ Fall(t) > 0 => t > 0
    <3>1. \A a, b, x, y \in Int :
            /\ x = (IF a - 1 >= -StaleAfter THEN a - 1 ELSE -StaleAfter)
            /\ y = (IF b - 1 >= -StaleAfter THEN b - 1 ELSE -StaleAfter)
            => (a <= 0 => x <= 0) /\ (a >= b => x >= y) /\ (x > 0 => a > 0)
      BY <2>1
    <3>2. Fall(t) \in Int /\ Fall(u) \in Int
      BY <2>1, <2>3
    <3> QED BY <2>3, <3>1, <3>2
  <2> QED BY <2>4 DEF Ticks
<1> QED
  BY <1>t, <1>1, <1>2, <1>3 DEF WaitInv

(* A pass a 429 ended waits as long as the receiver asked for, whatever its *)
(* other workers were answered and whenever its budget ran out.             *)
THEOREM WaitsKept == Spec => WaitsRespected
<1> DEFINE Waiting == \A p \in Passes : WaitInv(p)
           Kept(p) ==
             /\ pass[p].pc = "work" /\ pass'[p].pc \in {"park", "rearm"}
             /\ pass[p].stop # "disabled" /\ asked[p] > 0
             => /\ pass'[p].pc = "park" /\ pass'[p].until >= asked[p]
                /\ \A d \in pass[p].page \cup pass[p].back : delivery'[d].wait >= asked[p]
<1>1. Init => Waiting
  BY DEF Init, WaitInv, IdlePass
<1>2. DrainInv /\ Waiting /\ [Next]_vars => Waiting' /\ [\A p \in Passes : Kept(p)]_vars
  <2> SUFFICES ASSUME DrainInv, Waiting, [Next]_vars, NEW p \in Passes
               PROVE  WaitInv(p)' /\ (Kept(p) \/ UNCHANGED vars)
    OBVIOUS
  <2> USE DrainAssumption
  <2>1. CASE PassStep(p)
    <3>1. WaitInv(p)' /\ (pass[p].pc = "work" /\ pass'[p].pc \in {"park", "rearm"} => PageEnd(p))
      BY <2>1, PassWaits
    <3>2. ASSUME PageEnd(p), pass'[p].pc \in {"park", "rearm"}, pass[p].stop # "disabled",
                 asked[p] > 0
          PROVE  /\ pass'[p].pc = "park" /\ pass'[p].until >= asked[p]
                 /\ \A d \in pass[p].page \cup pass[p].back : delivery'[d].wait >= asked[p]
      <4>t. pass \in [Passes -> PassRecords] /\ delivery \in [Deliveries -> RowRecords]
            /\ pass[p].page \cup pass[p].back \subseteq Deliveries
        BY DrainTypes DEF DrainInv, PassRecords
      <4>1. pass[p].stop = "throttled" /\ pass[p].until >= asked[p]
        BY <3>2 DEF PageEnd, WaitInv
      <4> DEFINE r == [Resting(p, "park") EXCEPT !.until = pass[p].until]
      <4>2. ~Goto(p, "claim") /\ ~Finish(p)
        <5>1. Goto(p, "claim") => pass'[p].pc = "claim"
          BY <4>t DEF Goto, PassRecords
        <5>2. Finish(p) => pass'[p].pc = "idle"
          BY <4>t DEF Finish, Put, IdlePass
        <5> QED BY <3>2, <5>1, <5>2
      <4>3. delivery' = Released(pass[p].page \cup pass[p].back, pass[p].until) /\ Put(p, r)
        BY <3>2, <4>1, <4>2 DEF PageEnd, GiveUp
      <4>4. pass'[p] = r
        BY <4>3, <4>t DEF Put
      <4>5. r.pc = "park" /\ r.until = pass[p].until
        BY DEF Resting, IdlePass
      <4>6. \A d \in pass[p].page \cup pass[p].back : delivery'[d].wait = pass[p].until
        BY <4>t, <4>3 DEF Released, RowRecords
      <4> QED BY <4>1, <4>4, <4>5, <4>6
    <3> QED BY <3>1, <3>2
  <2>2. ASSUME NEW q \in Passes \ {p}, PassStep(q) PROVE WaitInv(p)' /\ Kept(p)
    <3>1. pass'[p] = pass[p] /\ asked'[p] = asked[p]
      BY <2>2, OthersStay DEF DrainInv
    <3> QED BY <3>1 DEF WaitInv
  <2>3. CASE Tick
    <3>1. WaitInv(p)' /\ pass'[p].pc = pass[p].pc
      BY <2>3, TickWaits
    <3> QED BY <3>1
  <2>4. CASE \/ \E d \in Deliveries : FanoutRead(d) \/ FanoutInsert(d) \/ GrowOld(d)
             \/ Toggle \/ SweepOld \/ SweepStale \/ UNCHANGED vars
    <3>1. UNCHANGED <<pass, asked>>
      BY <2>4 DEF FanoutRead, FanoutInsert, GrowOld, Toggle, SweepOld, SweepStale, vars
    <3> QED BY <3>1 DEF WaitInv
  <2> QED BY <2>1, <2>2, <2>3, <2>4 DEF Next
<1> QED
  BY <1>1, <1>2, Leases, PTL DEF Spec, WaitsRespected
=============================================================================
