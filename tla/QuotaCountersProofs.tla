------------------------ MODULE QuotaCountersProofs ------------------------
(***************************************************************************)
(* Theorems about QuotaCounters, for any teams, days, domains, batches,    *)
(* connections and ceilings: every variable has its type, which includes   *)
(* that no counter goes below zero and that no two transactions hold one   *)
(* row; no counter passes its ceiling; and no ring of transactions waits   *)
(* for each other's rows.                                                  *)
(***************************************************************************)
EXTENDS QuotaCounters, FiniteSetTheorems, WellFoundedInduction, TLAPS

Pcs == {"idle", "period", "team", "pool", "review", "warm", "domain", "commit"}
Jobs == {"accept", "drain", "release"}
AtDay == {"period", "team", "pool"}

Transactions ==
  [pc : Pcs, job : Jobs, team : Teams, kind : Kinds, items : Seq(Items), day : Days,
   todo : SUBSET Days, try : Nat, parked : SUBSET Nat, review : BOOLEAN, at : Nat,
   was : Kinds, delta : [Rows -> Int], held : SUBSET Rows]

(* What a transaction would commit stays within each counter's bounds, and  *)
(* it holds the rows it changed.                                            *)
Sound(s) ==
  \A r \in Rows : /\ s.delta[r] # 0 => r \in s.held
                  /\ 0 <= Value(s, r) /\ Value(s, r) <= Ceiling(r)

(* The rows an item of a batch was charged to.                              *)
Charge(s, i) ==
  {TeamRow(s.team, s.items[i].day),
   IF s.kind = "pool" THEN PoolRow(s.items[i].day) ELSE PeriodRow(s.team)}

(* An item that still goes out is of a day to come, of the day being        *)
(* reserved, or the transaction holds what it was charged to.               *)
Backed(s) ==
  \A i \in Waiting(s) : \/ s.items[i].day \in s.todo
                        \/ s.pc \in AtDay /\ s.items[i].day = s.day
                        \/ Charge(s, i) \subseteq s.held

(* What is taken back by hand was taken in this transaction.                *)
Taken(s) ==
  /\ s.pc = "team" /\ s.kind = "month" =>
       PeriodRow(s.team) \in s.held /\ s.try <= Value(s, PeriodRow(s.team))
  /\ s.pc = "pool" =>
       TeamRow(s.team, s.day) \in s.held /\ s.try <= Value(s, TeamRow(s.team, s.day))
  /\ s.pc = "domain" =>
       LET r == WarmRow(s.team, s.items[s.at].day) IN r \in s.held /\ 1 <= Value(s, r)

Placed(s) ==
  /\ s.parked \subseteq DOMAIN s.items
  /\ s.pc = "period" => s.kind = "month"
  /\ s.pc = "pool" => s.kind = "pool"
  /\ s.pc \notin AtDay => s.todo = {}
  /\ s.pc \in {"warm", "domain"} => s.at \in Waiting(s)

Stage(s) ==
  /\ Placed(s) /\ Backed(s)
  /\ IF s.job = "release" THEN s.items = <<>> /\ s.todo = {} /\ s.pc \in AtDay \cup {"idle", "commit"}
                          ELSE Taken(s)

(* The transactions that give a unit of a team back.                        *)
Giving(t, k) == {x \in Txs : /\ tx[x].pc # "idle" /\ tx[x].job = "release"
                             /\ tx[x].team = t /\ tx[x].was = k}

CapsInv ==
  /\ count \in [Rows -> Nat] /\ WithinCaps
  /\ tx \in [Txs -> Transactions]
  /\ \A x \in Txs : Sound(tx[x]) /\ Stage(tx[x])
  /\ \A x \in Txs, y \in Txs : x # y => tx[x].held \cap tx[y].held = {}
  /\ out \in [Teams -> [Days -> [Kinds -> Nat]]]
  /\ \A t \in Teams, k \in Kinds : Cardinality(Giving(t, k)) <= out[t][Today][k]

PlansOK ==
  /\ plan \in [Teams -> Kinds]
  /\ begun \in Nat /\ moves \in Nat /\ lapsed \in BOOLEAN

-----------------------------------------------------------------------------
(* Rows and records. *)

LEMMA RowsIn ==
  ASSUME NEW t \in Teams, NEW d \in Days, NEW k \in Keys
  PROVE  {TeamRow(t, d), PoolRow(d), PeriodRow(t), WarmRow(t, d), DomainRow(k, d)} \subseteq Rows
BY DEF Rows

LEMMA Ceilings ==
  ASSUME NEW t, NEW d, NEW k \in Kinds, NEW x
  PROVE  /\ TeamCeiling[k] <= Ceiling(TeamRow(t, d)) /\ Ceiling(PoolRow(d)) = PoolCeiling
         /\ Ceiling(PeriodRow(t)) = Included /\ Ceiling(WarmRow(t, d)) = WarmPool
         /\ Ceiling(DomainRow(x, d)) = WarmCap
BY CountersAssumption DEF CountersAssumption, Ceiling, Kinds, TeamRow, PoolRow, PeriodRow,
   WarmRow, DomainRow

LEMMA CeilingNat == \A r : Ceiling(r) \in Nat
BY CountersAssumption DEF CountersAssumption, Ceiling, Kinds

(* A set of naturals with a member has a least one.                         *)
LEMMA Least ==
  ASSUME NEW S \in SUBSET Nat, S # {}
  PROVE  \E x \in S : \A y \in S : x <= y
<1>1. PICK x \in S : \A y \in S : ~(<<y, x>> \in OpToRel(<, Nat))
  BY NatLessThanWellFounded, WFMin
<1>2. \A y \in S : ~(y < x)
  BY <1>1 DEF OpToRel
<1> QED BY <1>2

(* Two records that differ in what they hold and in what they add.          *)
Alike(s, u) ==
  /\ u.pc = s.pc /\ u.job = s.job /\ u.team = s.team /\ u.kind = s.kind /\ u.items = s.items
  /\ u.day = s.day /\ u.todo = s.todo /\ u.try = s.try /\ u.parked = s.parked
  /\ u.review = s.review /\ u.at = s.at /\ u.was = s.was

LEMMA AddKeeps ==
  ASSUME CapsInv, NEW s \in Transactions, Sound(s), NEW r \in Rows, NEW n \in Int,
         0 <= Value(s, r) + n, Value(s, r) + n <= Ceiling(r)
  PROVE  /\ Add(s, r, n) \in Transactions /\ Sound(Add(s, r, n)) /\ Alike(s, Add(s, r, n))
         /\ Add(s, r, n).held = s.held \cup {r} /\ Value(Add(s, r, n), r) = Value(s, r) + n
         /\ \A q \in Rows \ {r} : Value(Add(s, r, n), q) = Value(s, q)
<1> DEFINE u == Add(s, r, n)
<1>1. u = [s EXCEPT !.held = s.held \cup {r}, !.delta = [s.delta EXCEPT ![r] = s.delta[r] + n]]
  BY DEF Add, Locked, Transactions
<1>2. /\ Alike(s, u) /\ u.held = s.held \cup {r} /\ u.delta = [s.delta EXCEPT ![r] = s.delta[r] + n]
  BY <1>1 DEF Alike, Transactions
<1>3. u \in Transactions
  <2>1. [s.delta EXCEPT ![r] = s.delta[r] + n] \in [Rows -> Int] /\ s.held \cup {r} \in SUBSET Rows
    BY DEF Transactions
  <2>2. ASSUME NEW dd \in [Rows -> Int], NEW hh \in SUBSET Rows
        PROVE  [s EXCEPT !.held = hh, !.delta = dd] \in Transactions
    BY DEF Transactions
  <2> QED BY <1>1, <2>1, <2>2
<1>4. /\ s.delta \in [Rows -> Int] /\ count \in [Rows -> Nat]
  BY DEF Transactions, CapsInv
<1>5. \A q \in Rows : u.delta[q] = IF q = r THEN s.delta[r] + n ELSE s.delta[q]
  BY <1>2, <1>4
<1>6. /\ Value(u, r) = Value(s, r) + n
      /\ \A q \in Rows \ {r} : Value(u, q) = Value(s, q)
  BY <1>4, <1>5 DEF Value
<1>7. Sound(u)
  BY <1>2, <1>5, <1>6 DEF Sound
<1> QED BY <1>2, <1>3, <1>6, <1>7

LEMMA LockedKeeps ==
  ASSUME CapsInv, NEW s \in Transactions, Sound(s), NEW r \in Rows
  PROVE  /\ Locked(s, r) \in Transactions /\ Sound(Locked(s, r)) /\ Alike(s, Locked(s, r))
         /\ Locked(s, r).held = s.held \cup {r}
         /\ \A q \in Rows : Value(Locked(s, r), q) = Value(s, q)
<1>1. /\ Locked(s, r) \in Transactions /\ Alike(s, Locked(s, r))
      /\ Locked(s, r).held = s.held \cup {r} /\ Locked(s, r).delta = s.delta
  BY DEF Locked, Transactions, Alike
<1>2. \A q \in Rows : Value(Locked(s, r), q) = Value(s, q)
  BY <1>1 DEF Value
<1>3. Sound(Locked(s, r))
  BY <1>1, <1>2 DEF Sound
<1> QED BY <1>1, <1>2, <1>3

LEMMA GiveBackKeeps ==
  ASSUME CapsInv, NEW s \in Transactions, Sound(s), NEW r \in Rows
  PROVE  /\ GiveBack(s, r) \in Transactions /\ Sound(GiveBack(s, r)) /\ Alike(s, GiveBack(s, r))
         /\ GiveBack(s, r).held = s.held \cup {r}
<1>1. Value(s, r) \in Int /\ 0 <= Value(s, r) /\ Value(s, r) <= Ceiling(r) /\ Ceiling(r) \in Nat
  BY CeilingNat DEF Sound, Value, Transactions, CapsInv
<1>2. CASE Value(s, r) > 0
  <2>1. 0 <= Value(s, r) + (-1) /\ Value(s, r) + (-1) <= Ceiling(r)
    BY <1>1, <1>2
  <2> QED BY <1>2, <2>1, AddKeeps DEF GiveBack
<1>3. CASE ~(Value(s, r) > 0)
  BY <1>3, LockedKeeps DEF GiveBack
<1> QED BY <1>2, <1>3

-----------------------------------------------------------------------------
(* Where a transaction goes next. *)

(* What a change of place leaves alone.                                     *)
Goes(s, u) ==
  /\ u \in Transactions /\ u.job = s.job /\ u.team = s.team /\ u.kind = s.kind
  /\ u.items = s.items /\ u.was = s.was /\ u.delta = s.delta /\ u.held = s.held

LEMMA GoesSound ==
  ASSUME NEW s, NEW u, Goes(s, u), Sound(s)
  PROVE  Sound(u)
BY DEF Goes, Sound, Value

(* Every item that still goes out is backed, once its day has come.         *)
AllBacked(s) ==
  \A i \in Waiting(s) : s.items[i].day \in s.todo \/ Charge(s, i) \subseteq s.held

LEMMA NextItemStage ==
  ASSUME NEW s \in Transactions, s.job # "release", s.todo = {}, AllBacked(s),
         s.parked \subseteq DOMAIN s.items
  PROVE  Goes(s, NextItem(s)) /\ Stage(NextItem(s))
<1> DEFINE rest == {i \in Waiting(s) : i > s.at}
           u == NextItem(s)
<1>1. CASE rest = {}
  <2>1. u = [s EXCEPT !.pc = "commit"]
    BY <1>1 DEF NextItem
  <2>2. Goes(s, u) /\ u.pc = "commit" /\ u.todo = {} /\ u.parked = s.parked
    BY <2>1 DEF Goes, Transactions, Pcs
  <2>3. Stage(u)
    BY <2>2 DEF Goes, Stage, Placed, Backed, Taken, AtDay, AllBacked, Waiting, Charge
  <2> QED BY <2>2, <2>3
<1>2. CASE rest # {}
  <2> DEFINE next == CHOOSE i \in rest : \A j \in rest : i <= j
  <2>1. rest \in SUBSET Nat
    BY DEF Waiting, Transactions
  <2>2. next \in rest
    BY <1>2, <2>1, Least
  <2>3. u = [s EXCEPT !.at = next, !.pc = "warm"]
    BY <1>2 DEF NextItem
  <2> HIDE DEF next
  <2>4. /\ Goes(s, u) /\ u.pc = "warm" /\ u.todo = {} /\ u.parked = s.parked /\ u.at = next
    BY <2>1, <2>2, <2>3 DEF Goes, Transactions, Pcs
  <2>5. Waiting(u) = Waiting(s) /\ next \in Waiting(s)
    BY <2>2, <2>4 DEF Waiting, Goes
  <2>6. Placed(u) /\ Taken(u)
    BY <2>4, <2>5 DEF Goes, Placed, Taken, AtDay
  <2>7. Backed(u)
    BY <2>4, <2>5 DEF Goes, Backed, AllBacked, Charge
  <2> QED BY <2>4, <2>6, <2>7 DEF Stage, Goes
<1> QED BY <1>1, <1>2

LEMMA GroupSize ==
  ASSUME NEW s \in Transactions, NEW d
  PROVE  /\ Group(s, d) \subseteq DOMAIN s.items /\ IsFiniteSet(Group(s, d))
         /\ Cardinality(Group(s, d)) \in Nat
         /\ \A S \in SUBSET Group(s, d) : Cardinality(S) \in Nat
<1>1. Group(s, d) \subseteq 1..Len(s.items) /\ Len(s.items) \in Nat
  BY DEF Group, Transactions
<1>2. IsFiniteSet(1..Len(s.items))
  BY <1>1, FS_Interval
<1>3. \A S \in SUBSET Group(s, d) : IsFiniteSet(S)
  BY <1>1, <1>2, FS_Subset
<1> QED BY <1>1, <1>3, FS_CardinalityType DEF Group

LEMMA NextDayStage ==
  ASSUME NEW s \in Transactions, s.job # "release", AllBacked(s),
         s.parked \subseteq DOMAIN s.items, s.kind = "month" \/ s.kind = "pool"
  PROVE  Goes(s, NextDay(s)) /\ Stage(NextDay(s))
<1> DEFINE u == NextDay(s)
<1>1. CASE s.todo = {} /\ s.review
  <2>1. u = [s EXCEPT !.pc = "review"]
    BY <1>1 DEF NextDay
  <2>2. Goes(s, u) /\ u.pc = "review" /\ u.todo = {} /\ u.parked = s.parked
    BY <1>1, <2>1 DEF Goes, Transactions, Pcs
  <2>3. Stage(u)
    BY <1>1, <2>2 DEF Goes, Stage, Placed, Backed, Taken, AtDay, AllBacked, Waiting, Charge
  <2> QED BY <2>2, <2>3
<1>2. CASE s.todo = {} /\ ~s.review
  BY <1>2, NextItemStage DEF NextDay
<1>3. CASE s.todo # {}
  <2> DEFINE d == Earliest(s)
             n == Cardinality(Group(s, d))
  <2>1. s.todo \in SUBSET Nat
    BY CountersAssumption DEF CountersAssumption, Transactions
  <2>2. d \in s.todo
    BY <1>3, <2>1, Least DEF Earliest
  <2>3. n \in Nat
    BY GroupSize
  <2>4. u = [s EXCEPT !.day = d, !.todo = s.todo \ {d}, !.try = n, !.pc = First(s)]
    BY <1>3 DEF NextDay, Transactions
  <2>5. d \in Days /\ First(s) \in {"period", "team"}
    BY <2>2 DEF Transactions, First
  <2> HIDE DEF d, n
  <2>6. /\ Goes(s, u) /\ u.pc = First(s) /\ u.todo = s.todo \ {d} /\ u.parked = s.parked
        /\ u.day = d
    BY <2>2, <2>3, <2>4, <2>5, ZenonT(60) DEF Goes, Transactions, Pcs
  <2>7. Waiting(u) = Waiting(s)
    BY <2>6 DEF Waiting, Goes
  <2>8. Backed(u)
    BY <2>5, <2>6, <2>7 DEF Goes, Backed, AllBacked, Charge, AtDay
  <2>9. Placed(u) /\ Taken(u)
    BY <2>5, <2>6, <2>7 DEF Goes, Placed, Taken, AtDay, First
  <2> QED BY <2>6, <2>8, <2>9 DEF Stage, Goes
<1> QED BY <1>1, <1>2, <1>3

LEMMA ParkedGoes ==
  ASSUME NEW s \in Transactions, NEW keep, s.parked \subseteq DOMAIN s.items
  PROVE  /\ Goes(s, Parked(s, keep)) /\ Parked(s, keep).todo = s.todo
         /\ Parked(s, keep).parked \subseteq DOMAIN s.items
         /\ s.parked \subseteq Parked(s, keep).parked
         /\ keep = 0 => Group(s, s.day) \subseteq Parked(s, keep).parked
<1> DEFINE tail == {i \in Group(s, s.day) : Cardinality({j \in Group(s, s.day) : j < i}) >= keep}
<1>1. tail \subseteq DOMAIN s.items /\ DOMAIN s.items \subseteq Nat
  BY DEF Group, Transactions
<1>2. keep = 0 => tail = Group(s, s.day)
  <2> SUFFICES ASSUME keep = 0, NEW i \in Group(s, s.day)
               PROVE  Cardinality({j \in Group(s, s.day) : j < i}) >= 0
    OBVIOUS
  <2>1. {j \in Group(s, s.day) : j < i} \in SUBSET Group(s, s.day)
    OBVIOUS
  <2> QED BY <2>1, GroupSize
<1>3. Parked(s, keep) = [s EXCEPT !.parked = s.parked \cup tail]
  BY DEF Parked, Transactions
<1> HIDE DEF tail
<1> QED BY <1>1, <1>2, <1>3 DEF Goes, Transactions

(* The items of the day being reserved.                                     *)
DayBacked(s) ==
  \A i \in Waiting(s) : \/ s.items[i].day \in s.todo \/ s.items[i].day = s.day
                        \/ Charge(s, i) \subseteq s.held

LEMMA ReservedStage ==
  ASSUME NEW s \in Transactions, s.job # "release", s.parked \subseteq DOMAIN s.items,
         DayBacked(s), TeamRow(s.team, s.day) \in s.held,
         s.kind = "pool" => PoolRow(s.day) \in s.held,
         s.kind = "month" => PeriodRow(s.team) \in s.held
  PROVE  Goes(s, Reserved(s)) /\ Stage(Reserved(s))
<1> DEFINE u == Parked(s, s.try)
<1>1. Goes(s, u) /\ u.todo = s.todo /\ u.parked \subseteq DOMAIN s.items /\ s.parked \subseteq u.parked
  BY ParkedGoes
<1>2. s.kind \in {"pool", "month"}
  BY DEF Transactions, Kinds
<1>3. \A i : s.items[i].day = s.day => Charge(s, i) \subseteq s.held
  BY <1>2 DEF Charge
<1>4. Waiting(u) \subseteq Waiting(s) /\ \A i : Charge(u, i) = Charge(s, i)
  BY <1>1 DEF Waiting, Goes, Charge
<1>5. AllBacked(u)
  BY <1>1, <1>3, <1>4 DEF AllBacked, DayBacked, Goes
<1> HIDE DEF u
<1>6. Goes(u, NextDay(u)) /\ Stage(NextDay(u))
  BY <1>1, <1>2, <1>5, NextDayStage DEF Goes
<1>7. Reserved(s) = NextDay(u)
  BY DEF Reserved, u
<1> QED BY <1>1, <1>6, <1>7 DEF Goes

LEMMA RefusedStage ==
  ASSUME NEW s \in Transactions, s.job # "release", s.parked \subseteq DOMAIN s.items,
         DayBacked(s)
  PROVE  Goes(s, Refused(s)) /\ Stage(Refused(s))
<1>1. s.kind \in {"pool", "month"}
  BY DEF Transactions, Kinds
<1>2. CASE s.try = Cardinality(Group(s, s.day)) /\ Room(s) \in 1..(s.try - 1)
  <2> DEFINE u == Refused(s)
             k == Room(s)
  <2>1. k \in Nat
    BY <1>2 DEF Transactions
  <2>2. u = [s EXCEPT !.try = k, !.pc = First(s)]
    BY <1>2 DEF Refused
  <2> HIDE DEF k
  <2>3. /\ Goes(s, u) /\ u.pc = First(s) /\ u.todo = s.todo /\ u.parked = s.parked
        /\ u.day = s.day
    BY <2>1, <2>2 DEF Goes, Transactions, Pcs, First
  <2>4. Waiting(u) = Waiting(s) /\ \A i : Charge(u, i) = Charge(s, i)
    BY <2>3 DEF Waiting, Goes, Charge
  <2>5. Backed(u)
    BY <2>3, <2>4 DEF Backed, DayBacked, Goes, AtDay, First
  <2>6. Placed(u) /\ Taken(u)
    BY <1>1, <2>3 DEF Placed, Taken, Goes, AtDay, First
  <2> QED BY <2>3, <2>5, <2>6 DEF Stage, Goes
<1>3. CASE ~(s.try = Cardinality(Group(s, s.day)) /\ Room(s) \in 1..(s.try - 1))
  <2> DEFINE u == Parked(s, 0)
  <2>1. /\ Goes(s, u) /\ u.todo = s.todo /\ u.parked \subseteq DOMAIN s.items
        /\ s.parked \subseteq u.parked /\ Group(s, s.day) \subseteq u.parked
    BY ParkedGoes
  <2>2. /\ Waiting(u) \subseteq Waiting(s) /\ \A i : Charge(u, i) = Charge(s, i)
        /\ \A i \in Waiting(u) : s.items[i].day # s.day
    BY <2>1 DEF Waiting, Goes, Charge, Group
  <2>3. AllBacked(u)
    BY <2>1, <2>2 DEF AllBacked, DayBacked, Goes
  <2>4. Refused(s) = NextDay(u)
    BY <1>3 DEF Refused
  <2> HIDE DEF u
  <2>5. Goes(u, NextDay(u)) /\ Stage(NextDay(u))
    BY <1>1, <2>1, <2>3, NextDayStage DEF Goes
  <2> QED BY <2>1, <2>4, <2>5 DEF Goes
<1> QED BY <1>2, <1>3

(* An item that still goes out is handed back on rows the transaction holds.*)
LEMMA ReturnedKeeps ==
  ASSUME CapsInv, NEW s \in Transactions, Sound(s), NEW i \in Waiting(s),
         Charge(s, i) \subseteq s.held, s.parked \subseteq DOMAIN s.items
  PROVE  LET u == Returned(s, i) IN
         /\ u \in Transactions /\ Sound(u) /\ u.held = s.held
         /\ u.pc = s.pc /\ u.job = s.job /\ u.team = s.team /\ u.kind = s.kind
         /\ u.items = s.items /\ u.was = s.was /\ u.todo = s.todo /\ u.at = s.at
         /\ u.day = s.day /\ u.parked = s.parked \cup {i}
<1> DEFINE d == s.items[i].day
           s1 == IF s.kind = "month" THEN GiveBack(s, PeriodRow(s.team)) ELSE s
           s2 == GiveBack(s1, TeamRow(s.team, d))
           s3 == IF s.kind = "pool" THEN GiveBack(s2, PoolRow(d)) ELSE s2
<1>1. /\ d \in Days /\ s.team \in Teams /\ i \in Nat /\ s.kind \in {"pool", "month"}
  <2>1. i \in DOMAIN s.items /\ s.items \in Seq(Items)
    BY DEF Waiting, Transactions
  <2>2. i \in Nat /\ s.items[i] \in Items
    BY <2>1
  <2> QED BY <2>2 DEF Transactions, Items, Kinds
<1>2. {TeamRow(s.team, d), PoolRow(d), PeriodRow(s.team)} \subseteq Rows
  BY <1>1 DEF Rows
<1>3. /\ TeamRow(s.team, d) \in s.held
      /\ s.kind = "pool" => PoolRow(d) \in s.held
      /\ s.kind = "month" => PeriodRow(s.team) \in s.held
  BY <1>1 DEF Charge
<1> HIDE DEF d
<1>4. s1 \in Transactions /\ Sound(s1) /\ Alike(s, s1) /\ s1.held = s.held
  <2>1. CASE s.kind = "month"
    <3>1. s1 = GiveBack(s, PeriodRow(s.team)) /\ PeriodRow(s.team) \in Rows
      BY <1>2, <2>1
    <3>2. /\ GiveBack(s, PeriodRow(s.team)) \in Transactions /\ Sound(GiveBack(s, PeriodRow(s.team)))
          /\ Alike(s, GiveBack(s, PeriodRow(s.team))) /\ GiveBack(s, PeriodRow(s.team)).held = s.held \cup {PeriodRow(s.team)}
      BY <3>1, GiveBackKeeps
    <3> QED BY <1>3, <2>1, <3>1, <3>2
  <2>2. CASE s.kind # "month"
    BY <2>2 DEF Alike
  <2> QED BY <2>1, <2>2
<1> HIDE DEF s1
<1> HIDE DEF s2
<1>5. s2 \in Transactions /\ Sound(s2) /\ Alike(s1, s2) /\ s2.held = s.held
  <2>1. TeamRow(s.team, d) \in Rows
    BY <1>2
  <2>2. /\ GiveBack(s1, TeamRow(s.team, d)) \in Transactions /\ Sound(GiveBack(s1, TeamRow(s.team, d)))
        /\ Alike(s1, GiveBack(s1, TeamRow(s.team, d))) /\ GiveBack(s1, TeamRow(s.team, d)).held = s1.held \cup {TeamRow(s.team, d)}
    BY <1>4, <2>1, GiveBackKeeps
  <2>3. s2 = GiveBack(s1, TeamRow(s.team, d))
    BY DEF s2
  <2> QED BY <1>3, <1>4, <2>2, <2>3
<1>6. s3 \in Transactions /\ Sound(s3) /\ Alike(s2, s3) /\ s3.held = s.held
  <2>1. CASE s.kind = "pool"
    <3>1. s3 = GiveBack(s2, PoolRow(d)) /\ PoolRow(d) \in Rows
      BY <1>2, <2>1
    <3>2. /\ GiveBack(s2, PoolRow(d)) \in Transactions /\ Sound(GiveBack(s2, PoolRow(d)))
          /\ Alike(s2, GiveBack(s2, PoolRow(d))) /\ GiveBack(s2, PoolRow(d)).held = s2.held \cup {PoolRow(d)}
      BY <1>5, <3>1, GiveBackKeeps
    <3> QED BY <1>3, <1>5, <2>1, <3>1, <3>2
  <2>2. CASE s.kind # "pool"
    BY <1>5, <2>2 DEF Alike
  <2> QED BY <2>1, <2>2
<1>7. Returned(s, i) = [s3 EXCEPT !.parked = s3.parked \cup {i}]
  BY <1>6 DEF Returned, s1, s2, s3, d, Transactions
<1> HIDE DEF s3
<1>8. Alike(s, s3)
  BY <1>4, <1>5, <1>6 DEF Alike
<1>9. /\ Returned(s, i) \in Transactions /\ Returned(s, i).delta = s3.delta
      /\ Returned(s, i).held = s3.held
  <2>1. s3.parked \cup {i} \in SUBSET Nat
    BY <1>1, <1>6 DEF Transactions
  <2>2. ASSUME NEW pp \in SUBSET Nat
        PROVE  LET u == [s3 EXCEPT !.parked = pp]
               IN u \in Transactions /\ u.delta = s3.delta /\ u.held = s3.held
    BY <1>6 DEF Transactions
  <2> QED BY <1>7, <2>1, <2>2
<1>10. Sound(Returned(s, i))
  BY <1>6, <1>9 DEF Sound, Value
<1> QED BY <1>6, <1>7, <1>8, <1>9, <1>10 DEF Alike, Transactions

-----------------------------------------------------------------------------
(* Steps. *)

LEMMA IdleOk ==
  ASSUME count \in [Rows -> Nat], WithinCaps
  PROVE  Idle \in Transactions /\ Sound(Idle) /\ Stage(Idle) /\ Idle.held = {} /\ Idle.pc = "idle"
<1>1. (CHOOSE t \in Teams : TRUE) \in Teams
  BY CountersAssumption DEF CountersAssumption
<1>2. [r \in Rows |-> 0] \in [Rows -> Int] /\ <<>> \in Seq(Items) /\ Today \in Days
  BY CountersAssumption DEF CountersAssumption
<1>3. Idle \in Transactions
  BY <1>1, <1>2 DEF Idle, Transactions, Pcs, Jobs, Kinds
<1>4. /\ Idle.held = {} /\ Idle.pc = "idle" /\ Idle.items = <<>> /\ Idle.parked = {}
      /\ Idle.todo = {} /\ Idle.delta = [r \in Rows |-> 0] /\ Idle.job = "accept"
  BY DEF Idle
<1>5. Sound(Idle)
  BY <1>4 DEF Sound, Value, WithinCaps
<1>6. Stage(Idle)
  BY <1>4 DEF Stage, Placed, Backed, Taken, Waiting, AtDay
<1> QED BY <1>3, <1>4, <1>5, <1>6

LEMMA StepInv ==
  ASSUME CapsInv, NEW x \in Txs, NEW s \in Transactions, Sound(s), Stage(s),
         tx' = [tx EXCEPT ![x] = s], UNCHANGED <<count, out>>,
         \A y \in Txs \ {x} : s.held \cap tx[y].held = {},
         \/ s.pc = "idle" \/ s.job # "release"
         \/ tx[x].pc # "idle" /\ s.job = tx[x].job /\ s.team = tx[x].team /\ s.was = tx[x].was
  PROVE  CapsInv'
<1>1. tx' \in [Txs -> Transactions] /\ \A y \in Txs : tx'[y] = IF y = x THEN s ELSE tx[y]
  BY DEF CapsInv
<1>3. \A y \in Txs : (Sound(tx[y]) /\ Stage(tx[y]))'
  <2> TAKE y \in Txs
  <2>1. Sound(tx'[y]) /\ Stage(tx'[y])
    BY <1>1 DEF CapsInv
  <2> QED BY <2>1 DEF Sound, Stage, Placed, Backed, Taken, Value, Waiting, Charge
<1>4. \A y \in Txs, z \in Txs : y # z => tx'[y].held \cap tx'[z].held = {}
  BY <1>1 DEF CapsInv
<1>5. \A t \in Teams, k \in Kinds : Cardinality(Giving(t, k)') <= out'[t][Today][k]
  <2> TAKE t \in Teams, k \in Kinds
  <2>1. Giving(t, k)' \subseteq Giving(t, k)
    BY <1>1 DEF Giving
  <2>2. IsFiniteSet(Giving(t, k))
    BY FS_Subset, CountersAssumption DEF CountersAssumption, Giving
  <2>3. /\ Cardinality(Giving(t, k)') <= Cardinality(Giving(t, k))
        /\ Cardinality(Giving(t, k)') \in Nat /\ Cardinality(Giving(t, k)) \in Nat
    BY <2>1, <2>2, FS_Subset, FS_CardinalityType
  <2>4. Cardinality(Giving(t, k)) <= out[t][Today][k] /\ out[t][Today][k] \in Nat
    BY CountersAssumption DEF CapsInv, CountersAssumption
  <2> QED BY <2>3, <2>4
<1> QED BY <1>1, <1>3, <1>4, <1>5 DEF CapsInv, WithinCaps

(* A statement that locks at most one more row, which nobody else holds.    *)
LEMMA StatementInv ==
  ASSUME CapsInv, NEW x \in Txs, NEW r, Free(x, r), tx[x].pc # "idle",
         NEW s \in Transactions, Sound(s), Stage(s), s.held \subseteq tx[x].held \cup {r},
         s.job = tx[x].job, s.team = tx[x].team, s.was = tx[x].was, Step(x, s)
  PROVE  CapsInv'
<1>1. \A y \in Txs \ {x} : s.held \cap tx[y].held = {}
  BY DEF Free, CapsInv
<1>2. tx' = [tx EXCEPT ![x] = s] /\ UNCHANGED <<count, out>>
  BY DEF Step
<1> QED BY <1>1, <1>2, StepInv

LEMMA IdleInv ==
  ASSUME CapsInv, NEW x \in Txs, Step(x, Idle)
  PROVE  CapsInv'
<1>1. Idle \in Transactions /\ Sound(Idle) /\ Stage(Idle) /\ Idle.held = {} /\ Idle.pc = "idle"
  BY IdleOk DEF CapsInv
<1>2. tx' = [tx EXCEPT ![x] = Idle] /\ UNCHANGED <<count, out>>
  BY DEF Step
<1>3. \A y \in Txs \ {x} : Idle.held \cap tx[y].held = {}
  BY <1>1
<1> QED BY <1>1, <1>2, <1>3, StepInv

LEMMA PcSet ==
  ASSUME NEW v \in Transactions, NEW p \in Pcs, Sound(v)
  PROVE  LET u == [v EXCEPT !.pc = p] IN
         /\ u \in Transactions /\ Sound(u) /\ u.pc = p /\ u.job = v.job /\ u.team = v.team
         /\ u.kind = v.kind /\ u.items = v.items /\ u.day = v.day /\ u.todo = v.todo
         /\ u.try = v.try /\ u.parked = v.parked /\ u.at = v.at /\ u.was = v.was
         /\ u.held = v.held /\ \A q \in Rows : Value(u, q) = Value(v, q)
<1> DEFINE u == [v EXCEPT !.pc = p]
<1>1. /\ u \in Transactions /\ u.pc = p /\ u.job = v.job /\ u.team = v.team
      /\ u.kind = v.kind /\ u.items = v.items /\ u.day = v.day /\ u.todo = v.todo
      /\ u.try = v.try /\ u.parked = v.parked /\ u.at = v.at /\ u.was = v.was
      /\ u.held = v.held /\ u.delta = v.delta
  BY DEF Transactions
<1> HIDE DEF u
<1>2. Sound(u) /\ \A q \in Rows : Value(u, q) = Value(v, q)
  BY <1>1 DEF Sound, Value
<1> QED BY <1>1, <1>2 DEF u

(* What backs an item backs it when more is held.                           *)
LEMMA StillBacked ==
  ASSUME NEW s, NEW v, Alike(s, v), s.held \subseteq v.held, Backed(s)
  PROVE  DayBacked(v) /\ (s.pc \in AtDay => Backed(v)) /\ Waiting(v) = Waiting(s)
         /\ (s.pc \notin AtDay /\ s.todo = {} => AllBacked(v))
BY DEF Alike, Backed, DayBacked, Waiting, Charge, AllBacked

LEMMA TxTyped ==
  ASSUME CapsInv, NEW x \in Txs
  PROVE  /\ tx[x] \in Transactions /\ Sound(tx[x]) /\ Stage(tx[x]) /\ tx[x].parked \subseteq DOMAIN tx[x].items
         /\ tx[x].team \in Teams /\ tx[x].day \in Days /\ tx[x].try \in Nat /\ tx[x].kind \in Kinds
         /\ \A r \in Rows : Value(tx[x], r) \in Int
BY DEF CapsInv, Stage, Placed, Transactions, Value

LEMMA TakePeriodInv ==
  ASSUME CapsInv, NEW x \in Txs, TakePeriod(x)
  PROVE  CapsInv'
<1> DEFINE s == tx[x]
           r == PeriodRow(s.team)
<1>1. /\ s \in Transactions /\ Sound(s) /\ Stage(s) /\ s.team \in Teams /\ s.try \in Nat
      /\ Value(s, r) \in Int /\ s.pc = "period" /\ s.job # "release" /\ Free(x, r) /\ r \in Rows
  BY TxTyped DEF TakePeriod, Rows
<1>2. CASE Value(s, r) + s.try <= Included
  <2> DEFINE v == Add(s, r, s.try)
             u == [v EXCEPT !.pc = "team"]
  <2>1. 0 <= Value(s, r) /\ Ceiling(r) = Included
    BY <1>1, Ceilings DEF Sound, Ceiling, PeriodRow
  <2>2. /\ v \in Transactions /\ Sound(v) /\ Alike(s, v) /\ v.held = s.held \cup {r}
        /\ Value(v, r) = Value(s, r) + s.try
    BY <1>1, <1>2, <2>1, AddKeeps
  <2> HIDE DEF v
  <2>3. /\ u \in Transactions /\ Sound(u) /\ u.pc = "team" /\ u.job = v.job /\ u.team = v.team
        /\ u.kind = v.kind /\ u.items = v.items /\ u.day = v.day /\ u.todo = v.todo
        /\ u.try = v.try /\ u.parked = v.parked /\ u.was = v.was
        /\ u.held = v.held /\ Value(u, r) = Value(v, r)
    <3>1. "team" \in Pcs
      BY DEF Pcs
    <3>2. /\ u \in Transactions /\ Sound(u) /\ u.pc = "team" /\ u.job = v.job
          /\ u.team = v.team /\ u.kind = v.kind /\ u.items = v.items /\ u.day = v.day
          /\ u.todo = v.todo /\ u.try = v.try /\ u.parked = v.parked /\ u.was = v.was
          /\ u.held = v.held /\ \A q \in Rows : Value(u, q) = Value(v, q)
      BY <2>2, <3>1, PcSet
    <3> QED BY <1>1, <3>2
  <2> HIDE DEF u
  <2>4. Backed(v)
    BY <1>1, <2>2, StillBacked DEF Stage, AtDay
  <2>5. Backed(u)
    BY <1>1, <2>2, <2>3, <2>4 DEF Backed, Waiting, Charge, AtDay, Alike
  <2>6. Taken(u) /\ Placed(u)
    BY <1>1, <2>1, <2>2, <2>3 DEF Taken, Placed, Alike, Stage, AtDay
  <2>7. Stage(u)
    BY <1>1, <2>2, <2>3, <2>5, <2>6 DEF Stage, Alike
  <2>8. Step(x, u)
    BY <1>2 DEF TakePeriod, u, v
  <2> QED BY <1>1, <2>2, <2>3, <2>7, <2>8, StatementInv DEF Alike
<1>3. CASE ~(Value(s, r) + s.try <= Included)
  BY <1>3, IdleInv DEF TakePeriod
<1> QED BY <1>2, <1>3

LEMMA RefusedInv ==
  ASSUME CapsInv, NEW x \in Txs, NEW r, Free(x, r), tx[x].pc \in AtDay, tx[x].job # "release",
         NEW v \in Transactions, Sound(v), Alike(tx[x], v),
         v.held = tx[x].held \cup {r}, Step(x, Refused(v))
  PROVE  CapsInv'
<1>1. Backed(tx[x]) /\ tx[x].parked \subseteq DOMAIN tx[x].items
  BY TxTyped DEF Stage
<1>2. DayBacked(v) /\ v.job # "release" /\ v.parked \subseteq DOMAIN v.items
  BY <1>1, StillBacked DEF Alike
<1>3. Goes(v, Refused(v)) /\ Stage(Refused(v))
  BY <1>2, RefusedStage
<1>4. Sound(Refused(v))
  BY <1>3, GoesSound
<1>5. tx[x].pc # "idle"
  BY DEF AtDay
<1> QED BY <1>3, <1>4, <1>5, StatementInv DEF Goes, Alike

LEMMA ReservedInv ==
  ASSUME CapsInv, NEW x \in Txs, NEW r, Free(x, r), tx[x].pc \in AtDay, tx[x].job # "release",
         NEW v \in Transactions, Sound(v), Alike(tx[x], v),
         v.held = tx[x].held \cup {r}, Step(x, Reserved(v)),
         TeamRow(v.team, v.day) \in v.held,
         v.kind = "pool" => PoolRow(v.day) \in v.held,
         v.kind = "month" => PeriodRow(v.team) \in v.held
  PROVE  CapsInv'
<1>1. Backed(tx[x]) /\ tx[x].parked \subseteq DOMAIN tx[x].items
  BY TxTyped DEF Stage
<1>2. DayBacked(v) /\ v.job # "release" /\ v.parked \subseteq DOMAIN v.items
  BY <1>1, StillBacked DEF Alike
<1>3. Goes(v, Reserved(v)) /\ Stage(Reserved(v))
  BY <1>2, ReservedStage
<1>4. Sound(Reserved(v))
  BY <1>3, GoesSound
<1>5. tx[x].pc # "idle"
  BY DEF AtDay
<1> QED BY <1>3, <1>4, <1>5, StatementInv DEF Goes, Alike

LEMMA TakeTeamInv ==
  ASSUME CapsInv, NEW x \in Txs, TakeTeam(x)
  PROVE  CapsInv'
<1> DEFINE s == tx[x]
           r == TeamRow(s.team, s.day)
           p == PeriodRow(s.team)
<1>1. /\ s \in Transactions /\ Sound(s) /\ Stage(s) /\ s.team \in Teams /\ s.try \in Nat
      /\ Value(s, r) \in Int /\ s.pc = "team" /\ s.job # "release" /\ Free(x, r)
      /\ r \in Rows /\ p \in Rows /\ Value(s, p) \in Int /\ s.kind \in Kinds
  BY TxTyped DEF TakeTeam, Rows
<1>2. CASE Value(s, r) + s.try > TeamCeiling[s.kind]
  <2> DEFINE l == Locked(s, r)
             v == IF s.kind = "month" THEN Add(l, p, -s.try) ELSE l
  <2>1. /\ l \in Transactions /\ Sound(l) /\ Alike(s, l) /\ l.held = s.held \cup {r}
        /\ Value(l, p) = Value(s, p)
    BY <1>1, LockedKeeps
  <2> HIDE DEF l
  <2>2. CASE s.kind = "month"
    <3>1. p \in s.held /\ s.try <= Value(s, p)
      BY <1>1, <2>2 DEF Stage, Taken
    <3>2. /\ -s.try \in Int /\ 0 <= Value(l, p) + (-s.try) /\ Value(l, p) + (-s.try) <= Ceiling(p)
      BY <1>1, <2>1, <3>1, CeilingNat DEF Sound
    <3>3. /\ Add(l, p, -s.try) \in Transactions /\ Sound(Add(l, p, -s.try))
          /\ Alike(l, Add(l, p, -s.try)) /\ Add(l, p, -s.try).held = l.held \cup {p}
      BY <1>1, <2>1, <3>2, AddKeeps
    <3>4. v.held = s.held \cup {r}
      BY <2>1, <2>2, <3>1, <3>3
    <3>5. Alike(s, v)
      BY <2>1, <2>2, <3>3 DEF Alike
    <3>6. Step(x, Refused(v))
      BY <1>2 DEF TakeTeam, l
    <3> QED BY <1>1, <2>2, <3>3, <3>4, <3>5, <3>6, RefusedInv DEF AtDay
  <2>3. CASE s.kind # "month"
    <3>1. Step(x, Refused(v))
      BY <1>2 DEF TakeTeam, l
    <3> QED BY <1>1, <2>1, <2>3, <3>1, RefusedInv DEF AtDay
  <2> QED BY <2>2, <2>3
<1>3. CASE ~(Value(s, r) + s.try > TeamCeiling[s.kind])
  <2> DEFINE v == Add(s, r, s.try)
             u == [v EXCEPT !.pc = "pool"]
  <2>1. 0 <= Value(s, r) /\ Value(s, r) + s.try <= Ceiling(r)
    <3>1. TeamCeiling[s.kind] <= Ceiling(r) /\ TeamCeiling[s.kind] \in Nat /\ Ceiling(r) \in Nat
      BY <1>1, Ceilings, CeilingNat, CountersAssumption DEF CountersAssumption
    <3> QED BY <1>1, <1>3, <3>1 DEF Sound
  <2>2. /\ v \in Transactions /\ Sound(v) /\ Alike(s, v) /\ v.held = s.held \cup {r}
        /\ Value(v, r) = Value(s, r) + s.try
    BY <1>1, <2>1, AddKeeps
  <2> HIDE DEF v
  <2>3. CASE s.kind = "pool"
    <3>1. /\ u \in Transactions /\ Sound(u) /\ u.pc = "pool" /\ u.job = v.job /\ u.team = v.team
          /\ u.kind = v.kind /\ u.items = v.items /\ u.day = v.day /\ u.todo = v.todo
          /\ u.try = v.try /\ u.parked = v.parked /\ u.was = v.was
          /\ u.held = v.held /\ Value(u, r) = Value(v, r)
      <4>1. "pool" \in Pcs
        BY DEF Pcs
      <4>2. /\ u \in Transactions /\ Sound(u) /\ u.pc = "pool" /\ u.job = v.job
            /\ u.team = v.team /\ u.kind = v.kind /\ u.items = v.items /\ u.day = v.day
            /\ u.todo = v.todo /\ u.try = v.try /\ u.parked = v.parked /\ u.was = v.was
            /\ u.held = v.held /\ \A q \in Rows : Value(u, q) = Value(v, q)
        BY <2>2, <4>1, PcSet
      <4> QED BY <1>1, <4>2
    <3> HIDE DEF u
    <3>2. Backed(v)
      BY <1>1, <2>2, StillBacked DEF Stage, AtDay
    <3>3. Backed(u)
      BY <1>1, <2>2, <3>1, <3>2 DEF Backed, Waiting, Charge, AtDay, Alike
    <3>4. Taken(u) /\ Placed(u)
      BY <1>1, <2>1, <2>2, <2>3, <3>1 DEF Taken, Placed, Alike, Stage, AtDay
    <3>5. Stage(u)
      BY <1>1, <2>2, <3>1, <3>3, <3>4 DEF Stage, Alike
    <3>6. Step(x, u)
      BY <1>3, <2>3 DEF TakeTeam, u, v
    <3> QED BY <1>1, <2>2, <3>1, <3>5, <3>6, StatementInv DEF Alike
  <2>4. CASE s.kind # "pool"
    <3>1. Step(x, Reserved(v))
      BY <1>3, <2>4 DEF TakeTeam, v
    <3>2. s.kind = "month"
      BY <1>1, <2>4 DEF Kinds
    <3>3. p \in s.held
      BY <1>1, <3>2 DEF Stage, Taken
    <3>4. r \in v.held /\ p \in v.held /\ r = TeamRow(v.team, v.day) /\ p = PeriodRow(v.team)
      BY <2>2, <3>3 DEF Alike
    <3> QED BY <1>1, <2>2, <2>4, <3>1, <3>2, <3>4, ReservedInv DEF AtDay, Alike
  <2> QED BY <2>3, <2>4
<1> QED BY <1>2, <1>3

LEMMA TakePoolInv ==
  ASSUME CapsInv, NEW x \in Txs, TakePool(x)
  PROVE  CapsInv'
<1> DEFINE s == tx[x]
           r == PoolRow(s.day)
           q == TeamRow(s.team, s.day)
<1>1. /\ s \in Transactions /\ Sound(s) /\ Stage(s) /\ s.team \in Teams /\ s.try \in Nat
      /\ Value(s, r) \in Int /\ s.pc = "pool" /\ s.job # "release" /\ Free(x, r)
      /\ r \in Rows /\ q \in Rows /\ Value(s, q) \in Int
  BY TxTyped DEF TakePool, Rows
<1>2. s.kind = "pool" /\ q \in s.held /\ s.try <= Value(s, q)
  BY <1>1 DEF Stage, Placed, Taken
<1>3. CASE Value(s, r) + s.try <= PoolCeiling
  <2> DEFINE v == Add(s, r, s.try)
  <2>1. 0 <= Value(s, r) /\ Ceiling(r) = PoolCeiling
    BY <1>1 DEF Sound, Ceiling, PoolRow
  <2>2. /\ v \in Transactions /\ Sound(v) /\ Alike(s, v) /\ v.held = s.held \cup {r}
    BY <1>1, <1>3, <2>1, AddKeeps
  <2> HIDE DEF v
  <2>3. Step(x, Reserved(v))
    BY <1>3 DEF TakePool, v
  <2>4. q \in v.held /\ r \in v.held /\ q = TeamRow(v.team, v.day) /\ r = PoolRow(v.day)
    BY <1>2, <2>2 DEF Alike
  <2> QED BY <1>1, <1>2, <2>2, <2>3, <2>4, ReservedInv DEF AtDay, Alike
<1>4. CASE ~(Value(s, r) + s.try <= PoolCeiling)
  <2> DEFINE l == Locked(s, r)
             v == Add(l, q, -s.try)
  <2>1. /\ l \in Transactions /\ Sound(l) /\ Alike(s, l) /\ l.held = s.held \cup {r}
        /\ Value(l, q) = Value(s, q)
    BY <1>1, LockedKeeps
  <2> HIDE DEF l
  <2>2. /\ -s.try \in Int /\ 0 <= Value(l, q) + (-s.try) /\ Value(l, q) + (-s.try) <= Ceiling(q)
    BY <1>1, <1>2, <2>1, CeilingNat DEF Sound
  <2>3. /\ v \in Transactions /\ Sound(v) /\ Alike(l, v) /\ v.held = l.held \cup {q}
    BY <1>1, <2>1, <2>2, AddKeeps
  <2>4. Step(x, Refused(v))
    BY <1>4 DEF TakePool, l
  <2> HIDE DEF v
  <2>5. v.held = s.held \cup {r} /\ Alike(s, v)
    BY <1>2, <2>1, <2>3 DEF Alike
  <2> QED BY <1>1, <2>3, <2>4, <2>5, RefusedInv DEF AtDay
<1> QED BY <1>3, <1>4

(* What a batch past its reservations hands back, it holds.                 *)
LEMMA PastDays ==
  ASSUME NEW s \in Transactions, Stage(s), s.pc \in {"review", "warm", "domain"}
  PROVE  AllBacked(s) /\ s.todo = {} /\ s.job # "release"
         /\ \A i \in Waiting(s) : Charge(s, i) \subseteq s.held
BY DEF Stage, Placed, Backed, AllBacked, AtDay

LEMMA HandBackInv ==
  ASSUME CapsInv, NEW x \in Txs, HandBack(x)
  PROVE  CapsInv'
<1> DEFINE s == tx[x]
<1>1. /\ s \in Transactions /\ Sound(s) /\ Stage(s) /\ s.pc = "review"
      /\ s.parked \subseteq DOMAIN s.items
  BY TxTyped DEF HandBack
<1>2. AllBacked(s) /\ s.todo = {} /\ s.job # "release" /\ \A i \in Waiting(s) : Charge(s, i) \subseteq s.held
  BY <1>1, PastDays
<1>3. CASE Waiting(s) = {}
  <2> DEFINE u == [s EXCEPT !.pc = "commit"]
  <2>1. Step(x, u)
    BY <1>3 DEF HandBack
  <2>2. Goes(s, u) /\ u.pc = "commit" /\ u.todo = {} /\ u.parked = s.parked
    BY <1>1, <1>2 DEF Goes, Transactions, Pcs
  <2> HIDE DEF u
  <2>3. Stage(u) /\ Sound(u)
    BY <1>1, <1>2, <2>2, GoesSound DEF Goes, Stage, Placed, Backed, Taken, AtDay, AllBacked, Waiting, Charge
  <2>4. \A y \in Txs \ {x} : u.held \cap tx[y].held = {}
    BY <2>2 DEF Goes, CapsInv
  <2> QED BY <1>2, <2>1, <2>2, <2>3, <2>4, StepInv DEF Goes, Step
<1>4. CASE Waiting(s) # {}
  <2> DEFINE i == CHOOSE i \in Waiting(s) : \A j \in Waiting(s) : i <= j
             u == Returned(s, i)
  <2>1. Step(x, u)
    BY <1>4 DEF HandBack
  <2>2. i \in Waiting(s)
    <3>1. Waiting(s) \in SUBSET Nat
      BY <1>1 DEF Waiting, Transactions
    <3> QED BY <1>4, <3>1, Least
  <2> HIDE DEF i
  <2>3. /\ u \in Transactions /\ Sound(u) /\ u.held = s.held
        /\ u.pc = s.pc /\ u.job = s.job /\ u.team = s.team /\ u.kind = s.kind
        /\ u.items = s.items /\ u.was = s.was /\ u.todo = s.todo
        /\ u.parked = s.parked \cup {i}
    BY <1>1, <1>2, <2>2, ReturnedKeeps
  <2> HIDE DEF u
  <2>4. Waiting(u) \subseteq Waiting(s) /\ \A j : Charge(u, j) = Charge(s, j)
    BY <2>3 DEF Waiting, Charge
  <2>5. Stage(u)
    BY <1>1, <1>2, <2>2, <2>3, <2>4 DEF Stage, Placed, Backed, Taken, AtDay, Waiting
  <2>6. \A y \in Txs \ {x} : u.held \cap tx[y].held = {}
    BY <2>3 DEF CapsInv
  <2> QED BY <1>2, <2>1, <2>3, <2>5, <2>6, StepInv DEF Step
<1> QED BY <1>3, <1>4

(* A refused warm-up: a rollback, or the unit goes back and the item parks. *)
LEMMA HeldInv ==
  ASSUME CapsInv, NEW x \in Txs, NEW r, Free(x, r), tx[x].pc \in {"warm", "domain"},
         NEW v \in Transactions, Sound(v), Alike(tx[x], v),
         v.held = tx[x].held \cup {r}, Step(x, Held(v))
  PROVE  CapsInv'
<1> DEFINE s == tx[x]
<1>1. /\ s \in Transactions /\ Stage(s) /\ s.parked \subseteq DOMAIN s.items
      /\ s.at \in Waiting(s)
  BY TxTyped DEF Stage, Placed
<1>2. AllBacked(s) /\ s.todo = {} /\ s.job # "release"
      /\ \A i \in Waiting(s) : Charge(s, i) \subseteq s.held
  BY <1>1, PastDays
<1>3. CASE v.job = "drain"
  BY <1>3, IdleInv DEF Held
<1>4. CASE v.job # "drain"
  <2> DEFINE u == Returned(v, v.at)
  <2>1. /\ v.at \in Waiting(v) /\ Charge(v, v.at) \subseteq v.held /\ v.parked \subseteq DOMAIN v.items
        /\ Waiting(v) = Waiting(s) /\ \A i : Charge(v, i) = Charge(s, i)
    BY <1>1, <1>2 DEF Alike, Waiting, Charge
  <2>2. /\ u \in Transactions /\ Sound(u) /\ u.held = v.held
        /\ u.pc = v.pc /\ u.job = v.job /\ u.team = v.team /\ u.kind = v.kind
        /\ u.items = v.items /\ u.was = v.was /\ u.todo = v.todo
        /\ u.parked = v.parked \cup {v.at}
    BY <2>1, ReturnedKeeps
  <2>3. Step(x, NextItem(u))
    BY <1>4 DEF Held
  <2> HIDE DEF u
  <2>4. Waiting(u) \subseteq Waiting(v) /\ \A i : Charge(u, i) = Charge(v, i)
    BY <2>2 DEF Waiting, Charge
  <2>5. AllBacked(u) /\ u.todo = {} /\ u.job # "release" /\ u.parked \subseteq DOMAIN u.items
    BY <1>2, <2>1, <2>2, <2>4 DEF AllBacked, Alike, Waiting
  <2>6. Goes(u, NextItem(u)) /\ Stage(NextItem(u))
    BY <2>2, <2>5, NextItemStage
  <2>7. Sound(NextItem(u))
    BY <2>2, <2>6, GoesSound
  <2> QED BY <2>2, <2>3, <2>6, <2>7, StatementInv DEF Goes, Alike
<1> QED BY <1>3, <1>4

LEMMA TakeWarmInv ==
  ASSUME CapsInv, NEW x \in Txs, TakeWarm(x)
  PROVE  CapsInv'
<1> DEFINE s == tx[x]
           r == WarmRow(s.team, s.items[s.at].day)
<1>1. /\ s \in Transactions /\ Sound(s) /\ Stage(s) /\ s.team \in Teams
      /\ s.pc = "warm" /\ Free(x, r) /\ s.at \in Waiting(s) /\ s.parked \subseteq DOMAIN s.items
  BY TxTyped DEF TakeWarm, Stage, Placed
<1>2. r \in Rows
  <2>1. s.items \in Seq(Items) /\ s.at \in DOMAIN s.items
    BY <1>1 DEF Transactions, Waiting
  <2>2. s.items[s.at] \in Items
    BY <2>1
  <2> QED BY <1>1, <2>2 DEF Items, Rows
<1>3. /\ AllBacked(s) /\ s.todo = {} /\ s.job # "release"
      /\ \A i \in Waiting(s) : Charge(s, i) \subseteq s.held
  BY <1>1, PastDays
<1>4. Value(s, r) \in Int /\ 0 <= Value(s, r) /\ Ceiling(r) = WarmPool
  BY <1>1, <1>2, TxTyped DEF Sound, Ceiling, WarmRow
<1>5. CASE Value(s, r) + 1 <= WarmPool
  <2> DEFINE v == Add(s, r, 1)
             u == [v EXCEPT !.pc = "domain"]
  <2>1. /\ v \in Transactions /\ Sound(v) /\ Alike(s, v) /\ v.held = s.held \cup {r}
        /\ Value(v, r) = Value(s, r) + 1
    <3>1. /\ s \in Transactions /\ Sound(s) /\ r \in Rows /\ Value(s, r) + 1 <= Ceiling(r)
          /\ 1 \in Int /\ 0 <= Value(s, r) + 1
      BY <1>1, <1>2, <1>4, <1>5
    <3> HIDE DEF s, r
    <3> QED BY <3>1, AddKeeps
  <2> HIDE DEF v
  <2>2. /\ u \in Transactions /\ Sound(u) /\ u.pc = "domain" /\ u.job = v.job /\ u.team = v.team
        /\ u.kind = v.kind /\ u.items = v.items /\ u.todo = v.todo
        /\ u.parked = v.parked /\ u.was = v.was /\ u.at = v.at
        /\ u.held = v.held /\ Value(u, r) = Value(v, r)
    <3>1. "domain" \in Pcs
      BY DEF Pcs
    <3>2. /\ u \in Transactions /\ Sound(u) /\ u.pc = "domain" /\ u.job = v.job
          /\ u.team = v.team /\ u.kind = v.kind /\ u.items = v.items
          /\ u.todo = v.todo /\ u.parked = v.parked /\ u.was = v.was /\ u.at = v.at
          /\ u.held = v.held /\ \A q \in Rows : Value(u, q) = Value(v, q)
      BY <2>1, <3>1, PcSet
    <3> QED BY <1>2, <3>2
  <2>3. Step(x, u)
    BY <1>5 DEF TakeWarm, v
  <2> HIDE DEF u
  <2>4. Waiting(u) = Waiting(s) /\ \A i : Charge(u, i) = Charge(s, i)
    BY <2>1, <2>2 DEF Waiting, Charge, Alike
  <2>5. Taken(u)
    <3>1. /\ u.pc = "domain" /\ u.at = s.at /\ u.items = s.items /\ u.team = s.team
          /\ r \in u.held /\ 1 <= Value(u, r)
      BY <1>4, <2>1, <2>2 DEF Alike
    <3> QED BY <3>1 DEF Taken
  <2>6. Backed(u) /\ Placed(u)
    BY <1>1, <1>3, <2>1, <2>2, <2>4 DEF Backed, Placed, Alike, AtDay
  <2>7. Stage(u)
    BY <1>3, <2>1, <2>2, <2>5, <2>6 DEF Stage, Alike
  <2> QED BY <1>1, <2>1, <2>2, <2>3, <2>7, StatementInv DEF Alike
<1>6. CASE ~(Value(s, r) + 1 <= WarmPool)
  <2>1. /\ Locked(s, r) \in Transactions /\ Sound(Locked(s, r)) /\ Alike(s, Locked(s, r))
        /\ Locked(s, r).held = s.held \cup {r}
    BY <1>1, <1>2, LockedKeeps
  <2>2. Step(x, Held(Locked(s, r)))
    BY <1>6 DEF TakeWarm
  <2> QED BY <1>1, <2>1, <2>2, HeldInv
<1> QED BY <1>5, <1>6

LEMMA TakeDomainInv ==
  ASSUME CapsInv, NEW x \in Txs, TakeDomain(x)
  PROVE  CapsInv'
<1> DEFINE s == tx[x]
           i == s.items[s.at]
           r == DomainRow(i.key, i.day)
           w == WarmRow(s.team, i.day)
<1>1. /\ s \in Transactions /\ Sound(s) /\ Stage(s) /\ s.team \in Teams
      /\ s.pc = "domain" /\ Free(x, r) /\ s.at \in Waiting(s) /\ s.parked \subseteq DOMAIN s.items
  BY TxTyped DEF TakeDomain, Stage, Placed
<1>2. r \in Rows /\ w \in Rows
  <2>1. s.items \in Seq(Items) /\ s.at \in DOMAIN s.items
    BY <1>1 DEF Transactions, Waiting
  <2>2. i \in Items
    BY <2>1
  <2>3. i.day \in Days /\ i.key \in Keys
    BY <2>2 DEF Items
  <2> HIDE DEF i
  <2> QED BY <1>1, <2>3 DEF Rows
<1>3. /\ AllBacked(s) /\ s.todo = {} /\ s.job # "release"
  BY <1>1, PastDays
<1>4. /\ Value(s, r) \in Int /\ 0 <= Value(s, r) /\ Ceiling(r) = WarmCap
      /\ Value(s, w) \in Int /\ Value(s, w) <= Ceiling(w) /\ Ceiling(w) \in Nat
  BY <1>1, <1>2, TxTyped, CeilingNat DEF Sound, Ceiling, DomainRow
<1>5. w \in s.held /\ 1 <= Value(s, w)
  BY <1>1, <1>3 DEF Stage, Taken
<1> HIDE DEF i, r, w
<1>6. CASE Value(s, r) + 1 <= WarmCap
  <2> DEFINE v == Add(s, r, 1)
  <2>1. /\ v \in Transactions /\ Sound(v) /\ Alike(s, v) /\ v.held = s.held \cup {r}
    BY <1>1, <1>2, <1>4, <1>6, AddKeeps
  <2>2. Step(x, NextItem(v))
    BY <1>6 DEF TakeDomain, i, r
  <2> HIDE DEF v
  <2>3. AllBacked(v) /\ v.todo = {} /\ v.job # "release" /\ v.parked \subseteq DOMAIN v.items
    BY <1>1, <1>3, <2>1 DEF AllBacked, Alike, Waiting, Charge
  <2>4. Goes(v, NextItem(v)) /\ Stage(NextItem(v))
    BY <2>1, <2>3, NextItemStage
  <2>5. Sound(NextItem(v))
    BY <2>1, <2>4, GoesSound
  <2> QED BY <1>1, <2>1, <2>2, <2>4, <2>5, StatementInv DEF Goes, Alike
<1>7. CASE ~(Value(s, r) + 1 <= WarmCap)
  <2> DEFINE l == Locked(s, r)
             v == Add(l, w, -1)
  <2>1. /\ l \in Transactions /\ Sound(l) /\ Alike(s, l) /\ l.held = s.held \cup {r}
        /\ Value(l, w) = Value(s, w)
    BY <1>1, <1>2, LockedKeeps
  <2>2. Step(x, Held(v))
    BY <1>7 DEF TakeDomain, i, r, w
  <2> HIDE DEF l
  <2>3. -1 \in Int /\ 0 <= Value(l, w) + (-1) /\ Value(l, w) + (-1) <= Ceiling(w)
    BY <1>4, <1>5, <2>1
  <2>4. /\ v \in Transactions /\ Sound(v) /\ Alike(l, v) /\ v.held = l.held \cup {w}
    BY <1>2, <2>1, <2>3, AddKeeps
  <2> HIDE DEF v
  <2>5. v.held = s.held \cup {r} /\ Alike(s, v)
    BY <1>5, <2>1, <2>4 DEF Alike
  <2> QED BY <1>1, <2>2, <2>4, <2>5, HeldInv
<1> QED BY <1>6, <1>7

(* A unit of a release goes back, on the rows of the plan the team has now. *)
LEMMA ReleaseInv ==
  ASSUME CapsInv, NEW x \in Txs, NEW r \in Rows, Free(x, r), tx[x].job = "release",
         tx[x].pc \in AtDay, NEW p \in {"team", "pool", "commit"},
         p = "pool" => tx[x].kind = "pool", Step(x, [GiveBack(tx[x], r) EXCEPT !.pc = p])
  PROVE  CapsInv'
<1> DEFINE s == tx[x]
           v == GiveBack(s, r)
           u == [v EXCEPT !.pc = p]
<1>1. s \in Transactions /\ Sound(s) /\ Stage(s)
  BY TxTyped
<1>2. v \in Transactions /\ Sound(v) /\ Alike(s, v) /\ v.held = s.held \cup {r}
  BY <1>1, GiveBackKeeps
<1> HIDE DEF v
<1>3. p \in Pcs
  BY DEF Pcs
<1>4. /\ u \in Transactions /\ Sound(u) /\ u.pc = p /\ u.job = v.job /\ u.team = v.team
      /\ u.kind = v.kind /\ u.items = v.items /\ u.todo = v.todo
      /\ u.parked = v.parked /\ u.was = v.was /\ u.held = v.held
  BY <1>2, <1>3, PcSet
<1>5. Step(x, u)
  BY DEF v
<1> HIDE DEF u
<1>6. s.items = <<>> /\ s.parked \subseteq DOMAIN s.items /\ s.todo = {}
  BY <1>1 DEF Stage, Placed
<1>7. Stage(u)
  BY <1>2, <1>4, <1>6 DEF Stage, Placed, Backed, Waiting, Alike, AtDay
<1>8. s.pc # "idle"
  BY DEF AtDay
<1> QED BY <1>2, <1>4, <1>5, <1>7, <1>8, StatementInv DEF Alike

LEMMA BeginInv ==
  ASSUME CapsInv, NEW x \in Txs, NEW job \in {"accept", "drain"}, NEW t \in Teams,
         NEW review \in BOOLEAN, NEW items \in Batches[t], Begin(x, job, t, items, review),
         PlansOK
  PROVE  CapsInv'
<1> DEFINE s == [Idle EXCEPT !.job = job, !.team = t, !.kind = plan[t], !.items = items,
                             !.todo = {items[i].day : i \in DOMAIN items}, !.review = review]
           days == {items[i].day : i \in DOMAIN items}
<1>1. items \in Seq(Items) /\ plan[t] \in Kinds
  BY CountersAssumption DEF CountersAssumption, PlansOK
<1>2. days \subseteq Days
  <2>1. \A i \in DOMAIN items : items[i] \in Items
    BY <1>1
  <2> QED BY <2>1 DEF Items
<1>3. Idle \in Transactions /\ Sound(Idle) /\ Stage(Idle) /\ Idle.held = {} /\ Idle.pc = "idle"
  BY IdleOk DEF CapsInv
<1> HIDE DEF days
<1>4. s = [Idle EXCEPT !.job = job, !.team = t, !.kind = plan[t], !.items = items,
                       !.todo = days, !.review = review]
  BY DEF days
<1>5. /\ s \in Transactions /\ s.job = job /\ s.items = items /\ s.todo = days
      /\ s.delta = Idle.delta /\ s.held = Idle.held /\ s.parked = Idle.parked
  BY <1>1, <1>2, <1>3, <1>4 DEF Transactions, Jobs
<1>6. tx' = [tx EXCEPT ![x] = NextDay(s)] /\ UNCHANGED <<count, out>>
  BY DEF Begin
<1> HIDE DEF s
<1>7. Idle.parked = {}
  BY DEF Idle
<1>8. Sound(s)
  BY <1>3, <1>5 DEF Sound, Value
<1>9. AllBacked(s) /\ s.parked \subseteq DOMAIN s.items /\ s.job # "release"
  BY <1>5, <1>7 DEF AllBacked, Waiting, days
<1>10. s.kind = "month" \/ s.kind = "pool"
  BY <1>5 DEF Transactions, Kinds
<1>11. Goes(s, NextDay(s)) /\ Stage(NextDay(s))
  BY <1>5, <1>9, <1>10, NextDayStage
<1>12. Sound(NextDay(s))
  BY <1>8, <1>11, GoesSound
<1>13. \A y \in Txs \ {x} : NextDay(s).held \cap tx[y].held = {}
  BY <1>3, <1>5, <1>11 DEF Goes
<1> QED BY <1>6, <1>9, <1>11, <1>12, <1>13, StepInv DEF Goes

LEMMA BeginReleaseInv ==
  ASSUME CapsInv, PlansOK, NEW x \in Txs, NEW t \in Teams, NEW k \in Kinds, BeginRelease(x, t, k)
  PROVE  CapsInv'
<1> DEFINE f == IF plan[t] = "month" THEN "period" ELSE "team"
           u == [Idle EXCEPT !.job = "release", !.team = t, !.kind = plan[t], !.was = k, !.pc = f]
<1>1. Idle \in Transactions /\ Sound(Idle) /\ Stage(Idle) /\ Idle.held = {} /\ Idle.pc = "idle"
      /\ Idle.items = <<>> /\ Idle.parked = {} /\ Idle.todo = {}
  BY IdleOk DEF CapsInv, Idle
<1>2. plan[t] \in Kinds /\ f \in Pcs /\ f \in {"period", "team"}
  BY DEF PlansOK, Pcs
<1>3. tx' = [tx EXCEPT ![x] = u] /\ UNCHANGED <<count, out>>
  <2> DEFINE s == [Idle EXCEPT !.job = "release", !.team = t, !.kind = plan[t], !.was = k]
  <2>1. s.kind = plan[t]
    BY <1>1 DEF Transactions
  <2>2. [s EXCEPT !.pc = First(s)] = u
    BY <1>1, <2>1 DEF First, Transactions
  <2> QED BY <2>2 DEF BeginRelease
<1>4. /\ u \in Transactions /\ u.pc = f /\ u.job = "release" /\ u.team = t /\ u.was = k
      /\ u.kind = plan[t] /\ u.items = <<>> /\ u.parked = {} /\ u.held = {} /\ u.delta = Idle.delta
      /\ u.todo = {}
  BY <1>1, <1>2 DEF Transactions, Jobs
<1> HIDE DEF u
<1>5. Sound(u)
  BY <1>1, <1>4 DEF Sound, Value
<1>6. Stage(u)
  BY <1>2, <1>4 DEF Stage, Placed, Backed, Waiting, AtDay, f
<1>7. tx' \in [Txs -> Transactions] /\ \A y \in Txs : tx'[y] = IF y = x THEN u ELSE tx[y]
  BY <1>3, <1>4 DEF CapsInv
<1>8. \A y \in Txs : (Sound(tx[y]) /\ Stage(tx[y]))'
  <2> TAKE y \in Txs
  <2>1. Sound(tx'[y]) /\ Stage(tx'[y])
    BY <1>5, <1>6, <1>7 DEF CapsInv
  <2> QED BY <1>3, <2>1 DEF Sound, Stage, Placed, Backed, Taken, Value, Waiting, Charge
<1>9. \A y \in Txs, z \in Txs : y # z => tx'[y].held \cap tx'[z].held = {}
  BY <1>4, <1>7 DEF CapsInv
<1>10. \A v \in Teams, l \in Kinds : Cardinality(Giving(v, l)') <= out'[v][Today][l]
  <2> TAKE v \in Teams, l \in Kinds
  <2>1. IsFiniteSet(Giving(v, l)) /\ x \notin Giving(v, l)
    BY FS_Subset, CountersAssumption DEF CountersAssumption, Giving, BeginRelease
  <2>2. Cardinality(Giving(v, l)) \in Nat /\ out[v][Today][l] \in Nat
    BY <2>1, FS_CardinalityType, CountersAssumption DEF CapsInv, CountersAssumption
  <2>3. CASE v = t /\ l = k
    <3>1. Giving(v, l)' = Giving(v, l) \cup {x}
      BY <1>2, <1>4, <1>7, <2>3 DEF Giving
    <3>2. Cardinality(Giving(v, l)') = Cardinality(Giving(v, l)) + 1
      BY <2>1, <3>1, FS_AddElement
    <3>3. out[v][Today][l] > Cardinality(Giving(v, l))
      BY <2>3 DEF BeginRelease, Giving
    <3> QED BY <1>3, <2>2, <3>2, <3>3
  <2>4. CASE ~(v = t /\ l = k)
    <3>1. Giving(v, l)' = Giving(v, l)
      BY <1>4, <1>7, <2>1, <2>4 DEF Giving
    <3> QED BY <1>3, <3>1 DEF CapsInv
  <2> QED BY <2>3, <2>4
<1> QED BY <1>3, <1>7, <1>8, <1>9, <1>10 DEF CapsInv, WithinCaps

LEMMA CommitInv ==
  ASSUME CapsInv, NEW x \in Txs, Commit(x)
  PROVE  CapsInv'
<1> DEFINE s == tx[x]
<1>1. /\ s \in Transactions /\ Sound(s) /\ Stage(s) /\ s.pc = "commit" /\ s.team \in Teams
      /\ s.was \in Kinds /\ s.kind \in Kinds /\ s.delta \in [Rows -> Int]
  BY TxTyped DEF Commit, Transactions
<1>2. /\ tx' = [tx EXCEPT ![x] = Idle] /\ count' = [r \in Rows |-> Value(s, r)]
  BY DEF Commit
<1>3. \A r \in Rows : count'[r] \in Nat /\ count'[r] <= Ceiling(r)
  BY <1>1, <1>2 DEF Sound, Value, CapsInv
<1>4. count' \in [Rows -> Nat] /\ WithinCaps'
  BY <1>2, <1>3 DEF WithinCaps
<1>5. Idle \in Transactions /\ Idle.held = {} /\ Idle.pc = "idle" /\ Idle.job = "accept"
  BY IdleOk DEF CapsInv, Idle
<1>6. tx' \in [Txs -> Transactions] /\ \A y \in Txs : tx'[y] = IF y = x THEN Idle ELSE tx[y]
  BY <1>2, <1>5 DEF CapsInv
<1>7. \A y \in Txs, z \in Txs : y # z => tx'[y].held \cap tx'[z].held = {}
  BY <1>5, <1>6 DEF CapsInv
<1>8. (Sound(Idle) /\ Stage(Idle))'
  <2>1. \A r \in Rows : Idle.delta[r] = 0
    BY DEF Idle
  <2>2. \A r \in Rows : 0 <= count'[r] + Idle.delta[r] /\ count'[r] + Idle.delta[r] <= Ceiling(r)
    BY <1>3, <2>1
  <2>3. Stage(Idle)
    BY IdleOk DEF CapsInv
  <2>4. Idle.job # "release" /\ Idle.pc = "idle"
    BY <1>5
  <2> QED BY <2>1, <2>2, <2>3, <2>4 DEF Sound, Value, Stage, Placed, Backed, Taken, Waiting, Charge
<1>9. \A y \in Txs \ {x} : (Sound(tx[y]) /\ Stage(tx[y]))'
  <2> TAKE y \in Txs \ {x}
  <2>1. tx'[y] = tx[y] /\ Sound(tx[y]) /\ Stage(tx[y]) /\ tx[y] \in Transactions
    BY <1>6 DEF CapsInv
  <2>2. \A r \in tx[y].held : count'[r] = count[r]
    <3> SUFFICES ASSUME NEW r \in tx[y].held PROVE count'[r] = count[r]
      OBVIOUS
    <3>1. r \in Rows /\ r \notin s.held
      BY <2>1 DEF Transactions, CapsInv
    <3>2. s.delta[r] = 0 /\ count[r] \in Nat
      BY <1>1, <3>1 DEF Sound, CapsInv
    <3> QED BY <1>2, <3>1, <3>2 DEF Value
  <2>3. \A r \in Rows : /\ 0 <= count'[r] + tx[y].delta[r]
                        /\ count'[r] + tx[y].delta[r] <= Ceiling(r)
    <3> TAKE r \in Rows
    <3>1. CASE r \in tx[y].held
      BY <2>1, <2>2, <3>1 DEF Sound, Value
    <3>2. CASE r \notin tx[y].held
      <4>1. tx[y].delta[r] = 0
        BY <2>1, <3>2 DEF Sound
      <4> QED BY <1>3, <4>1
    <3> QED BY <3>1, <3>2
  <2>4. (Sound(tx[y]))'
    BY <2>1, <2>3 DEF Sound, Value
  <2>5. Taken(tx[y]) => Taken(tx[y])'
    <3> DEFINE u == tx[y]
    <3>1. \A r \in u.held : count'[r] + u.delta[r] = count[r] + u.delta[r]
      BY <2>2
    <3> QED BY <2>1, <3>1 DEF Taken, Value
  <2>6. (Placed(tx[y]) => Placed(tx[y])') /\ (Backed(tx[y]) => Backed(tx[y])')
    BY <2>1 DEF Placed, Backed, Waiting, Charge
  <2>7. Stage(tx[y])'
    BY <2>1, <2>5, <2>6 DEF Stage
  <2> QED BY <2>4, <2>7
<1>10. CASE s.job = "release"
  <2>1. out' = [out EXCEPT ![s.team][Today][s.was] = @ - 1]
    BY <1>10 DEF Commit
  <2>2. x \in Giving(s.team, s.was) /\ \A t \in Teams, k \in Kinds : IsFiniteSet(Giving(t, k))
    BY <1>1, <1>10, FS_Subset, CountersAssumption DEF CountersAssumption, Giving
  <2>3. \A t \in Teams, k \in Kinds : Giving(t, k)' = Giving(t, k) \ {x}
    BY <1>5, <1>6 DEF Giving
  <2>4. \A t \in Teams, k \in Kinds :
          /\ Cardinality(Giving(t, k)) \in Nat
          /\ Cardinality(Giving(t, k)') \in Nat
          /\ Cardinality(Giving(t, k)') = IF x \in Giving(t, k) THEN Cardinality(Giving(t, k)) - 1
                                                                ELSE Cardinality(Giving(t, k))
    BY <2>2, <2>3, FS_RemoveElement, FS_CardinalityType
  <2>5. Today \in Days /\ out \in [Teams -> [Days -> [Kinds -> Nat]]]
    BY CountersAssumption DEF CountersAssumption, CapsInv
  <2>6. out[s.team][Today][s.was] - 1 \in Nat
    <3>1. Cardinality(Giving(s.team, s.was)) - 1 \in Nat
      BY <1>1, <2>2, <2>4
    <3>2. Cardinality(Giving(s.team, s.was)) <= out[s.team][Today][s.was]
          /\ out[s.team][Today][s.was] \in Nat /\ Cardinality(Giving(s.team, s.was)) \in Nat
      BY <1>1, <2>4, <2>5 DEF CapsInv
    <3> QED BY <3>1, <3>2
  <2>7. out' \in [Teams -> [Days -> [Kinds -> Nat]]]
    BY <1>1, <2>1, <2>5, <2>6
  <2>8. \A t \in Teams, k \in Kinds :
          out'[t][Today][k] = IF t = s.team /\ k = s.was THEN out[t][Today][k] - 1 ELSE out[t][Today][k]
    BY <1>1, <2>1, <2>5
  <2>9. \A t \in Teams, k \in Kinds : Cardinality(Giving(t, k)') <= out'[t][Today][k]
    <3> TAKE t \in Teams, k \in Kinds
    <3>1. x \in Giving(t, k) <=> t = s.team /\ k = s.was
      BY <1>1, <1>10 DEF Giving
    <3>2. Cardinality(Giving(t, k)) <= out[t][Today][k] /\ out[t][Today][k] \in Nat
      BY <2>5 DEF CapsInv
    <3> QED BY <2>4, <2>8, <3>1, <3>2
  <2> QED BY <1>4, <1>6, <1>7, <1>8, <1>9, <2>7, <2>9 DEF CapsInv
<1>11. CASE s.job # "release"
  <2> DEFINE more(d) == [k \in Kinds |-> out[s.team][d][k]
                           + IF k = s.kind THEN Cardinality(Group(s, d) \ s.parked) ELSE 0]
  <2>1. out' = [out EXCEPT ![s.team] = [d \in Days |-> more(d)]]
    BY <1>11 DEF Commit
  <2>2. out \in [Teams -> [Days -> [Kinds -> Nat]]] /\ Today \in Days
    BY CountersAssumption DEF CountersAssumption, CapsInv
  <2>3. \A d \in Days : Cardinality(Group(s, d) \ s.parked) \in Nat
    <3> TAKE d \in Days
    <3>1. Group(s, d) \ s.parked \in SUBSET Group(s, d)
      OBVIOUS
    <3> QED BY <1>1, <3>1, GroupSize
  <2>4. \A d \in Days : /\ more(d) \in [Kinds -> Nat]
                        /\ \A k \in Kinds : out[s.team][d][k] <= more(d)[k]
    BY <1>1, <2>2, <2>3
  <2> HIDE DEF more
  <2>5. /\ out' \in [Teams -> [Days -> [Kinds -> Nat]]]
        /\ \A t \in Teams, k \in Kinds : out[t][Today][k] <= out'[t][Today][k]
    BY <1>1, <2>1, <2>2, <2>4
  <2>6. \A t \in Teams, k \in Kinds : Cardinality(Giving(t, k)') <= out'[t][Today][k]
    <3> TAKE t \in Teams, k \in Kinds
    <3>1. Giving(t, k)' = Giving(t, k)
      BY <1>5, <1>6, <1>11 DEF Giving
    <3>2. IsFiniteSet(Giving(t, k))
      BY FS_Subset, CountersAssumption DEF CountersAssumption, Giving
    <3>3. Cardinality(Giving(t, k)) \in Nat /\ Cardinality(Giving(t, k)) <= out[t][Today][k]
      BY <3>2, FS_CardinalityType DEF CapsInv
    <3>4. out[t][Today][k] \in Nat /\ out'[t][Today][k] \in Nat
      BY <2>2, <2>5
    <3> QED BY <2>5, <3>1, <3>3, <3>4
  <2> QED BY <1>4, <1>6, <1>7, <1>8, <1>9, <2>5, <2>6 DEF CapsInv
<1> QED BY <1>10, <1>11

-----------------------------------------------------------------------------
(* Held together: a transaction's uncommitted sums stay within the caps     *)
(* because the rows it added to are its own until it ends.                  *)
THEOREM Counters == Spec => [](CapsInv /\ PlansOK)
<1>1. Init => CapsInv /\ PlansOK
  <2> SUFFICES ASSUME Init PROVE CapsInv /\ PlansOK
    OBVIOUS
  <2>1. count = [r \in Rows |-> 0] /\ \A r \in Rows : 0 <= Ceiling(r)
    BY CeilingNat DEF Init
  <2>2. count \in [Rows -> Nat] /\ WithinCaps
    BY <2>1 DEF WithinCaps
  <2>3. Idle \in Transactions /\ Sound(Idle) /\ Stage(Idle) /\ Idle.held = {} /\ Idle.pc = "idle"
    BY <2>2, IdleOk
  <2>4. tx = [x \in Txs |-> Idle]
    BY DEF Init
  <2>5. \A t \in Teams, k \in Kinds : Cardinality(Giving(t, k)) = 0 /\ out[t][Today][k] = 0
    <3> TAKE t \in Teams, k \in Kinds
    <3>1. Giving(t, k) = {}
      BY <2>3, <2>4 DEF Giving
    <3> QED BY <3>1, FS_EmptySet, CountersAssumption DEF Init, CountersAssumption
  <2>6. PlansOK /\ out \in [Teams -> [Days -> [Kinds -> Nat]]]
    BY CountersAssumption DEF Init, PlansOK, CountersAssumption
  <2> QED BY <2>2, <2>3, <2>4, <2>5, <2>6 DEF CapsInv
<1>2. CapsInv /\ PlansOK /\ [Next]_vars => CapsInv'
  <2> SUFFICES ASSUME CapsInv, PlansOK, [Next]_vars PROVE CapsInv'
    OBVIOUS
  <2>1. ASSUME NEW x \in Txs, NEW t \in Teams, NEW job \in {"accept", "drain"},
               NEW review \in BOOLEAN, NEW items \in Batches[t], Begin(x, job, t, items, review)
        PROVE  CapsInv'
    BY <2>1, BeginInv
  <2>2. ASSUME NEW x \in Txs, NEW t \in Teams, NEW k \in Kinds, BeginRelease(x, t, k)
        PROVE  CapsInv'
    BY <2>2, BeginReleaseInv
  <2>3. ASSUME NEW x \in Txs, TakePeriod(x) \/ TakeTeam(x) \/ TakePool(x) \/ HandBack(x)
                              \/ TakeWarm(x) \/ TakeDomain(x) \/ Commit(x)
        PROVE  CapsInv'
    BY <2>3, TakePeriodInv, TakeTeamInv, TakePoolInv, HandBackInv, TakeWarmInv,
       TakeDomainInv, CommitInv
  <2>4. ASSUME NEW x \in Txs, ReleasePeriod(x) PROVE CapsInv'
    <3>1. PeriodRow(tx[x].team) \in Rows /\ tx[x].pc \in AtDay
      BY <2>4, TxTyped DEF Rows, ReleasePeriod, AtDay
    <3> QED BY <2>4, <3>1, ReleaseInv DEF ReleasePeriod
  <2>5. ASSUME NEW x \in Txs, ReleaseTeam(x) PROVE CapsInv'
    <3>1. TeamRow(tx[x].team, Today) \in Rows /\ tx[x].pc \in AtDay
      BY <2>5, TxTyped, CountersAssumption DEF Rows, ReleaseTeam, AtDay, CountersAssumption
    <3> DEFINE p == IF tx[x].kind = "pool" THEN "pool" ELSE "commit"
    <3>2. Step(x, [GiveBack(tx[x], TeamRow(tx[x].team, Today)) EXCEPT !.pc = p])
      <4>1. GiveBack(tx[x], TeamRow(tx[x].team, Today)).kind = tx[x].kind
        BY <3>1, GiveBackKeeps, TxTyped DEF Alike
      <4> QED BY <2>5, <4>1 DEF ReleaseTeam
    <3> QED BY <2>5, <3>1, <3>2, ReleaseInv DEF ReleaseTeam
  <2>6. ASSUME NEW x \in Txs, ReleasePool(x) PROVE CapsInv'
    <3>1. PoolRow(Today) \in Rows /\ tx[x].pc \in AtDay
      BY <2>6, CountersAssumption DEF Rows, ReleasePool, AtDay, CountersAssumption
    <3> QED BY <2>6, <3>1, ReleaseInv DEF ReleasePool
  <2>7. ASSUME NEW x \in Txs, Abort(x) PROVE CapsInv'
    BY <2>7, IdleInv DEF Abort
  <2>8. ASSUME UNCHANGED <<count, tx, out>> PROVE CapsInv'
    <3>1. \A x \in Txs : (Sound(tx[x]) /\ Stage(tx[x]))'
      <4> TAKE x \in Txs
      <4>1. Sound(tx[x]) /\ Stage(tx[x]) /\ tx'[x] = tx[x]
        BY <2>8 DEF CapsInv
      <4> QED BY <2>8, <4>1 DEF Sound, Stage, Placed, Backed, Taken, Value, Waiting, Charge
    <3>2. \A t, k : Giving(t, k)' = Giving(t, k)
      BY <2>8 DEF Giving
    <3> QED BY <2>8, <3>1, <3>2 DEF CapsInv, WithinCaps
  <2>9. ASSUME NEW t \in Teams, Upgrade(t) \/ Lapse(t) PROVE CapsInv'
    BY <2>8, <2>9 DEF Upgrade, Lapse
  <2>10. CASE UNCHANGED vars
    BY <2>8, <2>10 DEF vars
  <2> QED BY <2>1, <2>2, <2>3, <2>4, <2>5, <2>6, <2>7, <2>9, <2>10 DEF Next
<1>3. PlansOK /\ [Next]_vars => PlansOK'
  <2> SUFFICES ASSUME PlansOK, [Next]_vars PROVE PlansOK'
    OBVIOUS
  <2>1. ASSUME UNCHANGED <<plan, moves, lapsed>>, begun' \in {begun, begun + 1}
        PROVE  PlansOK'
    BY <2>1 DEF PlansOK
  <2>2. ASSUME NEW x \in Txs, NEW t \in Teams, NEW job \in {"accept", "drain"},
               NEW review \in BOOLEAN, NEW items \in Batches[t], Begin(x, job, t, items, review)
        PROVE  PlansOK'
    BY <2>1, <2>2 DEF Begin
  <2>3. ASSUME NEW x \in Txs, NEW t \in Teams, NEW k \in Kinds, BeginRelease(x, t, k)
        PROVE  PlansOK'
    BY <2>1, <2>3 DEF BeginRelease
  <2>4. ASSUME NEW x \in Txs, NEW s, Step(x, s) PROVE PlansOK'
    BY <2>1, <2>4 DEF Step
  <2>5. ASSUME NEW x \in Txs, TakePeriod(x) \/ TakeTeam(x) \/ TakePool(x) \/ HandBack(x)
                              \/ TakeWarm(x) \/ TakeDomain(x) \/ ReleasePeriod(x)
                              \/ ReleaseTeam(x) \/ ReleasePool(x) \/ Abort(x)
        PROVE  PlansOK'
    BY <2>4, <2>5 DEF TakePeriod, TakeTeam, TakePool, HandBack, TakeWarm, TakeDomain,
       ReleasePeriod, ReleaseTeam, ReleasePool, Abort
  <2>6. ASSUME NEW x \in Txs, Commit(x) PROVE PlansOK'
    BY <2>1, <2>6 DEF Commit
  <2>7. ASSUME NEW t \in Teams, Upgrade(t) PROVE PlansOK'
    BY <2>7 DEF Upgrade, PlansOK, Kinds
  <2>8. ASSUME NEW t \in Teams, Lapse(t) PROVE PlansOK'
    BY <2>8 DEF Lapse, PlansOK, Kinds
  <2>9. CASE UNCHANGED vars
    BY <2>1, <2>9 DEF vars
  <2> QED BY <2>2, <2>3, <2>5, <2>6, <2>7, <2>8, <2>9 DEF Next
<1> QED BY <1>1, <1>2, <1>3, PTL DEF Spec

(* Every variable has its type: no counter goes below zero, whatever is     *)
(* handed back, and no two transactions hold one row.                       *)
THEOREM CounterTyping == Spec => []TypeOK
<1>1. CapsInv /\ PlansOK => TypeOK
  BY DEF CapsInv, PlansOK, TypeOK, Transactions, Pcs, Jobs, Sound, Stage, Placed
<1> QED BY <1>1, Counters, PTL

(* No counter is ever past its ceiling, for any number of connections and   *)
(* any batches.                                                             *)
THEOREM CapsHold == Spec => []WithinCaps
<1>1. CapsInv => WithinCaps
  BY DEF CapsInv
<1> QED BY <1>1, Counters, PTL

-----------------------------------------------------------------------------
(* What a transaction locks, in which order. *)

(* The ledger rows come before the warm-up rows, and those of a day before  *)
(* those of the next: what is held while a day is reserved is no later, and *)
(* the rows of that day come team first.                                    *)
Plain(s) == \A r \in s.held : r.of \in {"period", "team", "pool"}
ByDay(s) ==
  /\ Plain(s) /\ (\A r \in s.held : r.day <= s.day) /\ (\A d \in s.todo : s.day < d)
  /\ s.pc = "period" => s.held = {} \/ PeriodRow(s.team) \in s.held
  /\ s.pc = "team" /\ s.kind = "month" => PeriodRow(s.team) \in s.held
  /\ s.pc = "pool" => \A r \in s.held : r.day = s.day => r.of = "team" \/ PoolRow(s.day) \in s.held
  /\ s.pc # "pool" => \A r \in s.held : r.day = s.day => TeamRow(s.team, s.day) \in s.held

(* Who holds a warm-up row holds the row of its team's day, and the pool's. *)
Guarded(s) ==
  \A r \in s.held :
    /\ r.of = "warm" => r.who = s.team
    /\ r.of \in {"warm", "domain"} => /\ TeamRow(s.team, r.day) \in s.held
                                      /\ s.kind = "pool" => PoolRow(r.day) \in s.held

(* The rows of domains are those of items up to n.                          *)
Upto(s, n) ==
  \A r \in s.held : r.of = "domain" =>
    \E j \in DOMAIN s.items : j <= n /\ r = DomainRow(s.items[j].key, s.items[j].day)

(* The teams of one creator are on Free, and stay there.                     *)
OnePool == MaxMoves = 0 /\ \A p \in Plans, t \in Teams : p[t] = "pool"

PoolStays == OnePool => \A t \in Teams : plan[t] = "pool"

Asked(s) == (s.items = <<>> \/ s.items \in Batches[s.team]) /\ (OnePool => s.kind = "pool")

Orderly(s) ==
  /\ Guarded(s)
  /\ s.pc \in AtDay => ByDay(s)
  /\ s.pc \in {"warm", "domain"} => Upto(s, s.at - 1)
  /\ s.job = "release" => s.day = Today
  /\ Asked(s)

OrderInv == \A x \in Txs : Orderly(tx[x])

(* What a statement does to the record of its transaction, bounds aside.    *)
Locks(s, u, rs) == u \in Transactions /\ Alike(s, u) /\ u.held = s.held \cup rs

LEMMA AddLocks ==
  ASSUME NEW s \in Transactions, NEW r \in Rows, NEW n \in Int
  PROVE  Locks(s, Add(s, r, n), {r})
<1>1. Add(s, r, n) = [s EXCEPT !.held = s.held \cup {r}, !.delta = [s.delta EXCEPT ![r] = s.delta[r] + n]]
  BY DEF Add, Locked, Transactions
<1>2. [s.delta EXCEPT ![r] = s.delta[r] + n] \in [Rows -> Int] /\ s.held \cup {r} \in SUBSET Rows
  BY DEF Transactions
<1>3. ASSUME NEW dd \in [Rows -> Int], NEW hh \in SUBSET Rows
      PROVE  [s EXCEPT !.held = hh, !.delta = dd] \in Transactions
  BY DEF Transactions
<1>4. Alike(s, Add(s, r, n)) /\ Add(s, r, n).held = s.held \cup {r}
  BY <1>1 DEF Alike, Transactions
<1> QED BY <1>1, <1>2, <1>3, <1>4 DEF Locks

LEMMA LockedLocks ==
  ASSUME NEW s \in Transactions, NEW r \in Rows
  PROVE  Locks(s, Locked(s, r), {r})
BY DEF Locked, Transactions, Alike, Locks

LEMMA GiveBackLocks ==
  ASSUME NEW s \in Transactions, NEW r \in Rows
  PROVE  Locks(s, GiveBack(s, r), {r})
BY AddLocks, LockedLocks DEF GiveBack

LEMMA ItemTyped ==
  ASSUME NEW s \in Transactions, NEW i \in DOMAIN s.items
  PROVE  s.items[i] \in Items /\ s.items[i].day \in Days /\ s.items[i].key \in Keys /\ i \in Nat
<1>1. s.items \in Seq(Items)
  BY DEF Transactions
<1>2. s.items[i] \in Items /\ i \in Nat
  BY <1>1
<1> QED BY <1>2 DEF Items

(* An item is handed back on rows that are held already.                    *)
LEMMA ReturnedLocks ==
  ASSUME NEW s \in Transactions, NEW i \in Waiting(s), Charge(s, i) \subseteq s.held
  PROVE  LET u == Returned(s, i) IN
         /\ u \in Transactions /\ u.held = s.held
         /\ u.pc = s.pc /\ u.job = s.job /\ u.team = s.team /\ u.kind = s.kind
         /\ u.items = s.items /\ u.todo = s.todo /\ u.at = s.at /\ u.day = s.day
<1> DEFINE d == s.items[i].day
           s1 == IF s.kind = "month" THEN GiveBack(s, PeriodRow(s.team)) ELSE s
           s2 == GiveBack(s1, TeamRow(s.team, d))
           s3 == IF s.kind = "pool" THEN GiveBack(s2, PoolRow(d)) ELSE s2
<1>1. d \in Days /\ s.team \in Teams /\ i \in Nat /\ s.kind \in {"pool", "month"}
  BY ItemTyped DEF Waiting, Transactions, Kinds
<1>2. TeamRow(s.team, d) \in Rows /\ PoolRow(d) \in Rows /\ PeriodRow(s.team) \in Rows
  BY <1>1 DEF Rows
<1>3. /\ TeamRow(s.team, d) \in s.held
      /\ s.kind = "pool" => PoolRow(d) \in s.held
      /\ s.kind = "month" => PeriodRow(s.team) \in s.held
  BY <1>1 DEF Charge
<1>4. s1 \in Transactions /\ Alike(s, s1) /\ s1.held = s.held
  <2>1. CASE s.kind = "month"
    <3>1. Locks(s, GiveBack(s, PeriodRow(s.team)), {PeriodRow(s.team)})
      BY <1>2, GiveBackLocks
    <3> QED BY <1>3, <2>1, <3>1 DEF Locks
  <2>2. CASE s.kind # "month"
    BY <2>2 DEF Alike
  <2> QED BY <2>1, <2>2
<1> HIDE DEF s1
<1>5. s2 \in Transactions /\ Alike(s1, s2) /\ s2.held = s.held
  <2>1. Locks(s1, s2, {TeamRow(s.team, d)})
    BY <1>2, <1>4, GiveBackLocks
  <2> QED BY <1>3, <1>4, <2>1 DEF Locks
<1> HIDE DEF s2
<1>6. s3 \in Transactions /\ Alike(s2, s3) /\ s3.held = s.held
  <2>1. CASE s.kind = "pool"
    <3>1. Locks(s2, GiveBack(s2, PoolRow(d)), {PoolRow(d)})
      BY <1>2, <1>5, GiveBackLocks
    <3> QED BY <1>3, <1>5, <2>1, <3>1 DEF Locks
  <2>2. CASE s.kind # "pool"
    BY <1>5, <2>2 DEF Alike
  <2> QED BY <2>1, <2>2
<1>7. Returned(s, i) = [s3 EXCEPT !.parked = s3.parked \cup {i}]
  BY <1>6 DEF Returned, s1, s2, s3, Transactions
<1> HIDE DEF s3
<1>8. ASSUME NEW pp \in SUBSET Nat
      PROVE  LET u == [s3 EXCEPT !.parked = pp] IN
             /\ u \in Transactions /\ u.held = s3.held
             /\ u.pc = s3.pc /\ u.job = s3.job /\ u.team = s3.team /\ u.kind = s3.kind
             /\ u.items = s3.items /\ u.todo = s3.todo /\ u.at = s3.at /\ u.day = s3.day
  BY <1>6 DEF Transactions
<1>9. s3.parked \cup {i} \in SUBSET Nat
  BY <1>1, <1>6 DEF Transactions
<1>10. Alike(s, s3)
  BY <1>4, <1>5, <1>6 DEF Alike
<1> QED BY <1>6, <1>7, <1>8, <1>9, <1>10 DEF Alike

LEMMA RowDays == \A r \in Rows : r.day \in Nat
<1> SUFFICES ASSUME NEW r \in Rows PROVE r.day \in Nat
  OBVIOUS
<1>1. Days \subseteq Nat
  BY CountersAssumption DEF CountersAssumption
<1>2. CASE \E t \in Teams, d \in Days : r = TeamRow(t, d) \/ r = WarmRow(t, d)
  BY <1>1, <1>2 DEF TeamRow, WarmRow
<1>3. CASE \E d \in Days : r = PoolRow(d)
  BY <1>1, <1>3 DEF PoolRow
<1>4. CASE \E t \in Teams : r = PeriodRow(t)
  BY <1>4 DEF PeriodRow
<1>5. CASE \E k \in Keys, d \in Days : r = DomainRow(k, d)
  BY <1>1, <1>5 DEF DomainRow
<1> QED BY <1>2, <1>3, <1>4, <1>5 DEF Rows

LEMMA HeldDays ==
  ASSUME NEW s \in Transactions
  PROVE  /\ \A r \in s.held : r \in Rows /\ r.day \in Nat
         /\ s.day \in Nat \ {0} /\ \A d \in s.todo : d \in Nat
BY RowDays, CountersAssumption DEF CountersAssumption, Transactions

(* The next item is beyond those whose domains were taken.                  *)
LEMMA NextItemOrder ==
  ASSUME NEW s \in Transactions, s.job # "release", Asked(s), Guarded(s), Upto(s, s.at)
  PROVE  Orderly(NextItem(s))
<1> DEFINE rest == {i \in Waiting(s) : i > s.at}
           u == NextItem(s)
<1>1. CASE rest = {}
  <2>1. u = [s EXCEPT !.pc = "commit"]
    BY <1>1 DEF NextItem
  <2> QED BY <2>1 DEF Orderly, Transactions, Guarded, AtDay, Asked
<1>2. CASE rest # {}
  <2> DEFINE next == CHOOSE i \in rest : \A j \in rest : i <= j
  <2>1. rest \in SUBSET Nat
    BY DEF Waiting, Transactions
  <2>2. next \in rest
    BY <1>2, <2>1, Least
  <2>3. u = [s EXCEPT !.at = next, !.pc = "warm"]
    BY <1>2 DEF NextItem
  <2>4. next \in Nat /\ next > s.at
    BY <2>1, <2>2
  <2> HIDE DEF next, rest
  <2>5. /\ u.pc = "warm" /\ u.at = next /\ u.held = s.held /\ u.items = s.items
        /\ u.team = s.team /\ u.kind = s.kind /\ u.job = s.job
    BY <2>3 DEF Transactions
  <2> HIDE DEF u
  <2>6. Upto(u, u.at - 1)
    <3>1. \A j \in DOMAIN s.items : j <= s.at => j <= next - 1
      BY <2>4, ItemTyped DEF Transactions
    <3> QED BY <2>5, <3>1 DEF Upto
  <2>7. Guarded(u) /\ Asked(u)
    BY <2>5 DEF Guarded, Asked
  <2>8. Orderly(u)
    BY <2>5, <2>6, <2>7 DEF Orderly, AtDay, Asked
  <2> QED BY <2>8 DEF u
<1> QED BY <1>1, <1>2

(* Between two days everything held is earlier than what is to come.        *)
Ready(s) ==
  /\ Plain(s) /\ \A r \in s.held, d \in s.todo : r.day < d
  /\ s.kind = "month" => s.held = {} \/ PeriodRow(s.team) \in s.held

LEMMA NextDayOrder ==
  ASSUME NEW s \in Transactions, s.job # "release", Asked(s), Ready(s)
  PROVE  Orderly(NextDay(s))
<1> DEFINE u == NextDay(s)
<1>1. Guarded(s) /\ Upto(s, s.at)
  BY DEF Ready, Plain, Guarded, Upto
<1>2. CASE s.todo = {} /\ s.review
  <2>1. u = [s EXCEPT !.pc = "review"]
    BY <1>2 DEF NextDay
  <2> QED BY <1>1, <2>1 DEF Orderly, Transactions, Guarded, AtDay, Asked
<1>3. CASE s.todo = {} /\ ~s.review
  BY <1>1, <1>3, NextItemOrder DEF NextDay
<1>4. CASE s.todo # {}
  <2> DEFINE d == Earliest(s)
             n == Cardinality(Group(s, d))
  <2>1. s.todo \in SUBSET Nat
    BY CountersAssumption DEF CountersAssumption, Transactions
  <2>2. d \in s.todo /\ \A e \in s.todo : d <= e
    BY <1>4, <2>1, Least DEF Earliest
  <2>3. u = [s EXCEPT !.day = d, !.todo = s.todo \ {d}, !.try = n, !.pc = First(s)]
    BY <1>4 DEF NextDay, Transactions
  <2>4. d \in Nat /\ s.kind \in {"pool", "month"}
    BY <2>1, <2>2 DEF Transactions, Kinds
  <2> HIDE DEF d, n
  <2>5. /\ u.pc = First(s) /\ u.day = d /\ u.todo = s.todo \ {d} /\ u.held = s.held
        /\ u.items = s.items /\ u.team = s.team /\ u.kind = s.kind /\ u.job = s.job
    BY <2>3 DEF Transactions
  <2> HIDE DEF u
  <2>6. \A r \in u.held : r.day < u.day
    BY <2>2, <2>5 DEF Ready
  <2>7. (\A e \in u.todo : u.day < e) /\ \A r \in u.held : r.day \in Int
    <3>1. \A r \in s.held : r.day \in Int
      BY HeldDays
    <3> QED BY <2>1, <2>2, <2>5, <3>1
  <2>8. ByDay(u)
    BY <2>4, <2>5, <2>6, <2>7 DEF ByDay, Ready, Plain, First
  <2>9. Guarded(u) /\ Asked(u) /\ u.pc \in {"period", "team"}
    BY <1>1, <2>5 DEF Guarded, Asked, First
  <2>10. Orderly(u)
    BY <2>5, <2>8, <2>9 DEF Orderly, Asked
  <2> QED BY <2>10 DEF u
<1> QED BY <1>2, <1>3, <1>4

(* The day at hand, once its team's row is held.                            *)
Mid(s) ==
  /\ Plain(s) /\ (\A r \in s.held : r.day <= s.day) /\ (\A d \in s.todo : s.day < d)
  /\ TeamRow(s.team, s.day) \in s.held
  /\ s.kind = "month" => PeriodRow(s.team) \in s.held

LEMMA ParkedOrder ==
  ASSUME NEW s \in Transactions, s.job # "release", Asked(s), Mid(s), NEW keep,
         s.parked \subseteq DOMAIN s.items
  PROVE  Orderly(NextDay(Parked(s, keep)))
<1> DEFINE u == Parked(s, keep)
<1>1. Goes(s, u) /\ u.todo = s.todo
  BY ParkedGoes
<1> HIDE DEF u
<1>2. Ready(u)
  <2>1. \A r \in s.held, d \in s.todo : r.day < d
    BY HeldDays DEF Mid
  <2> QED BY <1>1, <2>1 DEF Ready, Mid, Plain, Goes
<1>3. Asked(u)
  BY <1>1 DEF Asked, Goes
<1>4. Orderly(NextDay(u))
  BY <1>1, <1>2, <1>3, NextDayOrder DEF Goes
<1> QED BY <1>4 DEF u

LEMMA RefusedOrder ==
  ASSUME NEW s \in Transactions, s.job # "release", Asked(s), Mid(s),
         s.parked \subseteq DOMAIN s.items
  PROVE  Orderly(Refused(s))
<1>1. CASE s.try = Cardinality(Group(s, s.day)) /\ Room(s) \in 1..(s.try - 1)
  <2> DEFINE u == Refused(s)
             k == Room(s)
  <2>1. u = [s EXCEPT !.try = k, !.pc = First(s)]
    BY <1>1 DEF Refused
  <2> HIDE DEF k
  <2>2. /\ u.pc = First(s) /\ u.todo = s.todo /\ u.day = s.day /\ u.held = s.held
        /\ u.items = s.items /\ u.team = s.team /\ u.kind = s.kind /\ u.job = s.job
    BY <2>1 DEF Transactions
  <2> HIDE DEF u
  <2>3. u.pc \in {"period", "team"} /\ (s.kind = "month" <=> u.pc = "period")
    BY <2>2 DEF First
  <2>4. ByDay(u)
    BY <2>2, <2>3 DEF ByDay, Mid, Plain
  <2>5. Guarded(u) /\ Asked(u)
    BY <2>2 DEF Guarded, Mid, Plain, Asked
  <2>6. Orderly(u)
    BY <2>2, <2>3, <2>4, <2>5 DEF Orderly, Asked
  <2> QED BY <2>6 DEF u
<1>2. CASE ~(s.try = Cardinality(Group(s, s.day)) /\ Room(s) \in 1..(s.try - 1))
  BY <1>2, ParkedOrder DEF Refused
<1> QED BY <1>1, <1>2

LEMMA ReservedOrder ==
  ASSUME NEW s \in Transactions, s.job # "release", Asked(s), Mid(s),
         s.parked \subseteq DOMAIN s.items
  PROVE  Orderly(Reserved(s))
BY ParkedOrder DEF Reserved

-----------------------------------------------------------------------------
(* Each statement keeps the order. *)

LEMMA OrderStep ==
  ASSUME CapsInv, OrderInv, NEW x \in Txs, NEW s, tx' = [tx EXCEPT ![x] = s], Orderly(s)
  PROVE  OrderInv'
<1>1. \A y \in Txs : tx'[y] = IF y = x THEN s ELSE tx[y]
  BY DEF CapsInv
<1>2. \A y \in Txs : Orderly(tx'[y])
  BY <1>1 DEF OrderInv
<1> QED BY <1>2 DEF OrderInv, Orderly, Guarded, ByDay, Plain, Upto

LEMMA IdleOrder ==
  Idle.held = {} /\ Idle.pc = "idle" /\ Orderly(Idle)
<1>1. Idle.held = {} /\ Idle.pc = "idle" /\ Idle.job = "accept" /\ Idle.items = <<>> /\ Idle.kind = "pool"
  BY DEF Idle
<1> QED BY <1>1 DEF Orderly, Guarded, AtDay, Asked

(* The rows by their kind.                                                  *)
LEMMA RowKinds ==
  ASSUME NEW r \in Rows
  PROVE  /\ r.of = "pool" => r = PoolRow(r.day)
         /\ r.of = "period" => r.day = 0
BY DEF Rows, TeamRow, PoolRow, PeriodRow, WarmRow, DomainRow

LEMMA Facts ==
  ASSUME CapsInv, OrderInv, NEW x \in Txs
  PROVE  /\ tx[x] \in Transactions /\ Orderly(tx[x]) /\ Asked(tx[x]) /\ Stage(tx[x])
         /\ tx[x].parked \subseteq DOMAIN tx[x].items /\ tx[x].kind \in {"pool", "month"}
         /\ TeamRow(tx[x].team, tx[x].day) \in Rows /\ PoolRow(tx[x].day) \in Rows
         /\ PeriodRow(tx[x].team) \in Rows
BY TxTyped DEF OrderInv, Orderly, Asked, Rows, Kinds

LEMMA TakePeriodOrder ==
  ASSUME CapsInv, OrderInv, NEW x \in Txs, TakePeriod(x)
  PROVE  OrderInv'
<1> DEFINE s == tx[x]
           r == PeriodRow(s.team)
           v == Add(s, r, s.try)
           u == [v EXCEPT !.pc = "team"]
<1>1. /\ s \in Transactions /\ Orderly(s) /\ Asked(s) /\ s.pc = "period" /\ s.job # "release"
      /\ r \in Rows /\ s.try \in Int
  BY Facts, TxTyped DEF TakePeriod
<1>2. CASE tx' = [tx EXCEPT ![x] = u]
  <2>1. Locks(s, v, {r})
    BY <1>1, AddLocks
  <2> HIDE DEF v
  <2>2. /\ u.pc = "team" /\ u.held = s.held \cup {r} /\ u.team = s.team /\ u.kind = s.kind
        /\ u.items = s.items /\ u.day = s.day /\ u.todo = s.todo /\ u.job = s.job
    BY <2>1 DEF Locks, Alike, Transactions
  <2> HIDE DEF u
  <2>3. r.of = "period" /\ r.day = 0 /\ s.day # 0 /\ s.day >= 0
    BY <1>1, HeldDays DEF PeriodRow
  <2>4. ByDay(s)
    BY <1>1 DEF Orderly, AtDay
  <2>5. ByDay(u)
    BY <1>1, <2>2, <2>3, <2>4 DEF ByDay, Plain
  <2>6. Guarded(u) /\ Asked(u)
    BY <1>1, <2>2, <2>5 DEF Guarded, ByDay, Plain, Asked
  <2>7. Orderly(u)
    BY <1>1, <2>2, <2>5, <2>6 DEF Orderly, Asked
  <2> QED BY <1>2, <2>7, OrderStep
<1>3. CASE Step(x, Idle)
  BY <1>3, OrderStep, IdleOrder DEF Step
<1> QED BY <1>2, <1>3 DEF TakePeriod, Step

(* A day's statement that has locked the row it wanted.                     *)
LEMMA MidOrder ==
  ASSUME CapsInv, OrderInv, NEW x \in Txs, tx[x].job # "release", NEW v, NEW rs, Locks(tx[x], v, rs), Mid(v),
         tx' = [tx EXCEPT ![x] = Refused(v)] \/ tx' = [tx EXCEPT ![x] = Reserved(v)]
  PROVE  OrderInv'
<1>1. /\ v \in Transactions /\ v.job # "release" /\ Asked(v) /\ v.parked \subseteq DOMAIN v.items
  BY Facts DEF Locks, Alike, Asked
<1>2. Orderly(Refused(v)) /\ Orderly(Reserved(v))
  BY <1>1, RefusedOrder, ReservedOrder
<1> QED BY <1>2, OrderStep

LEMMA TakeTeamOrder ==
  ASSUME CapsInv, OrderInv, NEW x \in Txs, TakeTeam(x)
  PROVE  OrderInv'
<1> DEFINE s == tx[x]
           r == TeamRow(s.team, s.day)
           p == PeriodRow(s.team)
<1>1. /\ s \in Transactions /\ Orderly(s) /\ Asked(s) /\ s.pc = "team" /\ s.job # "release"
      /\ r \in Rows /\ p \in Rows /\ s.try \in Int /\ -s.try \in Int /\ s.kind \in {"pool", "month"}
  BY Facts, TxTyped DEF TakeTeam
<1>2. ByDay(s) /\ r.of = "team" /\ r.day = s.day /\ s.day \in Int
  BY <1>1, HeldDays DEF Orderly, AtDay, TeamRow
<1>3. ASSUME NEW v, Locks(s, v, {r}) PROVE Mid(v)
  <2>1. /\ v.held = s.held \cup {r} /\ v.team = s.team /\ v.kind = s.kind /\ v.day = s.day
        /\ v.todo = s.todo
    BY <1>3 DEF Locks, Alike
  <2> QED BY <1>1, <1>2, <2>1 DEF Mid, ByDay, Plain
<1>4. CASE tx' = [tx EXCEPT ![x] = Refused(IF s.kind = "month" THEN Add(Locked(s, r), p, -s.try) ELSE Locked(s, r))]
  <2> DEFINE l == Locked(s, r)
             v == IF s.kind = "month" THEN Add(l, p, -s.try) ELSE l
  <2>1. Locks(s, l, {r})
    BY <1>1, LockedLocks
  <2> HIDE DEF l
  <2>2. Locks(s, v, {r})
    <3>1. CASE s.kind = "month"
      <4>1. Locks(l, v, {p})
        BY <1>1, <2>1, <3>1, AddLocks DEF Locks
      <4>2. p \in s.held
        BY <1>1, <1>2, <3>1 DEF ByDay
      <4> QED BY <2>1, <4>1, <4>2 DEF Locks, Alike
    <3> QED BY <2>1, <3>1
  <2>3. tx' = [tx EXCEPT ![x] = Refused(v)]
    BY <1>4 DEF l
  <2> HIDE DEF v
  <2> QED BY <1>1, <1>3, <2>2, <2>3, MidOrder
<1>5. CASE tx' = [tx EXCEPT ![x] = Reserved(Add(s, r, s.try))]
  <2>1. Locks(s, Add(s, r, s.try), {r})
    BY <1>1, AddLocks
  <2> QED BY <1>1, <1>3, <1>5, <2>1, MidOrder
<1>6. CASE s.kind = "pool" /\ tx' = [tx EXCEPT ![x] = [Add(s, r, s.try) EXCEPT !.pc = "pool"]]
  <2> DEFINE v == Add(s, r, s.try)
             u == [v EXCEPT !.pc = "pool"]
  <2>1. Locks(s, v, {r})
    BY <1>1, AddLocks
  <2> HIDE DEF v
  <2>2. /\ u.pc = "pool" /\ u.held = s.held \cup {r} /\ u.team = s.team /\ u.kind = s.kind
        /\ u.items = s.items /\ u.day = s.day /\ u.todo = s.todo /\ u.job = s.job
    BY <2>1 DEF Locks, Alike, Transactions
  <2> HIDE DEF u
  <2>3. \A q \in u.held : q \in Rows
    BY <1>1, <2>2, HeldDays
  <2>4. \A q \in u.held : q.day = s.day => q.of = "team" \/ PoolRow(s.day) \in u.held
    <3> SUFFICES ASSUME NEW q \in u.held, q.day = s.day, q.of # "team"
                 PROVE  PoolRow(s.day) \in u.held
      OBVIOUS
    <3>1. q \in Rows /\ q.of \in {"period", "team", "pool"} /\ s.day # 0
      BY <1>1, <1>2, <2>2, <2>3, HeldDays DEF ByDay, Plain
    <3> QED BY <3>1, RowKinds
  <2>5. ByDay(u)
    BY <1>2, <1>6, <2>2, <2>4 DEF ByDay, Plain
  <2>6. Guarded(u) /\ Asked(u)
    BY <1>1, <2>2, <2>5 DEF Guarded, ByDay, Plain, Asked
  <2>7. Orderly(u)
    BY <1>1, <2>2, <2>5, <2>6 DEF Orderly, Asked
  <2> QED BY <1>6, <2>7, OrderStep DEF u, v
<1> QED BY <1>4, <1>5, <1>6 DEF TakeTeam, Step

LEMMA TakePoolOrder ==
  ASSUME CapsInv, OrderInv, NEW x \in Txs, TakePool(x)
  PROVE  OrderInv'
<1> DEFINE s == tx[x]
           r == PoolRow(s.day)
           q == TeamRow(s.team, s.day)
<1>1. /\ s \in Transactions /\ Orderly(s) /\ s.pc = "pool" /\ s.job # "release" /\ Stage(s)
      /\ r \in Rows /\ q \in Rows /\ s.try \in Int /\ -s.try \in Int
  BY Facts, TxTyped DEF TakePool
<1>2. ByDay(s) /\ r.of = "pool" /\ r.day = s.day /\ s.day \in Int /\ q \in s.held /\ s.kind = "pool"
  BY <1>1, HeldDays DEF Orderly, AtDay, PoolRow, Stage, Taken, Placed
<1>3. ASSUME NEW v, Locks(s, v, {r}) PROVE Mid(v)
  <2>1. /\ v.held = s.held \cup {r} /\ v.team = s.team /\ v.kind = s.kind /\ v.day = s.day
        /\ v.todo = s.todo
    BY <1>3 DEF Locks, Alike
  <2> QED BY <1>2, <2>1 DEF Mid, ByDay, Plain
<1>4. CASE tx' = [tx EXCEPT ![x] = Reserved(Add(s, r, s.try))]
  <2>1. Locks(s, Add(s, r, s.try), {r})
    BY <1>1, AddLocks
  <2> QED BY <1>1, <1>3, <1>4, <2>1, MidOrder
<1>5. CASE tx' = [tx EXCEPT ![x] = Refused(Add(Locked(s, r), q, -s.try))]
  <2> DEFINE l == Locked(s, r)
             v == Add(l, q, -s.try)
  <2>1. Locks(s, l, {r})
    BY <1>1, LockedLocks
  <2> HIDE DEF l
  <2>2. Locks(l, v, {q})
    BY <1>1, <2>1, AddLocks DEF Locks
  <2>3. tx' = [tx EXCEPT ![x] = Refused(v)]
    BY <1>5 DEF l
  <2> HIDE DEF v
  <2>4. Locks(s, v, {r})
    BY <1>2, <2>1, <2>2 DEF Locks, Alike
  <2> QED BY <1>1, <1>3, <2>3, <2>4, MidOrder
<1> QED BY <1>4, <1>5 DEF TakePool, Step

(* What an item past its reservation was charged to is held.                *)
LEMMA ChargeHeld ==
  ASSUME CapsInv, NEW x \in Txs, tx[x].pc \in {"review", "warm", "domain"}, NEW i \in Waiting(tx[x])
  PROVE  /\ Charge(tx[x], i) \subseteq tx[x].held
         /\ TeamRow(tx[x].team, tx[x].items[i].day) \in tx[x].held
         /\ tx[x].kind = "pool" => PoolRow(tx[x].items[i].day) \in tx[x].held
         /\ tx[x].items[i].day \in Days /\ tx[x].items[i].key \in Keys
<1>1. Charge(tx[x], i) \subseteq tx[x].held
  BY TxTyped, PastDays
<1>2. tx[x].items[i].day \in Days /\ tx[x].items[i].key \in Keys
  BY TxTyped, ItemTyped DEF Waiting
<1> QED BY <1>1, <1>2 DEF Charge

LEMMA HandBackOrder ==
  ASSUME CapsInv, OrderInv, NEW x \in Txs, HandBack(x)
  PROVE  OrderInv'
<1> DEFINE s == tx[x]
<1>1. s \in Transactions /\ Orderly(s) /\ Asked(s) /\ s.pc = "review"
  BY Facts DEF HandBack
<1>2. ASSUME NEW u, u.held = s.held, u.team = s.team, u.kind = s.kind, u.items = s.items,
             u.job = s.job, u.day = s.day, u.pc \in {"review", "commit"}
      PROVE  Orderly(u)
  BY <1>1, <1>2 DEF Orderly, Guarded, AtDay, Asked
<1>3. CASE Waiting(s) = {}
  <2> DEFINE u == [s EXCEPT !.pc = "commit"]
  <2>1. tx' = [tx EXCEPT ![x] = u]
    BY <1>3 DEF HandBack, Step
  <2>2. /\ u.held = s.held /\ u.team = s.team /\ u.kind = s.kind /\ u.items = s.items
        /\ u.job = s.job /\ u.day = s.day /\ u.pc = "commit"
    BY <1>1 DEF Transactions
  <2> HIDE DEF u
  <2> QED BY <1>2, <2>1, <2>2, OrderStep
<1>4. CASE Waiting(s) # {}
  <2> DEFINE i == CHOOSE i \in Waiting(s) : \A j \in Waiting(s) : i <= j
             u == Returned(s, i)
  <2>1. tx' = [tx EXCEPT ![x] = u]
    BY <1>4 DEF HandBack, Step
  <2>2. i \in Waiting(s)
    <3>1. Waiting(s) \in SUBSET Nat
      BY <1>1 DEF Waiting, Transactions
    <3> QED BY <1>4, <3>1, Least
  <2> HIDE DEF i
  <2>3. Charge(s, i) \subseteq s.held
    BY <1>1, <2>2, ChargeHeld
  <2>4. /\ u.held = s.held /\ u.team = s.team /\ u.kind = s.kind /\ u.items = s.items
        /\ u.job = s.job /\ u.day = s.day /\ u.pc = s.pc
    BY <1>1, <2>2, <2>3, ReturnedLocks
  <2> HIDE DEF u
  <2> QED BY <1>1, <1>2, <2>1, <2>4, OrderStep
<1> QED BY <1>3, <1>4

(* A warm-up row that is locked for the item at hand is guarded.            *)
LEMMA WarmGuarded ==
  ASSUME CapsInv, OrderInv, NEW x \in Txs, tx[x].pc \in {"warm", "domain"},
         NEW v, NEW r, Locks(tx[x], v, {r}),
         LET i == tx[x].items[tx[x].at]
         IN r \in {WarmRow(tx[x].team, i.day), DomainRow(i.key, i.day)}
  PROVE  /\ Guarded(v) /\ Upto(v, v.at) /\ Asked(v) /\ v \in Transactions
         /\ v.job # "release" /\ v.at \in Waiting(v) /\ Charge(v, v.at) \subseteq v.held
         /\ r.of = "warm" => Upto(v, v.at - 1)
<1> DEFINE s == tx[x]
           i == s.items[s.at]
<1>1. /\ s \in Transactions /\ Orderly(s) /\ Asked(s) /\ s.at \in Waiting(s) /\ s.job # "release"
      /\ s.at \in DOMAIN s.items
  BY Facts, PastDays DEF Stage, Placed, Waiting
<1>2. /\ Charge(s, s.at) \subseteq s.held /\ TeamRow(s.team, i.day) \in s.held
      /\ s.kind = "pool" => PoolRow(i.day) \in s.held
  BY <1>1, ChargeHeld
<1>3. Guarded(s) /\ Upto(s, s.at - 1) /\ s.at \in Nat
  BY <1>1 DEF Orderly, Transactions
<1>4. /\ v.held = s.held \cup {r} /\ v.team = s.team /\ v.kind = s.kind /\ v.items = s.items
      /\ v.at = s.at /\ v.job = s.job /\ v.parked = s.parked /\ v \in Transactions
  BY DEF Locks, Alike
<1> HIDE DEF i
<1>5. /\ r = WarmRow(s.team, i.day) \/ r = DomainRow(i.key, i.day)
      /\ r.day = i.day /\ r.of \in {"warm", "domain"} /\ (r.of = "warm" => r.who = s.team)
  BY DEF WarmRow, DomainRow, i
<1>6. Guarded(v)
  BY <1>2, <1>3, <1>4, <1>5 DEF Guarded
<1>7. Upto(v, v.at)
  <2> SUFFICES ASSUME NEW q \in v.held, q.of = "domain"
               PROVE  \E j \in DOMAIN s.items : j <= s.at /\ q = DomainRow(s.items[j].key, s.items[j].day)
    BY <1>4 DEF Upto
  <2>1. CASE q = r
    <3>1. q = DomainRow(i.key, i.day)
      BY <1>5, <2>1 DEF WarmRow
    <3> QED BY <1>1, <1>3, <3>1 DEF i
  <2>2. CASE q \in s.held
    <3>1. PICK j \in DOMAIN s.items : j <= s.at - 1 /\ q = DomainRow(s.items[j].key, s.items[j].day)
      BY <1>3, <2>2 DEF Upto
    <3>2. j \in Nat
      BY <1>1, ItemTyped
    <3> QED BY <1>3, <3>1, <3>2
  <2> QED BY <1>4, <2>1, <2>2
<1>8. r.of = "warm" => Upto(v, v.at - 1)
  BY <1>3, <1>4 DEF Upto
<1>9. v.at \in Waiting(v) /\ Charge(v, v.at) \subseteq v.held
  BY <1>1, <1>2, <1>4 DEF Waiting, Charge
<1> QED BY <1>1, <1>4, <1>6, <1>7, <1>8, <1>9 DEF Asked

LEMMA HeldOrder ==
  ASSUME CapsInv, OrderInv, NEW x \in Txs, NEW v \in Transactions, Guarded(v), Upto(v, v.at),
         Asked(v), v.job # "release", v.at \in Waiting(v), Charge(v, v.at) \subseteq v.held,
         tx' = [tx EXCEPT ![x] = Held(v)]
  PROVE  OrderInv'
<1>1. CASE v.job = "drain"
  BY <1>1, OrderStep, IdleOrder DEF Held
<1>2. CASE v.job # "drain"
  <2> DEFINE u == Returned(v, v.at)
  <2>1. /\ u \in Transactions /\ u.held = v.held /\ u.team = v.team /\ u.kind = v.kind
        /\ u.items = v.items /\ u.job = v.job /\ u.at = v.at
    BY ReturnedLocks
  <2>2. tx' = [tx EXCEPT ![x] = NextItem(u)]
    BY <1>2 DEF Held
  <2> HIDE DEF u
  <2>3. Guarded(u) /\ Upto(u, u.at) /\ Asked(u)
    BY <2>1 DEF Guarded, Upto, Asked
  <2>4. Orderly(NextItem(u))
    BY <2>1, <2>3, NextItemOrder
  <2> QED BY <2>2, <2>4, OrderStep
<1> QED BY <1>1, <1>2

LEMMA TakeWarmOrder ==
  ASSUME CapsInv, OrderInv, NEW x \in Txs, TakeWarm(x)
  PROVE  OrderInv'
<1> DEFINE s == tx[x]
           i == s.items[s.at]
           r == WarmRow(s.team, i.day)
<1>1. s \in Transactions /\ s.pc = "warm" /\ s.at \in Waiting(s) /\ s.team \in Teams
  BY TxTyped DEF TakeWarm, Stage, Placed
<1>2. i.day \in Days /\ r \in Rows /\ r.of = "warm"
  BY <1>1, ChargeHeld DEF Rows, WarmRow
<1>3. CASE tx' = [tx EXCEPT ![x] = [Add(s, r, 1) EXCEPT !.pc = "domain"]]
  <2> DEFINE v == Add(s, r, 1)
             u == [v EXCEPT !.pc = "domain"]
  <2>1. Locks(s, v, {r})
    BY <1>1, <1>2, AddLocks
  <2> HIDE DEF v
  <2>2. Guarded(v) /\ Upto(v, v.at - 1) /\ Asked(v) /\ v \in Transactions /\ v.job # "release"
    BY <1>1, <1>2, <2>1, WarmGuarded
  <2>3. /\ u.pc = "domain" /\ u.held = v.held /\ u.team = v.team /\ u.kind = v.kind
        /\ u.items = v.items /\ u.job = v.job /\ u.at = v.at
    BY <2>2 DEF Transactions
  <2> HIDE DEF u
  <2>4. Orderly(u)
    BY <2>2, <2>3 DEF Orderly, Guarded, Upto, Asked, AtDay
  <2> QED BY <1>3, <2>4, OrderStep DEF u, v
<1>4. CASE tx' = [tx EXCEPT ![x] = Held(Locked(s, r))]
  <2> DEFINE v == Locked(s, r)
  <2>1. Locks(s, v, {r})
    BY <1>1, <1>2, LockedLocks
  <2>2. tx' = [tx EXCEPT ![x] = Held(v)]
    BY <1>4
  <2> HIDE DEF v
  <2>3. /\ Guarded(v) /\ Upto(v, v.at) /\ Asked(v) /\ v \in Transactions
        /\ v.job # "release" /\ v.at \in Waiting(v) /\ Charge(v, v.at) \subseteq v.held
    BY <1>1, <2>1, WarmGuarded
  <2> QED BY <2>2, <2>3, HeldOrder
<1> QED BY <1>3, <1>4 DEF TakeWarm, Step

LEMMA TakeDomainOrder ==
  ASSUME CapsInv, OrderInv, NEW x \in Txs, TakeDomain(x)
  PROVE  OrderInv'
<1> DEFINE s == tx[x]
           i == s.items[s.at]
           r == DomainRow(i.key, i.day)
           w == WarmRow(s.team, i.day)
<1>1. s \in Transactions /\ s.pc = "domain" /\ s.at \in Waiting(s) /\ s.team \in Teams /\ w \in s.held
  BY TxTyped, PastDays DEF TakeDomain, Stage, Placed, Taken
<1>2. i.day \in Days /\ i.key \in Keys /\ r \in Rows /\ w \in Rows
  BY <1>1, ChargeHeld DEF Rows
<1>3. CASE tx' = [tx EXCEPT ![x] = NextItem(Add(s, r, 1))]
  <2> DEFINE v == Add(s, r, 1)
  <2>1. Locks(s, v, {r})
    BY <1>1, <1>2, AddLocks
  <2> HIDE DEF v
  <2>2. Guarded(v) /\ Upto(v, v.at) /\ Asked(v) /\ v \in Transactions /\ v.job # "release"
    BY <1>1, <2>1, WarmGuarded
  <2>3. Orderly(NextItem(v))
    BY <2>2, NextItemOrder
  <2> QED BY <1>3, <2>3, OrderStep DEF v
<1>4. CASE tx' = [tx EXCEPT ![x] = Held(Add(Locked(s, r), w, -1))]
  <2> DEFINE l == Locked(s, r)
             v == Add(l, w, -1)
  <2>1. Locks(s, l, {r})
    BY <1>1, <1>2, LockedLocks
  <2>2. tx' = [tx EXCEPT ![x] = Held(v)]
    BY <1>4
  <2> HIDE DEF l
  <2>3. Locks(l, v, {w})
    BY <1>2, <2>1, AddLocks DEF Locks
  <2> HIDE DEF v
  <2>4. Locks(s, v, {r})
    BY <1>1, <2>1, <2>3 DEF Locks, Alike
  <2>5. /\ Guarded(v) /\ Upto(v, v.at) /\ Asked(v) /\ v \in Transactions
        /\ v.job # "release" /\ v.at \in Waiting(v) /\ Charge(v, v.at) \subseteq v.held
    BY <1>1, <2>4, WarmGuarded
  <2> QED BY <2>2, <2>5, HeldOrder
<1> QED BY <1>3, <1>4 DEF TakeDomain, Step

LEMMA BeginOrder ==
  ASSUME CapsInv, OrderInv, PlansOK, PoolStays, NEW x \in Txs, NEW t \in Teams,
         NEW job \in {"accept", "drain"}, NEW review \in BOOLEAN, NEW items \in Batches[t],
         Begin(x, job, t, items, review)
  PROVE  OrderInv'
<1> DEFINE s == [Idle EXCEPT !.job = job, !.team = t, !.kind = plan[t], !.items = items,
                             !.todo = {items[i].day : i \in DOMAIN items}, !.review = review]
<1>1. tx' = [tx EXCEPT ![x] = NextDay(s)]
  BY DEF Begin
<1>2. items \in Seq(Items) /\ plan[t] \in Kinds
  BY CountersAssumption DEF CountersAssumption, PlansOK
<1>3. {items[i].day : i \in DOMAIN items} \in SUBSET Days
  <2>1. \A i \in DOMAIN items : items[i] \in Items
    BY <1>2
  <2> QED BY <2>1 DEF Items
<1>4. Idle \in Transactions /\ Idle.held = {}
  BY IdleOk DEF CapsInv
<1>5. s \in Transactions /\ s.job = job /\ s.items = items /\ s.team = t /\ s.held = {} /\ s.kind = plan[t]
  BY <1>2, <1>3, <1>4 DEF Transactions, Jobs
<1> HIDE DEF s
<1>6. Ready(s) /\ Asked(s)
  BY <1>5 DEF Ready, Plain, Asked, PoolStays
<1>7. Orderly(NextDay(s))
  BY <1>5, <1>6, NextDayOrder
<1> QED BY <1>1, <1>7, OrderStep

LEMMA BeginReleaseOrder ==
  ASSUME CapsInv, OrderInv, PlansOK, PoolStays, NEW x \in Txs, NEW t \in Teams, NEW k \in Kinds,
         BeginRelease(x, t, k)
  PROVE  OrderInv'
<1> DEFINE s == [Idle EXCEPT !.job = "release", !.team = t, !.kind = plan[t], !.was = k]
           u == [s EXCEPT !.pc = First(s)]
<1>1. tx' = [tx EXCEPT ![x] = u]
  BY DEF BeginRelease
<1>2. /\ Idle.held = {} /\ Idle.items = <<>> /\ Idle.todo = {} /\ Idle.day = Today
      /\ Idle \in Transactions
  BY IdleOk DEF CapsInv, Idle
<1>3. /\ u.pc = First(s) /\ u.held = {} /\ u.items = <<>> /\ u.todo = {} /\ u.day = Today
      /\ u.kind = s.kind /\ s.kind = plan[t]
  BY <1>2 DEF Transactions
<1>4. u.pc \in {"period", "team"} /\ (u.kind = "month" => u.pc = "period")
  BY <1>3 DEF First
<1> HIDE DEF u
<1>5. Orderly(u)
  BY <1>3, <1>4 DEF Orderly, ByDay, Plain, Guarded, Asked, PoolStays
<1> QED BY <1>1, <1>5, OrderStep

LEMMA ReleaseOrder ==
  ASSUME CapsInv, OrderInv, NEW x \in Txs, ReleasePeriod(x) \/ ReleaseTeam(x) \/ ReleasePool(x)
  PROVE  OrderInv'
<1> DEFINE s == tx[x]
<1>1. /\ s \in Transactions /\ Orderly(s) /\ Asked(s) /\ s.job = "release" /\ s.day = Today
      /\ TeamRow(s.team, Today) \in Rows /\ PoolRow(Today) \in Rows /\ PeriodRow(s.team) \in Rows
      /\ Today \in Nat \ {0} /\ s.pc \in AtDay /\ s.kind \in {"pool", "month"}
  BY Facts, HeldDays DEF Orderly, ReleasePeriod, ReleaseTeam, ReleasePool, AtDay
<1>2. ByDay(s)
  BY <1>1 DEF Orderly
<1>3. ASSUME NEW r \in Rows, NEW p, tx' = [tx EXCEPT ![x] = [GiveBack(s, r) EXCEPT !.pc = p]],
             p \notin AtDay \cup {"warm", "domain"}, r.of \in {"team", "pool", "period"}
      PROVE  OrderInv'
  <2> DEFINE v == GiveBack(s, r)
             u == [v EXCEPT !.pc = p]
  <2>1. Locks(s, v, {r})
    BY <1>1, GiveBackLocks
  <2> HIDE DEF v
  <2>2. /\ u.pc = p /\ u.held = s.held \cup {r} /\ u.team = s.team /\ u.kind = s.kind
        /\ u.items = s.items /\ u.day = s.day /\ u.job = s.job
    BY <2>1 DEF Locks, Alike, Transactions
  <2> HIDE DEF u
  <2>3. Orderly(u)
    BY <1>1, <1>2, <1>3, <2>2 DEF Orderly, Guarded, ByDay, Plain, Asked
  <2> QED BY <1>3, <2>3, OrderStep DEF u, v
<1>4. CASE ReleasePeriod(x)
  <2> DEFINE r == PeriodRow(s.team)
             v == GiveBack(s, r)
             u == [v EXCEPT !.pc = "team"]
  <2>1. tx' = [tx EXCEPT ![x] = u] /\ s.pc = "period"
    BY <1>4 DEF ReleasePeriod, Step
  <2>2. Locks(s, v, {r})
    BY <1>1, GiveBackLocks
  <2> HIDE DEF v
  <2>3. /\ u.pc = "team" /\ u.held = s.held \cup {r} /\ u.team = s.team /\ u.kind = s.kind
        /\ u.items = s.items /\ u.day = s.day /\ u.todo = s.todo /\ u.job = s.job
    BY <2>2 DEF Locks, Alike, Transactions
  <2> HIDE DEF u
  <2>4. r.of = "period" /\ r.day = 0
    BY DEF PeriodRow
  <2>5. ByDay(u)
    BY <1>1, <1>2, <2>1, <2>3, <2>4 DEF ByDay, Plain
  <2>6. Orderly(u)
    BY <1>1, <2>3, <2>5 DEF Orderly, ByDay, Plain, Guarded, Asked
  <2> QED BY <2>1, <2>6, OrderStep
<1>5. CASE ReleaseTeam(x)
  <2> DEFINE r == TeamRow(s.team, Today)
  <2>1. r.of = "team" /\ r.day = Today /\ s.pc = "team"
    BY <1>5 DEF TeamRow, ReleaseTeam
  <2>2. CASE tx' = [tx EXCEPT ![x] = [GiveBack(s, r) EXCEPT !.pc = "commit"]]
    <3>1. "commit" \notin AtDay \cup {"warm", "domain"}
      BY DEF AtDay
    <3> QED BY <1>1, <1>3, <2>1, <2>2, <3>1
  <2>3. CASE s.kind = "pool" /\ tx' = [tx EXCEPT ![x] = [GiveBack(s, r) EXCEPT !.pc = "pool"]]
    <3> DEFINE v == GiveBack(s, r)
               u == [v EXCEPT !.pc = "pool"]
    <3>1. Locks(s, v, {r})
      BY <1>1, GiveBackLocks
    <3> HIDE DEF v
    <3>2. /\ u.pc = "pool" /\ u.held = s.held \cup {r} /\ u.team = s.team /\ u.kind = s.kind
          /\ u.items = s.items /\ u.day = s.day /\ u.todo = s.todo /\ u.job = s.job
      BY <3>1 DEF Locks, Alike, Transactions
    <3> HIDE DEF u
    <3>3. \A q \in u.held : q.day = s.day => q.of = "team" \/ PoolRow(s.day) \in u.held
      <4> SUFFICES ASSUME NEW q \in u.held, q.day = s.day, q.of # "team"
                   PROVE  PoolRow(s.day) \in u.held
        OBVIOUS
      <4>1. q \in Rows /\ q.of \in {"period", "team", "pool"} /\ s.day # 0
        BY <1>1, <1>2, <2>1, <3>2, HeldDays DEF ByDay, Plain
      <4> QED BY <4>1, RowKinds
    <3>4. ByDay(u)
      BY <1>1, <1>2, <2>1, <2>3, <3>2, <3>3 DEF ByDay, Plain
    <3>5. Orderly(u)
      BY <1>1, <3>2, <3>4 DEF Orderly, ByDay, Plain, Guarded, Asked
    <3> QED BY <2>3, <3>5, OrderStep DEF u, v
  <2>4. GiveBack(s, r).kind = s.kind
    BY <1>1, GiveBackLocks DEF Locks, Alike
  <2> QED BY <1>5, <2>2, <2>3, <2>4 DEF ReleaseTeam, Step
<1>6. CASE ReleasePool(x)
  <2>1. PoolRow(Today).of = "pool" /\ "commit" \notin AtDay \cup {"warm", "domain"}
    BY DEF PoolRow, AtDay
  <2> QED BY <1>1, <1>3, <1>6, <2>1 DEF ReleasePool, Step
<1> QED BY <1>4, <1>5, <1>6

-----------------------------------------------------------------------------
(* No ring of connections waits. *)

THEOREM Ordered == Spec => [](CapsInv /\ OrderInv)
<1>1. Init => OrderInv /\ PoolStays
  <2>1. ASSUME Init PROVE \A x \in Txs : tx[x] = Idle
    BY <2>1 DEF Init
  <2> QED BY <2>1, IdleOrder DEF OrderInv, Init, PoolStays, OnePool
<1>2. CapsInv /\ PlansOK /\ PoolStays /\ [Next]_vars => PoolStays'
  <2> SUFFICES ASSUME CapsInv, PlansOK, PoolStays, OnePool, [Next]_vars
               PROVE  \A t \in Teams : plan'[t] = "pool"
    BY DEF PoolStays, OnePool
  <2>1. ~(moves < MaxMoves)
    BY DEF PlansOK, OnePool
  <2>2. ASSUME NEW x \in Txs, TakePeriod(x) \/ TakeTeam(x) \/ TakePool(x) \/ HandBack(x)
                              \/ TakeWarm(x) \/ TakeDomain(x) \/ ReleasePeriod(x)
                              \/ ReleaseTeam(x) \/ ReleasePool(x) \/ Abort(x)
        PROVE  UNCHANGED plan
    BY <2>2 DEF TakePeriod, TakeTeam, TakePool, HandBack, TakeWarm, TakeDomain, ReleasePeriod,
       ReleaseTeam, ReleasePool, Abort, Step
  <2>3. ASSUME NEW x \in Txs, Commit(x) \/ (\E t \in Teams, k \in Kinds : BeginRelease(x, t, k))
        PROVE  UNCHANGED plan
    BY <2>3 DEF Commit, BeginRelease
  <2>4. ASSUME NEW x \in Txs, NEW t \in Teams, NEW job \in {"accept", "drain"},
               NEW review \in BOOLEAN, NEW items \in Batches[t], Begin(x, job, t, items, review)
        PROVE  UNCHANGED plan
    BY <2>4 DEF Begin
  <2>5. ASSUME NEW t \in Teams, Upgrade(t) \/ Lapse(t) PROVE FALSE
    BY <2>1, <2>5 DEF Upgrade, Lapse
  <2>6. UNCHANGED plan
    BY <2>2, <2>3, <2>4, <2>5 DEF Next, vars
  <2> QED BY <2>6 DEF PoolStays
<1>3. CapsInv /\ PlansOK /\ PoolStays /\ OrderInv /\ [Next]_vars => OrderInv'
  <2> SUFFICES ASSUME CapsInv, PlansOK, PoolStays, OrderInv, [Next]_vars PROVE OrderInv'
    OBVIOUS
  <2>1. ASSUME NEW x \in Txs, NEW t \in Teams, NEW job \in {"accept", "drain"},
               NEW review \in BOOLEAN, NEW items \in Batches[t], Begin(x, job, t, items, review)
        PROVE  OrderInv'
    BY <2>1, BeginOrder
  <2>2. ASSUME NEW x \in Txs, NEW t \in Teams, NEW k \in Kinds, BeginRelease(x, t, k)
        PROVE  OrderInv'
    BY <2>2, BeginReleaseOrder
  <2>3. ASSUME NEW x \in Txs, TakePeriod(x) \/ TakeTeam(x) \/ TakePool(x) \/ HandBack(x)
                              \/ TakeWarm(x) \/ TakeDomain(x)
        PROVE  OrderInv'
    BY <2>3, TakePeriodOrder, TakeTeamOrder, TakePoolOrder, HandBackOrder, TakeWarmOrder,
       TakeDomainOrder
  <2>4. ASSUME NEW x \in Txs, ReleasePeriod(x) \/ ReleaseTeam(x) \/ ReleasePool(x) PROVE OrderInv'
    BY <2>4, ReleaseOrder
  <2>5. ASSUME NEW x \in Txs, Commit(x) \/ Abort(x) PROVE OrderInv'
    <3>1. tx' = [tx EXCEPT ![x] = Idle]
      BY <2>5 DEF Commit, Abort, Step
    <3> QED BY <3>1, IdleOrder, OrderStep
  <2>6. ASSUME UNCHANGED tx PROVE OrderInv'
    BY <2>6 DEF OrderInv, Orderly, Guarded, ByDay, Plain, Upto, Asked
  <2>7. ASSUME NEW t \in Teams, Upgrade(t) \/ Lapse(t) PROVE OrderInv'
    BY <2>6, <2>7 DEF Upgrade, Lapse
  <2>8. CASE UNCHANGED vars
    BY <2>6, <2>8 DEF vars
  <2> QED BY <2>1, <2>2, <2>3, <2>4, <2>5, <2>7, <2>8 DEF Next
<1> QED BY <1>1, <1>2, <1>3, Counters, PTL DEF Spec

(* A batch names its items in an order all batches share.                   *)
InOrder ==
  \E f \in [Items -> Nat] :
    /\ \A a \in Items, b \in Items : f[a] = f[b] => a = b
    /\ \A t \in Teams : \A b \in Batches[t] : \A i \in DOMAIN b, j \in DOMAIN b :
         i < j => f[b[i]] <= f[b[j]]

(* A finite set with a member has one of the highest rank.                  *)
LEMMA Highest ==
  ASSUME NEW S, IsFiniteSet(S), S # {}, NEW f, \A x \in S : f[x] \in Nat
  PROVE  \E x \in S : \A y \in S : f[y] <= f[x]
<1> DEFINE Bad == {T \in SUBSET S : T # {} /\ \A x \in T : \E y \in T : f[x] < f[y]}
           Sizes == {Cardinality(T) : T \in Bad}
<1>1. \A T \in SUBSET S : IsFiniteSet(T) /\ Cardinality(T) \in Nat
  BY FS_Subset, FS_CardinalityType
<1>2. Bad = {}
  <2> SUFFICES ASSUME Bad # {} PROVE FALSE
    OBVIOUS
  <2>1. Sizes \in SUBSET Nat /\ Sizes # {}
    BY <1>1
  <2>2. PICK n \in Sizes : \A m \in Sizes : n <= m
    BY <2>1, Least
  <2>3. PICK T \in Bad : Cardinality(T) = n
    BY <2>2
  <2>4. PICK x \in T : TRUE
    BY <2>3
  <2> DEFINE U == T \ {x}
  <2>5. Cardinality(U) = n - 1 /\ n \in Nat
    BY <1>1, <2>1, <2>2, <2>3, <2>4, FS_RemoveElement
  <2>6. U \notin Bad
    <3> HIDE DEF Bad
    <3>1. U \in Bad => Cardinality(U) \in Sizes
      OBVIOUS
    <3> QED BY <2>2, <2>5, <3>1
  <2>7. U \in SUBSET S
    BY <2>3
  <2>8. PICK y \in T : f[x] < f[y]
    BY <2>3, <2>4
  <2>9. y \in U
    BY <2>3, <2>4, <2>8
  <2>10. PICK z \in U : \A w \in U : ~(f[z] < f[w])
    BY <2>6, <2>7, <2>9
  <2>11. PICK w \in T : f[z] < f[w]
    BY <2>3, <2>10
  <2>12. w = x
    BY <2>10, <2>11
  <2>13. f[x] \in Nat /\ f[y] \in Nat /\ f[z] \in Nat
    BY <2>3, <2>4, <2>8, <2>10
  <2> QED BY <2>8, <2>9, <2>10, <2>11, <2>12, <2>13
<1>3. PICK x \in S : \A y \in S : ~(f[x] < f[y])
  BY <1>2
<1> QED BY <1>3

(* The row a connection waits for, held by another.                         *)
Blocks(y, x) == Wants(x) \cap tx[y].held # {}

LEMMA BlockedAt ==
  ASSUME CapsInv, OrderInv, NEW x \in Txs, NEW y \in Txs, x # y, Blocks(y, x)
  PROVE  /\ tx[x].pc \in AtDay \cup {"domain"}
         /\ tx[x].pc = "domain" => ~OnePool
         /\ Wants(x) \cap tx[x].held = {}
<1>1. /\ tx[x] \in Transactions /\ Stage(tx[x]) /\ Orderly(tx[y]) /\ Asked(tx[x]) /\ Asked(tx[y])
      /\ tx[x].held \cap tx[y].held = {}
  BY Facts DEF CapsInv
<1>2. PICK r \in Wants(x) : r \in tx[y].held
  BY DEF Blocks
<1>3. Wants(x) = {r}
  BY <1>2 DEF Wants
<1>4. tx[x].pc \in AtDay \cup {"warm", "domain"}
  BY <1>2 DEF Wants, AtDay
<1>5. ASSUME tx[x].pc \in {"warm", "domain"}
      PROVE  /\ TeamRow(tx[x].team, tx[x].items[tx[x].at].day) \in tx[x].held
             /\ tx[x].kind = "pool" => PoolRow(tx[x].items[tx[x].at].day) \in tx[x].held
  BY <1>1, <1>5, ChargeHeld DEF Stage, Placed
<1>6. tx[x].pc # "warm"
  <2> SUFFICES ASSUME tx[x].pc = "warm" PROVE FALSE
    OBVIOUS
  <2>1. r = WarmRow(tx[x].team, tx[x].items[tx[x].at].day)
    BY <1>2 DEF Wants
  <2>2. /\ r.of = "warm" /\ r.who = tx[x].team /\ r.day = tx[x].items[tx[x].at].day
    BY <2>1 DEF WarmRow
  <2>3. TeamRow(tx[y].team, r.day) \in tx[y].held /\ r.who = tx[y].team
    BY <1>1, <1>2, <2>2 DEF Orderly, Guarded
  <2> QED BY <1>1, <1>5, <2>2, <2>3
<1>7. ASSUME tx[x].pc = "domain", OnePool PROVE FALSE
  <2>1. r = DomainRow(tx[x].items[tx[x].at].key, tx[x].items[tx[x].at].day)
    BY <1>2, <1>7 DEF Wants
  <2>2. r.of = "domain" /\ r.day = tx[x].items[tx[x].at].day
    BY <2>1 DEF DomainRow
  <2>3. PoolRow(r.day) \in tx[y].held
    BY <1>1, <1>2, <1>7, <2>2 DEF Orderly, Guarded, Asked
  <2>4. PoolRow(r.day) \in tx[x].held
    BY <1>1, <1>5, <1>7, <2>2 DEF Asked
  <2> QED BY <1>1, <2>3, <2>4
<1> QED BY <1>1, <1>2, <1>3, <1>4, <1>6, <1>7

(* Where a day's statement stands in the order of the ledger's rows.        *)
Rank(s) == CASE s.pc = "team" -> 2 * s.day
             [] s.pc = "pool" -> 2 * s.day + 1
             [] OTHER -> 0

LEMMA RankGrows ==
  ASSUME CapsInv, OrderInv, NEW x \in Txs, NEW y \in Txs, Blocks(y, x),
         tx[x].pc \in AtDay, tx[y].pc \in AtDay, Wants(y) \cap tx[y].held = {}
  PROVE  Rank(tx[x]) < Rank(tx[y])
<1> DEFINE s == tx[x]
           u == tx[y]
<1>1. /\ u \in Transactions /\ s \in Transactions /\ ByDay(u)
      /\ s.day \in Nat \ {0} /\ u.day \in Nat \ {0} /\ u.kind \in {"pool", "month"}
      /\ (u.pc = "period" => u.kind = "month")
  BY Facts, HeldDays DEF Orderly, Stage, Placed
<1>2. PICK r \in Wants(x) : r \in u.held
  BY DEF Blocks
<1>3. r.day <= u.day /\ u.held # {}
  BY <1>1, <1>2 DEF ByDay
<1>4. /\ u.pc = "period" => PeriodRow(u.team) \notin u.held
      /\ u.pc = "team" => TeamRow(u.team, u.day) \notin u.held
      /\ u.pc = "pool" => PoolRow(u.day) \notin u.held
  BY DEF Wants
<1>5. u.pc \in {"team", "pool"}
  BY <1>1, <1>3, <1>4 DEF ByDay, AtDay
<1>6. u.pc = "team" => r.day # u.day
  BY <1>1, <1>2, <1>4 DEF ByDay
<1>7. u.pc = "pool" => (r.day = u.day => r.of = "team")
  BY <1>1, <1>2, <1>4 DEF ByDay
<1>8. CASE s.pc = "period"
  BY <1>1, <1>5, <1>8 DEF Rank
<1>9. CASE s.pc = "team"
  <2>1. r = TeamRow(s.team, s.day)
    BY <1>2, <1>9 DEF Wants
  <2>2. r.day = s.day
    BY <2>1 DEF TeamRow
  <2> QED BY <1>1, <1>3, <1>5, <1>6, <1>9, <2>2 DEF Rank
<1>10. CASE s.pc = "pool"
  <2>1. r = PoolRow(s.day)
    BY <1>2, <1>10 DEF Wants
  <2>2. r.day = s.day /\ r.of = "pool"
    BY <2>1 DEF PoolRow
  <2> QED BY <1>1, <1>3, <1>5, <1>6, <1>7, <1>10, <2>2 DEF Rank
<1> QED BY <1>8, <1>9, <1>10 DEF AtDay

(* Who waits for a domain's row waits for one that is itself at a domain,   *)
(* and further on in the order of the batches.                              *)
LEMMA DomainGrows ==
  ASSUME CapsInv, OrderInv, NEW x \in Txs, NEW y \in Txs, x # y, Blocks(y, x),
         tx[x].pc = "domain", tx[y].pc \in AtDay \cup {"domain"}, Wants(y) \cap tx[y].held = {},
         NEW f \in [Items -> Nat], \A a \in Items, b \in Items : f[a] = f[b] => a = b,
         \A t \in Teams : \A b \in Batches[t] : \A i \in DOMAIN b, j \in DOMAIN b :
           i < j => f[b[i]] <= f[b[j]]
  PROVE  /\ tx[y].pc = "domain"
         /\ f[tx[x].items[tx[x].at]] < f[tx[y].items[tx[y].at]]
<1> DEFINE s == tx[x]
           u == tx[y]
           a == s.items[s.at]
           b == u.items[u.at]
<1>1. /\ u \in Transactions /\ s \in Transactions /\ Orderly(u) /\ Asked(u) /\ u.team \in Teams
      /\ s.at \in DOMAIN s.items /\ a \in Items
  <2>1. s \in Transactions /\ s.at \in DOMAIN s.items
    BY Facts DEF Stage, Placed, Waiting
  <2> QED BY <2>1, Facts, ItemTyped DEF Transactions
<1>2. PICK r \in Wants(x) : r \in u.held
  BY DEF Blocks
<1>3. r = DomainRow(a.key, a.day)
  BY <1>2 DEF Wants
<1>4. r.of = "domain"
  BY <1>3 DEF DomainRow
<1>5. u.pc = "domain"
  BY <1>1, <1>2, <1>4 DEF Orderly, ByDay, Plain
<1>6. u.at \in DOMAIN u.items /\ b \in Items /\ u.at \in Nat
  <2>1. u.at \in DOMAIN u.items
    BY <1>5, Facts DEF Stage, Placed, Waiting
  <2> QED BY <1>1, <2>1, ItemTyped
<1>7. PICK j \in DOMAIN u.items : j <= u.at - 1 /\ r = DomainRow(u.items[j].key, u.items[j].day)
  BY <1>1, <1>2, <1>4, <1>5 DEF Orderly, Upto
<1>8. u.items[j] \in Items /\ j \in Nat
  BY <1>1, ItemTyped
<1>9. u.items[j] = a
  <2>1. u.items[j].key = a.key /\ u.items[j].day = a.day
    BY <1>3, <1>7 DEF DomainRow
  <2> QED BY <1>1, <1>8, <2>1 DEF Items
<1>10. j < u.at
  BY <1>6, <1>7, <1>8
<1>11. u.items \in Batches[u.team]
  BY <1>1, <1>6 DEF Asked
<1>12. f[u.items[j]] <= f[b]
  BY <1>1, <1>6, <1>10, <1>11
<1>13. f[a] # f[b]
  <2> SUFFICES ASSUME a = b PROVE FALSE
    BY <1>1, <1>6
  <2>1. Wants(y) = {r}
    BY <1>3, <1>5 DEF Wants
  <2> QED BY <1>2, <2>1
<1>14. f[a] \in Nat /\ f[b] \in Nat
  BY <1>1, <1>6
<1> HIDE DEF a, b
<1>15. f[a] < f[b]
  BY <1>9, <1>12, <1>13, <1>14
<1> QED BY <1>5, <1>15 DEF a, b

LEMMA NoRing ==
  ASSUME CapsInv, OrderInv, OnePool \/ InOrder
  PROVE  NoDeadlock
<1> SUFFICES ASSUME NEW ring \in (SUBSET Txs) \ {{}},
                    ~(\E x \in ring : \A y \in ring \ {x} : ~Blocks(y, x))
             PROVE  FALSE
  BY Zenon DEF NoDeadlock, Blocks
<1>0. ring # {} /\ \A x \in ring : x \in Txs /\ \E y \in ring \ {x} : Blocks(y, x)
  OBVIOUS
<1>1. \A x \in ring : /\ tx[x].pc \in AtDay \cup {"domain"} /\ Wants(x) \cap tx[x].held = {}
                      /\ tx[x].pc = "domain" => ~OnePool
  BY <1>0, BlockedAt
<1>2. IsFiniteSet(ring)
  BY FS_Subset, CountersAssumption DEF CountersAssumption
<1>3. CASE \A x \in ring : tx[x].pc \in AtDay
  <2> DEFINE g == [x \in ring |-> Rank(tx[x])]
  <2>1. \A x \in ring : g[x] \in Nat
    <3> TAKE x \in ring
    <3>1. tx[x].day \in Nat
      BY Facts, HeldDays
    <3> QED BY <3>1 DEF Rank
  <2>2. \A x \in ring : \E y \in ring : g[x] < g[y]
    <3> TAKE x \in ring
    <3>1. PICK y \in ring \ {x} : Blocks(y, x)
      BY <1>0
    <3>2. Rank(tx[x]) < Rank(tx[y])
      BY <1>1, <1>3, <3>1, RankGrows
    <3> QED BY <3>1, <3>2
  <2> HIDE DEF g
  <2>3. PICK x \in ring : \A y \in ring : g[y] <= g[x]
    BY <1>0, <1>2, <2>1, Highest
  <2> QED BY <2>1, <2>2, <2>3
<1>4. CASE \E x \in ring : tx[x].pc \notin AtDay
  <2> DEFINE D == {x \in ring : tx[x].pc = "domain"}
  <2>1. D # {} /\ ~OnePool
    BY <1>1, <1>4
  <2>2. InOrder
    BY <2>1
  <2>3. PICK f \in [Items -> Nat] :
          /\ \A a \in Items, b \in Items : f[a] = f[b] => a = b
          /\ \A t \in Teams : \A b \in Batches[t] : \A i \in DOMAIN b, j \in DOMAIN b :
               i < j => f[b[i]] <= f[b[j]]
    BY <2>2 DEF InOrder
  <2> DEFINE g == [x \in D |-> f[tx[x].items[tx[x].at]]]
  <2>4. \A x \in D : g[x] \in Nat
    <3> TAKE x \in D
    <3>1. tx[x] \in Transactions /\ tx[x].at \in DOMAIN tx[x].items
      BY Facts DEF Stage, Placed, Waiting
    <3>2. tx[x].items[tx[x].at] \in Items
      BY <3>1, ItemTyped
    <3> QED BY <2>3, <3>2
  <2>5. \A x \in D : \E y \in D : g[x] < g[y]
    <3> TAKE x \in D
    <3>1. PICK y \in ring \ {x} : Blocks(y, x)
      BY <1>0
    <3>2. /\ tx[y].pc = "domain"
          /\ f[tx[x].items[tx[x].at]] < f[tx[y].items[tx[y].at]]
      BY <1>1, <2>3, <3>1, DomainGrows
    <3> QED BY <3>1, <3>2
  <2>6. IsFiniteSet(D)
    BY <1>2, FS_Subset
  <2> HIDE DEF g, D
  <2>7. PICK x \in D : \A y \in D : g[y] <= g[x]
    BY <2>1, <2>4, <2>6, Highest
  <2> QED BY <2>4, <2>5, <2>7
<1> QED BY <1>3, <1>4

(* No ring of connections ever waits for each other's rows, among any       *)
(* number of them: over one pool's teams, or where every batch names its    *)
(* days and domains in one order.                                           *)
THEOREM NoRingWaits == ASSUME OnePool \/ InOrder PROVE Spec => []NoDeadlock
<1>1. CapsInv /\ OrderInv => NoDeadlock
  BY NoRing
<1> QED BY <1>1, Ordered, PTL
=============================================================================
