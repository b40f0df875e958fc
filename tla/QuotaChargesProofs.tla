------------------------- MODULE QuotaChargesProofs -------------------------
(***************************************************************************)
(* Theorems about what QuotaCounters charges, for any teams, days,         *)
(* domains, batches, connections and ceilings: a team's day counts exactly *)
(* its mail, the pool and the period do as long as no team changes plan,   *)
(* the pool covers the mail of its teams until one falls back to Free, and *)
(* the two warm-up counters move together.                                 *)
(***************************************************************************)
EXTENDS QuotaCountersProofs, FunctionTheorems

-----------------------------------------------------------------------------
(* Sums. *)

LEMMA CopiesOf ==
  ASSUME NEW S, NEW f \in [S -> Nat], NEW c
  PROVE  c \in Copies(f) <=> \E e \in S : \E i \in 1..f[e] : c = <<e, i>>
<1>1. DOMAIN f = S
  OBVIOUS
<1> QED BY <1>1 DEF Copies

LEMMA TotalNat ==
  ASSUME NEW S, IsFiniteSet(S), NEW f \in [S -> Nat]
  PROVE  IsFiniteSet(Copies(f)) /\ Total(f) \in Nat
<1> DEFINE parts == {{e} \X (1..f[e]) : e \in S}
<1>1. IsFiniteSet(parts)
  <2> DEFINE g == [e \in S |-> {e} \X (1..f[e])]
  <2>1. g \in Surjection(S, parts)
    <3>1. g \in [S -> parts] /\ \A p \in parts : \E e \in S : g[e] = p
      OBVIOUS
    <3> QED BY <3>1, Fun_IsSurj
  <2> QED BY <2>1, FS_Surjection
<1>2. \A p \in parts : IsFiniteSet(p)
  <2> TAKE p \in parts
  <2>1. PICK e \in S : p = {e} \X (1..f[e])
    OBVIOUS
  <2>2. IsFiniteSet({e}) /\ IsFiniteSet(1..f[e])
    <3>1. f[e] \in Int /\ 1 \in Int
      OBVIOUS
    <3>2. IsFiniteSet(1..f[e])
      BY <3>1, FS_Interval
    <3> QED BY <3>2, FS_Singleton
  <2> QED BY <2>1, <2>2, FS_Product
<1>3. Copies(f) = UNION parts
  BY DEF Copies
<1>4. IsFiniteSet(Copies(f))
  BY <1>1, <1>2, <1>3, FS_UNION
<1> QED BY <1>4, FS_CardinalityType DEF Total

(* The sum of two functions' values is the sum of their sums.               *)
LEMMA TotalAdd ==
  ASSUME NEW S, IsFiniteSet(S), NEW f \in [S -> Nat], NEW g \in [S -> Nat],
         NEW h \in [S -> Nat], \A e \in S : h[e] = f[e] + g[e]
  PROVE  Total(h) = Total(f) + Total(g)
<1> DEFINE B == Copies(h) \ Copies(f)
           shift == [c \in Copies(g) |-> <<c[1], c[2] + f[c[1]]>>]
<1>1. /\ IsFiniteSet(Copies(f)) /\ IsFiniteSet(Copies(g)) /\ IsFiniteSet(Copies(h))
      /\ Total(f) \in Nat /\ Total(g) \in Nat /\ Total(h) \in Nat
  BY TotalNat
<1>2. \A e \in S : f[e] \in Nat /\ g[e] \in Nat /\ h[e] \in Nat
  OBVIOUS
<1>3. Copies(f) \subseteq Copies(h)
  <2> SUFFICES ASSUME NEW c \in Copies(f) PROVE c \in Copies(h)
    OBVIOUS
  <2>1. PICK e \in S : \E i \in 1..f[e] : c = <<e, i>>
    BY CopiesOf
  <2>2. \A i \in 1..f[e] : i \in 1..h[e]
    BY <1>2
  <2> QED BY <2>1, <2>2, CopiesOf
<1>4. \A c \in Copies(g) : shift[c] \in B
  <2> TAKE c \in Copies(g)
  <2>1. PICK e \in S : \E i \in 1..g[e] : c = <<e, i>>
    BY CopiesOf
  <2>2. PICK i \in 1..g[e] : c = <<e, i>>
    BY <2>1
  <2>3. shift[c] = <<e, i + f[e]>>
    BY <2>2
  <2>4. i + f[e] \in 1..h[e] /\ i + f[e] \notin 1..f[e]
    BY <1>2
  <2>5. shift[c] \in Copies(h)
    BY <2>3, <2>4, CopiesOf
  <2>6. shift[c] \notin Copies(f)
    BY <2>3, <2>4, CopiesOf
  <2> QED BY <2>5, <2>6
<1>5. \A c \in Copies(g), d \in Copies(g) : shift[c] = shift[d] => c = d
  <2> TAKE c \in Copies(g), d \in Copies(g)
  <2>1. PICK e \in S : \E i \in 1..g[e] : c = <<e, i>>
    BY CopiesOf
  <2>2. PICK i \in 1..g[e] : c = <<e, i>>
    BY <2>1
  <2>3. PICK u \in S : \E j \in 1..g[u] : d = <<u, j>>
    BY CopiesOf
  <2>4. PICK j \in 1..g[u] : d = <<u, j>>
    BY <2>3
  <2>5. shift[c] = <<e, i + f[e]>> /\ shift[d] = <<u, j + f[u]>>
    BY <2>2, <2>4
  <2> QED BY <1>2, <2>2, <2>4, <2>5
<1>6. \A b \in B : \E c \in Copies(g) : shift[c] = b
  <2> TAKE b \in B
  <2>1. PICK e \in S : \E i \in 1..h[e] : b = <<e, i>>
    BY CopiesOf
  <2>2. PICK i \in 1..h[e] : b = <<e, i>>
    BY <2>1
  <2>3. i \notin 1..f[e]
    BY <2>2, CopiesOf
  <2>4. i - f[e] \in 1..g[e] /\ i - f[e] + f[e] = i
    BY <1>2, <2>3
  <2>5. <<e, i - f[e]>> \in Copies(g)
    BY <2>4, CopiesOf
  <2> QED BY <2>2, <2>4, <2>5
<1>7. shift \in Bijection(Copies(g), B)
  <2>1. shift \in [Copies(g) -> B]
    BY <1>4
  <2> HIDE DEF shift, B
  <2> QED BY <1>5, <1>6, <2>1, Fun_IsBij
<1>8. Cardinality(B) = Total(g)
  <2>1. ExistsBijection(Copies(g), B)
    BY <1>7, Fun_ExistsBij
  <2> QED BY <1>1, <2>1, FS_Bijection DEF Total
<1>9. Cardinality(B) = Cardinality(Copies(h)) - Cardinality(Copies(f))
  <2>1. Copies(h) \cap Copies(f) = Copies(f)
    BY <1>3
  <2>2. Cardinality(B) = Cardinality(Copies(h)) - Cardinality(Copies(h) \cap Copies(f))
    BY <1>1, FS_Difference
  <2> QED BY <2>1, <2>2
<1> QED BY <1>1, <1>8, <1>9 DEF Total

LEMMA TotalZero ==
  ASSUME NEW S, NEW f \in [S -> Nat], \A e \in S : f[e] = 0
  PROVE  Total(f) = 0
<1>1. Copies(f) = {}
  <2> SUFFICES ASSUME NEW c \in Copies(f) PROVE FALSE
    OBVIOUS
  <2>1. PICK e \in S : \E i \in 1..f[e] : c = <<e, i>>
    BY CopiesOf
  <2> QED BY <2>1
<1> QED BY <1>1, FS_EmptySet DEF Total

(* A function with one value apart from zero.                               *)
LEMMA TotalOne ==
  ASSUME NEW S, NEW a \in S, NEW n \in Nat, NEW f \in [S -> Nat],
         \A e \in S : f[e] = IF e = a THEN n ELSE 0
  PROVE  Total(f) = n
<1> DEFINE g == [i \in 1..n |-> <<a, i>>]
<1>1. \A i \in 1..n : g[i] \in Copies(f)
  <2>1. f[a] = n
    OBVIOUS
  <2> QED BY <2>1, CopiesOf
<1>2. \A c \in Copies(f) : \E i \in 1..n : g[i] = c
  <2> TAKE c \in Copies(f)
  <2>1. PICK e \in S : \E i \in 1..f[e] : c = <<e, i>>
    BY CopiesOf
  <2>2. PICK i \in 1..f[e] : c = <<e, i>>
    BY <2>1
  <2>3. e = a
    BY <2>2
  <2> QED BY <2>2, <2>3
<1>3. g \in [1..n -> Copies(f)] /\ \A i \in 1..n, j \in 1..n : g[i] = g[j] => i = j
  BY <1>1
<1> HIDE DEF g
<1>4. ExistsBijection(1..n, Copies(f))
  BY <1>2, <1>3, Fun_IsBij, Fun_ExistsBij
<1> QED BY <1>4, FS_CountingElements DEF Total

(* A sum one of whose terms changes by n.                                   *)
LEMMA TotalStep ==
  ASSUME NEW S, IsFiniteSet(S), NEW a \in S, NEW n \in Nat, NEW f \in [S -> Nat],
         NEW h \in [S -> Nat], \A e \in S : h[e] = f[e] + IF e = a THEN n ELSE 0
  PROVE  Total(h) = Total(f) + n
<1> DEFINE g == [e \in S |-> IF e = a THEN n ELSE 0]
<1>1. g \in [S -> Nat] /\ \A e \in S : g[e] = IF e = a THEN n ELSE 0
  OBVIOUS
<1> HIDE DEF g
<1>2. Total(g) = n
  BY <1>1, TotalOne
<1>3. \A e \in S : h[e] = f[e] + g[e]
  BY <1>1
<1> QED BY <1>1, <1>2, <1>3, TotalAdd

(* A sum over the teams one of whose terms changes by n.                    *)
LEMMA TeamsStep ==
  ASSUME NEW a \in Teams, NEW n \in Nat, NEW f \in [Teams -> Nat], NEW h \in [Teams -> Nat],
         \A t \in Teams : h[t] = f[t] + IF t = a THEN n ELSE 0
  PROVE  Total(h) = Total(f) + n
<1>1. IsFiniteSet(Teams)
  BY CountersAssumption DEF CountersAssumption
<1> QED BY <1>1, TotalStep

(* A term is at most its sum.                                               *)
LEMMA TotalTerm ==
  ASSUME NEW S, IsFiniteSet(S), NEW a \in S, NEW f \in [S -> Nat]
  PROVE  f[a] <= Total(f)
<1> DEFINE g == [e \in S |-> IF e = a THEN 0 ELSE f[e]]
<1>1. g \in [S -> Nat] /\ \A e \in S : f[e] = g[e] + IF e = a THEN f[a] ELSE 0
  OBVIOUS
<1> HIDE DEF g
<1>2. f[a] \in Nat /\ Total(g) \in Nat
  BY <1>1, TotalNat
<1>3. Total(f) = Total(g) + f[a]
  BY <1>1, <1>2, TotalStep
<1> QED BY <1>2, <1>3

-----------------------------------------------------------------------------
(* What the parts of a statement do to what a transaction adds. *)

LEMMA AddDelta ==
  ASSUME NEW s \in Transactions, NEW r \in Rows, NEW n \in Int
  PROVE  /\ Add(s, r, n) \in Transactions /\ Alike(s, Add(s, r, n))
         /\ \A q \in Rows : Add(s, r, n).delta[q] = s.delta[q] + IF q = r THEN n ELSE 0
<1> DEFINE u == Add(s, r, n)
           dd == [s.delta EXCEPT ![r] = s.delta[r] + n]
           hh == s.held \cup {r}
<1>1. u = [s EXCEPT !.held = hh, !.delta = dd]
  BY DEF Add, Locked, Transactions
<1>2. dd \in [Rows -> Int] /\ hh \in SUBSET Rows
  BY DEF Transactions
<1>3. \A q \in Rows : dd[q] = s.delta[q] + IF q = r THEN n ELSE 0
  BY DEF Transactions
<1> HIDE DEF dd, hh
<1>4. u \in Transactions /\ Alike(s, u) /\ u.delta = dd
  BY <1>1, <1>2 DEF Transactions, Alike
<1> QED BY <1>3, <1>4

LEMMA LockedDelta ==
  ASSUME NEW s \in Transactions, NEW r \in Rows
  PROVE  /\ Locked(s, r) \in Transactions /\ Alike(s, Locked(s, r))
         /\ Locked(s, r).delta = s.delta
BY DEF Locked, Transactions, Alike

LEMMA GiveBackDelta ==
  ASSUME NEW s \in Transactions, NEW r \in Rows, count \in [Rows -> Nat]
  PROVE  LET u == GiveBack(s, r) IN
         /\ u \in Transactions /\ Alike(s, u)
         /\ \A q \in Rows \ {r} : u.delta[q] = s.delta[q]
         /\ u.delta[r] = s.delta[r] - 1 \/ u.delta[r] = s.delta[r]
         /\ Value(s, r) > 0 => u.delta[r] = s.delta[r] - 1
<1>1. s.delta \in [Rows -> Int] /\ -1 \in Int
  BY DEF Transactions
<1>2. CASE Value(s, r) > 0
  <2>1. GiveBack(s, r) = Add(s, r, -1)
    BY <1>2 DEF GiveBack
  <2>2. /\ Add(s, r, -1) \in Transactions /\ Alike(s, Add(s, r, -1))
        /\ \A q \in Rows : Add(s, r, -1).delta[q] = s.delta[q] + IF q = r THEN -1 ELSE 0
    BY <1>1, AddDelta
  <2>3. \A q \in Rows : s.delta[q] \in Int
    BY <1>1
  <2> QED BY <1>2, <2>1, <2>2, <2>3
<1>3. CASE ~(Value(s, r) > 0)
  <2>1. GiveBack(s, r) = Locked(s, r)
    BY <1>3 DEF GiveBack
  <2> QED BY <1>1, <1>3, <2>1, LockedDelta
<1> QED BY <1>2, <1>3

LEMMA NextItemGoes ==
  ASSUME NEW s \in Transactions
  PROVE  LET u == NextItem(s) IN
         /\ Goes(s, u) /\ u.pc \in {"commit", "warm"} /\ u.parked = s.parked
         /\ u.todo = s.todo /\ u.day = s.day
<1> DEFINE rest == {i \in Waiting(s) : i > s.at}
           next == CHOOSE i \in rest : \A j \in rest : i <= j
<1>1. CASE rest = {}
  BY <1>1 DEF NextItem, Goes, Transactions, Pcs
<1>2. CASE rest # {}
  <2>1. rest \in SUBSET Nat
    BY DEF Waiting, Transactions
  <2>2. next \in Nat
    BY <1>2, <2>1, Least
  <2>3. NextItem(s) = [s EXCEPT !.at = next, !.pc = "warm"]
    BY <1>2 DEF NextItem
  <2> HIDE DEF next
  <2> QED BY <2>2, <2>3 DEF Goes, Transactions, Pcs
<1> QED BY <1>1, <1>2

LEMMA NextDayGoes ==
  ASSUME NEW s \in Transactions
  PROVE  LET u == NextDay(s) IN
         /\ Goes(s, u) /\ u.parked = s.parked
         /\ s.todo = {} => /\ u.pc \in {"review", "commit", "warm"} /\ u.todo = {}
                           /\ u.day = s.day
         /\ s.todo # {} => /\ u.pc = First(s) /\ u.day \in s.todo /\ u.todo = s.todo \ {u.day}
                           /\ u.try = Cardinality(Group(s, u.day))
<1>1. CASE s.todo = {} /\ s.review
  BY <1>1 DEF NextDay, Goes, Transactions, Pcs
<1>2. CASE s.todo = {} /\ ~s.review
  BY <1>2, NextItemGoes DEF NextDay
<1>3. CASE s.todo # {}
  <2> DEFINE d == Earliest(s)
             n == Cardinality(Group(s, d))
  <2>1. s.todo \in SUBSET Nat
    BY CountersAssumption DEF CountersAssumption, Transactions
  <2>2. d \in s.todo /\ d \in Days
    BY <1>3, <2>1, Least DEF Earliest, Transactions
  <2>3. n \in Nat
    BY GroupSize
  <2>4. NextDay(s) = [s EXCEPT !.day = d, !.todo = s.todo \ {d}, !.try = n, !.pc = First(s)]
    BY <1>3 DEF NextDay, Transactions
  <2>5. First(s) \in Pcs
    BY DEF First, Pcs
  <2>6. n = Cardinality(Group(s, d))
    OBVIOUS
  <2> HIDE DEF d, n
  <2>7. /\ NextDay(s) \in Transactions /\ NextDay(s).day = d /\ NextDay(s).try = n
        /\ Goes(s, NextDay(s)) /\ NextDay(s).parked = s.parked
        /\ NextDay(s).pc = First(s) /\ NextDay(s).todo = s.todo \ {d}
    BY <2>2, <2>3, <2>4, <2>5 DEF Transactions, Goes
  <2> QED BY <1>3, <2>2, <2>6, <2>7
<1> QED BY <1>1, <1>2, <1>3

(* An item is handed back: its rows lose one each, no other row changes.    *)
LEMMA ReturnedDelta ==
  ASSUME NEW s \in Transactions, NEW i \in Waiting(s), count \in [Rows -> Nat]
  PROVE  LET u == Returned(s, i) IN
         /\ u \in Transactions /\ u.pc = s.pc /\ u.job = s.job /\ u.team = s.team
         /\ u.kind = s.kind /\ u.items = s.items /\ u.was = s.was /\ u.todo = s.todo
         /\ u.day = s.day /\ u.at = s.at /\ u.parked = s.parked \cup {i}
         /\ \A q \in Rows \ Charge(s, i) : u.delta[q] = s.delta[q]
         /\ \A q \in Charge(s, i) : s.delta[q] > 0 => u.delta[q] = s.delta[q] - 1
<1> DEFINE d == s.items[i].day
           s1 == IF s.kind = "month" THEN GiveBack(s, PeriodRow(s.team)) ELSE s
           s2 == GiveBack(s1, TeamRow(s.team, d))
           s3 == IF s.kind = "pool" THEN GiveBack(s2, PoolRow(d)) ELSE s2
           p == IF s.kind = "pool" THEN PoolRow(d) ELSE PeriodRow(s.team)
<1>1. /\ d \in Days /\ s.team \in Teams /\ i \in Nat /\ s.kind \in {"pool", "month"}
  <2>1. i \in DOMAIN s.items /\ s.items \in Seq(Items)
    BY DEF Waiting, Transactions
  <2>2. i \in Nat /\ s.items[i] \in Items
    BY <2>1
  <2> QED BY <2>2 DEF Transactions, Items, Kinds
<1>2. {TeamRow(s.team, d), PoolRow(d), PeriodRow(s.team)} \subseteq Rows
  BY <1>1 DEF Rows
<1>3. /\ TeamRow(s.team, d) # PoolRow(d) /\ TeamRow(s.team, d) # PeriodRow(s.team)
      /\ Charge(s, i) = {TeamRow(s.team, d), p}
  BY DEF Charge, TeamRow, PoolRow, PeriodRow
<1>4. ASSUME NEW v \in Transactions, NEW q \in Rows, v.delta[q] > 0
      PROVE  Value(v, q) > 0
  BY <1>4 DEF Value, Transactions
<1> HIDE DEF d
<1>5. /\ s1 \in Transactions /\ Alike(s, s1)
      /\ \A q \in Rows : q # p \/ s.kind = "pool" => s1.delta[q] = s.delta[q]
      /\ s.kind = "month" /\ s.delta[p] > 0 => s1.delta[p] = s.delta[p] - 1
  <2>1. CASE s.kind = "month"
    <3>1. s1 = GiveBack(s, PeriodRow(s.team)) /\ PeriodRow(s.team) \in Rows /\ p = PeriodRow(s.team)
      BY <1>2, <2>1
    <3> HIDE DEF s1, p
    <3> QED BY <1>4, <2>1, <3>1, GiveBackDelta
  <2>2. CASE s.kind # "month"
    BY <1>1, <2>2 DEF Alike
  <2> QED BY <2>1, <2>2
<1> HIDE DEF s1
<1>6. /\ s2 \in Transactions /\ Alike(s1, s2)
      /\ \A q \in Rows \ {TeamRow(s.team, d)} : s2.delta[q] = s1.delta[q]
      /\ s1.delta[TeamRow(s.team, d)] > 0 =>
           s2.delta[TeamRow(s.team, d)] = s1.delta[TeamRow(s.team, d)] - 1
  BY <1>2, <1>4, <1>5, GiveBackDelta
<1> HIDE DEF s2
<1>7. /\ s3 \in Transactions /\ Alike(s2, s3)
      /\ \A q \in Rows : q # p \/ s.kind = "month" => s3.delta[q] = s2.delta[q]
      /\ s.kind = "pool" /\ s2.delta[p] > 0 => s3.delta[p] = s2.delta[p] - 1
  <2>1. CASE s.kind = "pool"
    <3>1. s3 = GiveBack(s2, PoolRow(d)) /\ PoolRow(d) \in Rows /\ p = PoolRow(d)
      BY <1>2, <2>1
    <3> HIDE DEF s3, p
    <3> QED BY <1>4, <1>6, <2>1, <3>1, GiveBackDelta
  <2>2. CASE s.kind # "pool"
    BY <1>1, <1>6, <2>2 DEF Alike
  <2> QED BY <2>1, <2>2
<1>8. Returned(s, i) = [s3 EXCEPT !.parked = s3.parked \cup {i}]
  BY <1>7 DEF Returned, s1, s2, s3, d, Transactions
<1> HIDE DEF s3
<1>9. Alike(s, s3)
  BY <1>5, <1>6, <1>7 DEF Alike
<1>10. /\ Returned(s, i) \in Transactions /\ Returned(s, i).delta = s3.delta
       /\ Returned(s, i).parked = s.parked \cup {i}
       /\ Returned(s, i).pc = s.pc /\ Returned(s, i).job = s.job /\ Returned(s, i).team = s.team
       /\ Returned(s, i).kind = s.kind /\ Returned(s, i).items = s.items
       /\ Returned(s, i).was = s.was /\ Returned(s, i).todo = s.todo
       /\ Returned(s, i).day = s.day /\ Returned(s, i).at = s.at
  <2>1. s3.parked \cup {i} \in SUBSET Nat
    BY <1>1, <1>7 DEF Transactions
  <2>2. ASSUME NEW pp \in SUBSET Nat
        PROVE  LET u == [s3 EXCEPT !.parked = pp]
               IN /\ u \in Transactions /\ u.delta = s3.delta /\ u.parked = pp /\ u.pc = s3.pc
                  /\ u.job = s3.job /\ u.team = s3.team /\ u.kind = s3.kind
                  /\ u.items = s3.items /\ u.was = s3.was /\ u.todo = s3.todo
                  /\ u.day = s3.day /\ u.at = s3.at
    BY <1>7 DEF Transactions
  <2> QED BY <1>8, <1>9, <2>1, <2>2 DEF Alike
<1>11. \A q \in Rows \ Charge(s, i) : s3.delta[q] = s.delta[q]
  <2> TAKE q \in Rows \ Charge(s, i)
  <2>1. q # p /\ q # TeamRow(s.team, d)
    BY <1>3
  <2> HIDE DEF p
  <2> QED BY <1>5, <1>6, <1>7, <2>1
<1>12. \A q \in Charge(s, i) : s.delta[q] > 0 => s3.delta[q] = s.delta[q] - 1
  <2> TAKE q \in Charge(s, i)
  <2>1. p \in Rows /\ p # TeamRow(s.team, d) /\ q \in {TeamRow(s.team, d), p}
    BY <1>2, <1>3
  <2> HIDE DEF p
  <2>2. CASE q = p
    BY <1>1, <1>5, <1>6, <1>7, <2>1, <2>2
  <2>3. CASE q = TeamRow(s.team, d)
    BY <1>1, <1>2, <1>5, <1>6, <1>7, <2>1, <2>3
  <2> QED BY <2>1, <2>2, <2>3
<1> QED BY <1>10, <1>11, <1>12

-----------------------------------------------------------------------------
(* The two warm-up counters. *)

WarmSum(s, d) == Total([k \in Keys |-> s.delta[DomainRow(k, d)]])

(* What a transaction adds to its team's warm-up is what it adds to domains,*)
(* and w more on the day of the item it is at.                              *)
WarmLedger(s, w) ==
  \A d \in Days :
    /\ \A k \in Keys : s.delta[DomainRow(k, d)] \in Nat
    /\ \A t \in Teams : s.delta[WarmRow(t, d)] =
         IF t = s.team THEN WarmSum(s, d) + (IF d = s.items[s.at].day THEN w ELSE 0) ELSE 0

WarmBooks(s) == WarmLedger(s, IF s.pc = "domain" THEN 1 ELSE 0)

WarmInv == WarmTogether /\ \A x \in Txs : WarmBooks(tx[x])

SameWarm(s, u) ==
  \A d \in Days : /\ \A k \in Keys : u.delta[DomainRow(k, d)] = s.delta[DomainRow(k, d)]
                  /\ \A t \in Teams : u.delta[WarmRow(t, d)] = s.delta[WarmRow(t, d)]

LEMMA EvenKept ==
  ASSUME NEW s \in Transactions, NEW u \in Transactions, u.team = s.team, SameWarm(s, u),
         WarmLedger(s, 0), u.pc # "domain"
  PROVE  WarmBooks(u)
<1> SUFFICES ASSUME NEW d \in Days
             PROVE  /\ \A k \in Keys : u.delta[DomainRow(k, d)] \in Nat
                    /\ \A t \in Teams : u.delta[WarmRow(t, d)] =
                         IF t = u.team THEN WarmSum(u, d) + 0 ELSE 0
  BY DEF WarmBooks, WarmLedger
<1>1. WarmSum(u, d) = WarmSum(s, d)
  <2>1. [k \in Keys |-> u.delta[DomainRow(k, d)]] = [k \in Keys |-> s.delta[DomainRow(k, d)]]
    BY DEF SameWarm
  <2> QED BY <2>1 DEF WarmSum
<1>2. \A t \in Teams : s.delta[WarmRow(t, d)] = IF t = s.team THEN WarmSum(s, d) + 0 ELSE 0
  BY DEF WarmLedger
<1> QED BY <1>1, <1>2 DEF WarmLedger, SameWarm

LEMMA WarmSumNat ==
  ASSUME NEW s, NEW d \in Days, \A k \in Keys : s.delta[DomainRow(k, d)] \in Nat
  PROVE  WarmSum(s, d) \in Nat
BY TotalNat, CountersAssumption DEF CountersAssumption, WarmSum

LEMMA WarmStep ==
  ASSUME WarmInv, CapsInv, NEW x \in Txs, NEW u, WarmBooks(u), Step(x, u)
  PROVE  WarmInv'
<1>1. tx' = [tx EXCEPT ![x] = u] /\ count' = count
  BY DEF Step
<1>2. \A y \in Txs : tx'[y] = IF y = x THEN u ELSE tx[y]
  BY <1>1 DEF CapsInv
<1>3. WarmTogether'
  BY <1>1 DEF WarmInv, WarmTogether
<1>4. \A y \in Txs : WarmBooks(tx'[y])
  BY <1>2 DEF WarmInv
<1> QED BY <1>3, <1>4 DEF WarmInv, WarmBooks, WarmLedger, WarmSum

LEMMA ZeroWarm ==
  ASSUME NEW u, \A q \in Rows : u.delta[q] = 0, u.pc # "domain"
  PROVE  WarmBooks(u)
<1> SUFFICES ASSUME NEW d \in Days
             PROVE  /\ \A k \in Keys : u.delta[DomainRow(k, d)] \in Nat
                    /\ \A t \in Teams : u.delta[WarmRow(t, d)] =
                         IF t = u.team THEN WarmSum(u, d) + 0 ELSE 0
  BY DEF WarmBooks, WarmLedger
<1>1. /\ \A k \in Keys : u.delta[DomainRow(k, d)] = 0
      /\ \A t \in Teams : u.delta[WarmRow(t, d)] = 0
  BY DEF Rows
<1>2. WarmSum(u, d) = 0
  <2> DEFINE f == [k \in Keys |-> u.delta[DomainRow(k, d)]]
  <2>1. f \in [Keys -> Nat] /\ \A k \in Keys : f[k] = 0
    BY <1>1
  <2> HIDE DEF f
  <2>2. Total(f) = 0
    BY <2>1, TotalZero
  <2> QED BY <2>2 DEF WarmSum, f
<1> QED BY <1>1, <1>2

LEMMA IdleWarm == WarmBooks(Idle)
<1>1. (\A q \in Rows : Idle.delta[q] = 0) /\ Idle.pc = "idle"
  BY DEF Idle
<1> QED BY <1>1, ZeroWarm

(* The rows of the plan are not the rows of the warm-up.                    *)
PlanRow(q) == q.of \in {"team", "pool", "period"}

LEMMA PlanRows ==
  /\ \A t, d, k : /\ PlanRow(TeamRow(t, d)) /\ PlanRow(PoolRow(d)) /\ PlanRow(PeriodRow(t))
                  /\ ~PlanRow(WarmRow(t, d)) /\ ~PlanRow(DomainRow(k, d))
  /\ \A s, i : \A q \in Charge(s, i) : PlanRow(q)
BY DEF PlanRow, TeamRow, PoolRow, PeriodRow, WarmRow, DomainRow, Charge

LEMMA PlanOnly ==
  ASSUME NEW s, NEW u, \A q \in Rows : ~PlanRow(q) => u.delta[q] = s.delta[q]
  PROVE  SameWarm(s, u)
<1> SUFFICES ASSUME NEW d \in Days
             PROVE  /\ \A k \in Keys : u.delta[DomainRow(k, d)] = s.delta[DomainRow(k, d)]
                    /\ \A t \in Teams : u.delta[WarmRow(t, d)] = s.delta[WarmRow(t, d)]
  BY DEF SameWarm
<1>1. \A k \in Keys : DomainRow(k, d) \in Rows /\ ~PlanRow(DomainRow(k, d))
  BY PlanRows DEF Rows
<1>2. \A t \in Teams : WarmRow(t, d) \in Rows /\ ~PlanRow(WarmRow(t, d))
  BY PlanRows DEF Rows
<1> QED BY <1>1, <1>2

LEMMA RefusedGoes ==
  ASSUME NEW v \in Transactions, v.parked \subseteq DOMAIN v.items
  PROVE  /\ Goes(v, Refused(v)) /\ Refused(v).pc # "domain"
         /\ Goes(v, Reserved(v)) /\ Reserved(v).pc # "domain"
<1>1. \A u : u \in Transactions => Goes(u, NextDay(u)) /\ NextDay(u).pc # "domain"
  BY NextDayGoes DEF First
<1>2. \A keep : Goes(v, Parked(v, keep))
  BY ParkedGoes
<1>3. \A keep : Goes(v, NextDay(Parked(v, keep))) /\ NextDay(Parked(v, keep)).pc # "domain"
  BY <1>1, <1>2 DEF Goes
<1>4. CASE v.try = Cardinality(Group(v, v.day)) /\ Room(v) \in 1..(v.try - 1)
  <2> DEFINE k == Room(v)
  <2>1. k \in Nat /\ Refused(v) = [v EXCEPT !.try = k, !.pc = First(v)]
    BY <1>4 DEF Transactions, Refused
  <2> HIDE DEF k
  <2>2. Goes(v, Refused(v)) /\ Refused(v).pc # "domain"
    BY <2>1 DEF Goes, Transactions, Pcs, First
  <2> QED BY <1>3, <2>2 DEF Reserved
<1>5. CASE ~(v.try = Cardinality(Group(v, v.day)) /\ Room(v) \in 1..(v.try - 1))
  BY <1>3, <1>5 DEF Refused, Reserved
<1> QED BY <1>4, <1>5

(* A statement on the rows of the plan.                                     *)
LEMMA PlanStatement ==
  ASSUME CapsInv, WarmInv, NEW x \in Txs, tx[x].pc # "domain",
         NEW v \in Transactions, v.team = tx[x].team,
         \A q \in Rows : ~PlanRow(q) => v.delta[q] = tx[x].delta[q],
         NEW u, Goes(v, u), u.pc # "domain", Step(x, u)
  PROVE  WarmInv'
<1>1. tx[x] \in Transactions /\ WarmLedger(tx[x], 0)
  BY TxTyped DEF WarmInv, WarmBooks
<1>2. u \in Transactions /\ u.team = tx[x].team /\ u.delta = v.delta
  BY DEF Goes
<1>3. SameWarm(tx[x], u)
  BY <1>2, PlanOnly
<1> QED BY <1>1, <1>2, <1>3, EvenKept, WarmStep

LEMMA TakePlanWarm ==
  ASSUME CapsInv, WarmInv, NEW x \in Txs, TakePeriod(x) \/ TakeTeam(x) \/ TakePool(x)
  PROVE  WarmInv'
<1> DEFINE s == tx[x]
           p == PeriodRow(s.team)
           q == TeamRow(s.team, s.day)
           o == PoolRow(s.day)
<1>1. /\ s \in Transactions /\ s.try \in Int /\ -s.try \in Int /\ s.parked \subseteq DOMAIN s.items
      /\ {p, q, o} \subseteq Rows /\ PlanRow(p) /\ PlanRow(q) /\ PlanRow(o)
      /\ s.pc # "domain"
  <2>1. s \in Transactions /\ s.parked \subseteq DOMAIN s.items /\ s.pc # "domain"
    BY TxTyped DEF TakePeriod, TakeTeam, TakePool
  <2>2. s.team \in Teams /\ s.day \in Days /\ s.try \in Nat
    BY <2>1 DEF Transactions
  <2> QED BY <2>1, <2>2, PlanRows DEF Rows
<1> DEFINE kept(v) == /\ v \in Transactions /\ Alike(s, v)
                      /\ \A r \in Rows : ~PlanRow(r) => v.delta[r] = s.delta[r]
<1>2. kept(s)
  BY <1>1 DEF Alike
<1>3. ASSUME NEW v, kept(v), NEW r \in {p, q, o}, NEW n \in {s.try, -s.try}
      PROVE  kept(Locked(v, r)) /\ kept(Add(v, r, n))
  <2>1. kept(Locked(v, r))
    <3>1. r \in Rows
      BY <1>1, <1>3
    <3>2. /\ Locked(v, r) \in Transactions /\ Alike(v, Locked(v, r))
          /\ Locked(v, r).delta = v.delta
      BY <1>3, <3>1, LockedDelta
    <3> QED BY <1>3, <3>2 DEF Alike
  <2>2. n \in Int /\ r \in Rows /\ PlanRow(r)
    BY <1>1, <1>3
  <2>3. /\ Add(v, r, n) \in Transactions /\ Alike(v, Add(v, r, n))
        /\ \A w \in Rows : Add(v, r, n).delta[w] = v.delta[w] + IF w = r THEN n ELSE 0
    BY <1>3, <2>2, AddDelta
  <2>4. \A w \in Rows : ~PlanRow(w) => Add(v, r, n).delta[w] = s.delta[w]
    <3>1. v.delta \in [Rows -> Int]
      BY <1>3 DEF Transactions
    <3>2. \A w \in Rows : w # r => Add(v, r, n).delta[w] = v.delta[w]
      BY <2>3, <3>1
    <3> QED BY <1>3, <2>2, <3>2
  <2> QED BY <1>3, <2>1, <2>3, <2>4 DEF Alike
<1>4. ASSUME NEW v, kept(v), NEW u, Goes(v, u), u.pc # "domain", Step(x, u)
      PROVE  WarmInv'
  BY <1>1, <1>4, PlanStatement DEF Alike
<1>5. ASSUME NEW v, kept(v)
      PROVE  /\ Goes(v, Refused(v)) /\ Refused(v).pc # "domain"
             /\ Goes(v, Reserved(v)) /\ Reserved(v).pc # "domain"
             /\ Goes(v, [v EXCEPT !.pc = "team"]) /\ [v EXCEPT !.pc = "team"].pc # "domain"
             /\ Goes(v, [v EXCEPT !.pc = "pool"]) /\ [v EXCEPT !.pc = "pool"].pc # "domain"
  <2>1. v \in Transactions /\ v.parked \subseteq DOMAIN v.items
    BY <1>1, <1>5 DEF Alike
  <2>2. /\ Goes(v, [v EXCEPT !.pc = "team"]) /\ [v EXCEPT !.pc = "team"].pc # "domain"
        /\ Goes(v, [v EXCEPT !.pc = "pool"]) /\ [v EXCEPT !.pc = "pool"].pc # "domain"
    BY <2>1 DEF Goes, Transactions, Pcs
  <2> QED BY <2>1, <2>2, RefusedGoes
<1>6. \A v : kept(v) => /\ kept(Locked(v, p)) /\ kept(Locked(v, q)) /\ kept(Locked(v, o))
                        /\ kept(Add(v, p, s.try)) /\ kept(Add(v, q, s.try)) /\ kept(Add(v, o, s.try))
                        /\ kept(Add(v, p, -s.try)) /\ kept(Add(v, q, -s.try))
  BY <1>3
<1>7. ASSUME NEW v, kept(v), \/ Step(x, Refused(v)) \/ Step(x, Reserved(v))
                             \/ Step(x, [v EXCEPT !.pc = "team"])
                             \/ Step(x, [v EXCEPT !.pc = "pool"])
      PROVE  WarmInv'
  BY <1>4, <1>5, <1>7
<1> HIDE DEF kept
<1>8. CASE TakePeriod(x)
  <2>1. CASE Value(s, p) + s.try <= Included
    BY <1>2, <1>6, <1>7, <1>8, <2>1 DEF TakePeriod
  <2>2. CASE ~(Value(s, p) + s.try <= Included)
    BY <1>8, <2>2, IdleWarm, WarmStep DEF TakePeriod
  <2> QED BY <2>1, <2>2
<1>9. CASE TakeTeam(x)
  <2>1. CASE Value(s, q) + s.try > TeamCeiling[s.kind]
    <3>1. CASE s.kind = "month"
      BY <1>2, <1>6, <1>7, <1>9, <2>1, <3>1 DEF TakeTeam
    <3>2. CASE s.kind # "month"
      BY <1>2, <1>6, <1>7, <1>9, <2>1, <3>2 DEF TakeTeam
    <3> QED BY <3>1, <3>2
  <2>2. CASE ~(Value(s, q) + s.try > TeamCeiling[s.kind])
    <3>1. CASE s.kind = "pool"
      BY <1>2, <1>6, <1>7, <1>9, <2>2, <3>1 DEF TakeTeam
    <3>2. CASE s.kind # "pool"
      BY <1>2, <1>6, <1>7, <1>9, <2>2, <3>2 DEF TakeTeam
    <3> QED BY <3>1, <3>2
  <2> QED BY <2>1, <2>2
<1>10. CASE TakePool(x)
  <2>1. CASE Value(s, o) + s.try <= PoolCeiling
    BY <1>2, <1>6, <1>7, <1>10, <2>1 DEF TakePool
  <2>2. CASE ~(Value(s, o) + s.try <= PoolCeiling)
    BY <1>2, <1>6, <1>7, <1>10, <2>2 DEF TakePool
  <2> QED BY <2>1, <2>2
<1> QED BY <1>8, <1>9, <1>10

LEMMA HandBackWarm ==
  ASSUME CapsInv, WarmInv, NEW x \in Txs, HandBack(x)
  PROVE  WarmInv'
<1> DEFINE s == tx[x]
<1>1. s \in Transactions /\ s.pc = "review" /\ count \in [Rows -> Nat]
  BY TxTyped DEF HandBack, CapsInv
<1>2. CASE Waiting(s) = {}
  <2> DEFINE u == [s EXCEPT !.pc = "commit"]
  <2>1. Step(x, u)
    BY <1>2 DEF HandBack
  <2>2. Goes(s, u) /\ u.pc # "domain"
    BY <1>1 DEF Goes, Transactions, Pcs
  <2> HIDE DEF u
  <2> QED BY <1>1, <2>1, <2>2, PlanStatement
<1>3. CASE Waiting(s) # {}
  <2> DEFINE i == CHOOSE i \in Waiting(s) : \A j \in Waiting(s) : i <= j
             u == Returned(s, i)
  <2>1. Step(x, u)
    BY <1>3 DEF HandBack
  <2>2. i \in Waiting(s)
    <3>1. Waiting(s) \in SUBSET Nat
      BY <1>1 DEF Waiting, Transactions
    <3> QED BY <1>3, <3>1, Least
  <2> HIDE DEF i
  <2>3. /\ u \in Transactions /\ u.pc = s.pc /\ u.team = s.team
        /\ \A q \in Rows \ Charge(s, i) : u.delta[q] = s.delta[q]
    BY <1>1, <2>2, ReturnedDelta
  <2> HIDE DEF u
  <2>4. \A q \in Rows : ~PlanRow(q) => u.delta[q] = s.delta[q]
    BY <2>3, PlanRows
  <2>5. Goes(u, u) /\ u.pc # "domain"
    BY <1>1, <2>3 DEF Goes
  <2> QED BY <1>1, <2>1, <2>3, <2>4, <2>5, PlanStatement
<1> QED BY <1>2, <1>3

(* A refused warm-up leaves both counters as they were.                     *)
LEMMA HeldWarm ==
  ASSUME CapsInv, WarmInv, NEW x \in Txs, tx[x].pc \in {"warm", "domain"},
         NEW v \in Transactions, Alike(tx[x], v), WarmLedger(v, 0), Step(x, Held(v))
  PROVE  WarmInv'
<1>1. CASE v.job = "drain"
  BY <1>1, IdleWarm, WarmStep DEF Held
<1>2. CASE v.job # "drain"
  <2> DEFINE u == Returned(v, v.at)
             w == NextItem(u)
  <2>1. v.at \in Waiting(v) /\ count \in [Rows -> Nat]
    BY TxTyped DEF Alike, Waiting, Stage, Placed, CapsInv
  <2>2. /\ u \in Transactions /\ u.team = v.team
        /\ \A q \in Rows \ Charge(v, v.at) : u.delta[q] = v.delta[q]
    BY <2>1, ReturnedDelta
  <2>3. Goes(u, w) /\ w.pc # "domain"
    BY <2>2, NextItemGoes
  <2>4. Step(x, w)
    BY <1>2 DEF Held
  <2> HIDE DEF u, w
  <2>5. \A q \in Rows : ~PlanRow(q) => w.delta[q] = v.delta[q]
    BY <2>2, <2>3, PlanRows DEF Goes
  <2>6. SameWarm(v, w) /\ w \in Transactions /\ w.team = v.team
    BY <2>2, <2>3, <2>5, PlanOnly DEF Goes
  <2> QED BY <2>3, <2>4, <2>6, EvenKept, WarmStep
<1> QED BY <1>1, <1>2

LEMMA RowsApart ==
  /\ \A t, d, u, e : WarmRow(t, d) = WarmRow(u, e) <=> t = u /\ d = e
  /\ \A k, d, l, e : DomainRow(k, d) = DomainRow(l, e) <=> k = l /\ d = e
  /\ \A t, d, k, e : WarmRow(t, d) # DomainRow(k, e)
  /\ \A t, d, u, e : TeamRow(t, d) = TeamRow(u, e) <=> t = u /\ d = e
  /\ \A d, e : PoolRow(d) = PoolRow(e) <=> d = e
  /\ \A t, u : PeriodRow(t) = PeriodRow(u) <=> t = u
  /\ \A t, d, e : TeamRow(t, d) # PoolRow(e)
  /\ \A t, d, u : TeamRow(t, d) # PeriodRow(u)
  /\ \A d, u : PoolRow(d) # PeriodRow(u)
BY DEF WarmRow, DomainRow, TeamRow, PoolRow, PeriodRow

(* The item a transaction is at.                                            *)
LEMMA ItemAt ==
  ASSUME CapsInv, NEW x \in Txs, tx[x].pc \in {"warm", "domain"}
  PROVE  /\ tx[x].items[tx[x].at].day \in Days /\ tx[x].items[tx[x].at].key \in Keys
         /\ tx[x].at \in Waiting(tx[x])
<1>1. tx[x].items \in Seq(Items) /\ tx[x].at \in Waiting(tx[x])
  BY TxTyped DEF Stage, Placed, Transactions
<1>2. tx[x].items[tx[x].at] \in Items
  BY <1>1 DEF Waiting
<1> QED BY <1>1, <1>2 DEF Items

LEMMA TakeWarmWarm ==
  ASSUME CapsInv, WarmInv, NEW x \in Txs, TakeWarm(x)
  PROVE  WarmInv'
<1> DEFINE s == tx[x]
           e == s.items[s.at].day
           r == WarmRow(s.team, e)
<1>1. /\ s \in Transactions /\ s.pc = "warm" /\ s.team \in Teams /\ e \in Days
      /\ WarmLedger(s, 0)
  BY TxTyped, ItemAt DEF TakeWarm, WarmInv, WarmBooks
<1>2. r \in Rows
  BY <1>1, RowsIn DEF Rows
<1>3. CASE Value(s, r) + 1 <= WarmPool
  <2> DEFINE v == Add(s, r, 1)
             u == [v EXCEPT !.pc = "domain"]
  <2>1. Step(x, u)
    BY <1>3 DEF TakeWarm
  <2>2. /\ v \in Transactions /\ Alike(s, v)
        /\ \A q \in Rows : v.delta[q] = s.delta[q] + IF q = r THEN 1 ELSE 0
    <3>1. s \in Transactions /\ r \in Rows /\ 1 \in Int
      BY <1>1, <1>2
    <3> HIDE DEF s, r
    <3> QED BY <3>1, AddDelta
  <2> HIDE DEF v
  <2>3. /\ u.pc = "domain" /\ u.team = s.team /\ u.items = s.items /\ u.at = s.at
        /\ u.delta = v.delta
    BY <2>2 DEF Alike, Transactions
  <2> HIDE DEF u
  <2>4. ASSUME NEW d \in Days
        PROVE  /\ \A k \in Keys : u.delta[DomainRow(k, d)] \in Nat
               /\ \A t \in Teams : u.delta[WarmRow(t, d)] =
                    IF t = u.team THEN WarmSum(u, d) + (IF d = e THEN 1 ELSE 0) ELSE 0
    <3>1. \A k \in Keys : u.delta[DomainRow(k, d)] = s.delta[DomainRow(k, d)]
      <4> TAKE k \in Keys
      <4>1. DomainRow(k, d) \in Rows /\ DomainRow(k, d) # r
        BY RowsIn, RowsApart DEF Rows
      <4>2. s.delta[DomainRow(k, d)] \in Int
        BY <1>1, <4>1 DEF Transactions
      <4> QED BY <2>2, <2>3, <4>1, <4>2
    <3>2. WarmSum(u, d) = WarmSum(s, d)
      <4>1. [k \in Keys |-> u.delta[DomainRow(k, d)]] = [k \in Keys |-> s.delta[DomainRow(k, d)]]
        BY <3>1
      <4> QED BY <4>1 DEF WarmSum
    <3>3. /\ \A k \in Keys : s.delta[DomainRow(k, d)] \in Nat
          /\ \A t \in Teams : s.delta[WarmRow(t, d)] = IF t = s.team THEN WarmSum(s, d) + 0 ELSE 0
      BY <1>1 DEF WarmLedger
    <3>4. WarmSum(s, d) \in Nat
      BY <3>3, WarmSumNat
    <3>5. \A t \in Teams : u.delta[WarmRow(t, d)] =
            s.delta[WarmRow(t, d)] + IF t = s.team /\ d = e THEN 1 ELSE 0
      <4> TAKE t \in Teams
      <4>1. WarmRow(t, d) \in Rows /\ (WarmRow(t, d) = r <=> t = s.team /\ d = e)
        BY RowsApart DEF Rows
      <4> QED BY <2>2, <2>3, <4>1
    <3> QED BY <2>3, <3>1, <3>2, <3>3, <3>4, <3>5
  <2>5. WarmBooks(u)
    BY <2>3, <2>4 DEF WarmBooks, WarmLedger
  <2> QED BY <2>1, <2>5, WarmStep
<1>4. CASE ~(Value(s, r) + 1 <= WarmPool)
  <2> DEFINE v == Locked(s, r)
  <2>1. v \in Transactions /\ Alike(s, v) /\ v.delta = s.delta
    BY <1>1, <1>2, LockedDelta
  <2>2. Step(x, Held(v))
    BY <1>4 DEF TakeWarm
  <2> HIDE DEF v
  <2>3. WarmLedger(v, 0)
    BY <1>1, <2>1 DEF WarmLedger, WarmSum, Alike
  <2> QED BY <1>1, <2>1, <2>2, <2>3, HeldWarm
<1> QED BY <1>3, <1>4

LEMMA TakeDomainWarm ==
  ASSUME CapsInv, WarmInv, NEW x \in Txs, TakeDomain(x)
  PROVE  WarmInv'
<1> DEFINE s == tx[x]
           i == s.items[s.at]
           r == DomainRow(i.key, i.day)
           w == WarmRow(s.team, i.day)
<1>1. /\ s \in Transactions /\ s.pc = "domain" /\ s.team \in Teams /\ i.day \in Days
      /\ i.key \in Keys /\ WarmLedger(s, 1)
  BY TxTyped, ItemAt DEF TakeDomain, WarmInv, WarmBooks
<1>2. r \in Rows /\ w \in Rows
  BY <1>1, RowsIn DEF Rows
<1>3. ASSUME NEW d \in Days
      PROVE  /\ \A k \in Keys : s.delta[DomainRow(k, d)] \in Nat
             /\ \A t \in Teams : s.delta[WarmRow(t, d)] =
                  IF t = s.team THEN WarmSum(s, d) + (IF d = i.day THEN 1 ELSE 0) ELSE 0
             /\ WarmSum(s, d) \in Nat
  BY <1>1, WarmSumNat DEF WarmLedger
<1>4. CASE Value(s, r) + 1 <= WarmCap
  <2> DEFINE v == Add(s, r, 1)
             u == NextItem(v)
  <2>1. Step(x, u)
    BY <1>4 DEF TakeDomain
  <2>2. /\ v \in Transactions /\ Alike(s, v)
        /\ \A q \in Rows : v.delta[q] = s.delta[q] + IF q = r THEN 1 ELSE 0
    <3>1. s \in Transactions /\ r \in Rows /\ 1 \in Int
      BY <1>1, <1>2
    <3> HIDE DEF s, r
    <3> QED BY <3>1, AddDelta
  <2>3. Goes(v, u) /\ u.pc # "domain"
    BY <2>2, NextItemGoes
  <2> HIDE DEF u, v
  <2>4. ASSUME NEW d \in Days
        PROVE  /\ \A k \in Keys : v.delta[DomainRow(k, d)] \in Nat
               /\ \A t \in Teams : v.delta[WarmRow(t, d)] =
                    IF t = v.team THEN WarmSum(v, d) + 0 ELSE 0
    <3> DEFINE f == [k \in Keys |-> s.delta[DomainRow(k, d)]]
               g == [k \in Keys |-> v.delta[DomainRow(k, d)]]
    <3>1. \A k \in Keys : g[k] = f[k] + IF k = i.key /\ d = i.day THEN 1 ELSE 0
      <4> TAKE k \in Keys
      <4>1. DomainRow(k, d) \in Rows /\ (DomainRow(k, d) = r <=> k = i.key /\ d = i.day)
        BY RowsApart DEF Rows
      <4> QED BY <2>2, <4>1
    <3>2. f \in [Keys -> Nat]
      BY <1>3
    <3> HIDE DEF f
    <3>3. g \in [Keys -> Nat] /\ \A k \in Keys : g[k] \in Nat
      BY <3>1, <3>2
    <3>4. Total(g) = Total(f) + IF d = i.day THEN 1 ELSE 0
      <4> DEFINE n == IF d = i.day THEN 1 ELSE 0
      <4>1. n \in Nat /\ \A k \in Keys : g[k] = f[k] + IF k = i.key THEN n ELSE 0
        BY <3>1
      <4> HIDE DEF g, n
      <4>2. Total(g) = Total(f) + n
        <5>1. IsFiniteSet(Keys) /\ i.key \in Keys
          BY <1>1, CountersAssumption DEF CountersAssumption
        <5> HIDE DEF i
        <5> QED BY <3>2, <3>3, <4>1, <5>1, TotalStep
      <4> QED BY <4>2 DEF n
    <3>5. WarmSum(s, d) = Total(f) /\ WarmSum(v, d) = Total(g)
      BY DEF WarmSum, f
    <3>6. \A t \in Teams : v.delta[WarmRow(t, d)] = s.delta[WarmRow(t, d)]
      <4> TAKE t \in Teams
      <4>1. WarmRow(t, d) \in Rows /\ WarmRow(t, d) # r
        BY RowsApart DEF Rows
      <4>2. s.delta[WarmRow(t, d)] \in Int
        BY <1>1, <4>1 DEF Transactions
      <4> QED BY <2>2, <4>1, <4>2
    <3>7. \A k \in Keys : v.delta[DomainRow(k, d)] \in Nat
      BY <3>3
    <3> HIDE DEF g
    <3> QED BY <1>3, <2>2, <3>4, <3>5, <3>6, <3>7 DEF Alike
  <2>5. WarmLedger(v, 0)
    BY <2>4 DEF WarmLedger
  <2>6. SameWarm(v, u) /\ u \in Transactions /\ u.team = v.team
    BY <2>3 DEF Goes, SameWarm
  <2> QED BY <2>1, <2>2, <2>3, <2>5, <2>6, EvenKept, WarmStep
<1>5. CASE ~(Value(s, r) + 1 <= WarmCap)
  <2> DEFINE l == Locked(s, r)
             v == Add(l, w, -1)
  <2>1. l \in Transactions /\ Alike(s, l) /\ l.delta = s.delta
    BY <1>1, <1>2, LockedDelta
  <2>2. Step(x, Held(v))
    BY <1>5 DEF TakeDomain
  <2> HIDE DEF l
  <2>3. /\ v \in Transactions /\ Alike(l, v)
        /\ \A q \in Rows : v.delta[q] = l.delta[q] + IF q = w THEN -1 ELSE 0
    <3>1. -1 \in Int
      OBVIOUS
    <3> QED BY <1>2, <2>1, <3>1, AddDelta
  <2> HIDE DEF v
  <2>4. Alike(s, v) /\ \A q \in Rows : v.delta[q] = s.delta[q] + IF q = w THEN -1 ELSE 0
    BY <2>1, <2>3 DEF Alike
  <2>5. ASSUME NEW d \in Days
        PROVE  /\ \A k \in Keys : v.delta[DomainRow(k, d)] \in Nat
               /\ \A t \in Teams : v.delta[WarmRow(t, d)] =
                    IF t = v.team THEN WarmSum(v, d) + 0 ELSE 0
    <3>1. \A k \in Keys : v.delta[DomainRow(k, d)] = s.delta[DomainRow(k, d)]
      <4> TAKE k \in Keys
      <4>1. DomainRow(k, d) \in Rows /\ DomainRow(k, d) # w
        BY RowsApart DEF Rows
      <4>2. s.delta[DomainRow(k, d)] \in Nat
        BY <1>3
      <4> QED BY <2>4, <4>1, <4>2
    <3>2. WarmSum(v, d) = WarmSum(s, d)
      <4>1. [k \in Keys |-> v.delta[DomainRow(k, d)]] = [k \in Keys |-> s.delta[DomainRow(k, d)]]
        BY <3>1
      <4> QED BY <4>1 DEF WarmSum
    <3>3. \A t \in Teams : v.delta[WarmRow(t, d)] =
            s.delta[WarmRow(t, d)] + IF t = s.team /\ d = i.day THEN -1 ELSE 0
      <4> TAKE t \in Teams
      <4>1. WarmRow(t, d) \in Rows /\ (WarmRow(t, d) = w <=> t = s.team /\ d = i.day)
        BY RowsApart DEF Rows
      <4> QED BY <2>4, <4>1
    <3>4. \A t \in Teams : v.delta[WarmRow(t, d)] = IF t = s.team THEN WarmSum(s, d) ELSE 0
      <4> TAKE t \in Teams
      <4>1. s.delta[WarmRow(t, d)] =
              IF t = s.team THEN WarmSum(s, d) + (IF d = i.day THEN 1 ELSE 0) ELSE 0
        BY <1>3
      <4>2. WarmSum(s, d) \in Nat
        BY <1>3
      <4> HIDE DEF i
      <4> QED BY <3>3, <4>1, <4>2
    <3>5. WarmSum(s, d) + 0 = WarmSum(s, d) /\ v.team = s.team
      BY <1>3, <2>4 DEF Alike
    <3> QED BY <1>3, <3>1, <3>2, <3>4, <3>5
  <2>6. WarmLedger(v, 0)
    BY <2>5 DEF WarmLedger
  <2> QED BY <1>1, <2>2, <2>3, <2>4, <2>6, HeldWarm
<1> QED BY <1>4, <1>5

LEMMA ReleaseWarm ==
  ASSUME CapsInv, WarmInv, NEW x \in Txs, tx[x].pc # "domain", NEW r \in Rows, PlanRow(r),
         NEW p \in {"team", "pool", "commit"}, Step(x, [GiveBack(tx[x], r) EXCEPT !.pc = p])
  PROVE  WarmInv'
<1> DEFINE s == tx[x]
           v == GiveBack(s, r)
           u == [v EXCEPT !.pc = p]
<1>1. s \in Transactions /\ count \in [Rows -> Nat]
  BY TxTyped DEF CapsInv
<1>2. /\ v \in Transactions /\ Alike(s, v)
      /\ \A q \in Rows \ {r} : v.delta[q] = s.delta[q]
  BY <1>1, GiveBackDelta
<1>3. Step(x, u)
  OBVIOUS
<1> HIDE DEF v
<1>4. Goes(v, u) /\ u.pc # "domain"
  BY <1>2 DEF Goes, Transactions, Pcs
<1>5. \A q \in Rows : ~PlanRow(q) => v.delta[q] = s.delta[q]
  BY <1>2
<1> HIDE DEF u
<1> QED BY <1>2, <1>3, <1>4, <1>5, PlanStatement DEF Alike

(* A transaction begins with nothing added.                                 *)
Began(s, job, t, items) ==
  /\ s.pc = "idle" /\ s.job = job /\ s.team = t /\ s.kind = plan[t] /\ s.items = items
  /\ s.parked = {} /\ \A i \in DOMAIN s.items : s.items[i].day \in s.todo
  /\ \A q \in Rows : s.delta[q] = 0

LEMMA BeginGoes ==
  ASSUME CapsInv, PlansOK, NEW x \in Txs, NEW job \in {"accept", "drain"}, NEW t \in Teams,
         NEW review \in BOOLEAN, NEW items \in Batches[t], Begin(x, job, t, items, review)
  PROVE  \E s \in Transactions :
           Began(s, job, t, items) /\ tx' = [tx EXCEPT ![x] = NextDay(s)]
<1> DEFINE days == {items[i].day : i \in DOMAIN items}
           s == [Idle EXCEPT !.job = job, !.team = t, !.kind = plan[t], !.items = items,
                             !.todo = days, !.review = review]
<1>1. items \in Seq(Items) /\ plan[t] \in Kinds
  BY CountersAssumption DEF CountersAssumption, PlansOK
<1>2. days \subseteq Days
  <2>1. \A i \in DOMAIN items : items[i] \in Items
    BY <1>1
  <2> QED BY <2>1 DEF Items
<1>3. /\ Idle \in Transactions /\ Idle.pc = "idle" /\ Idle.parked = {}
      /\ \A q \in Rows : Idle.delta[q] = 0
  BY IdleOk DEF CapsInv, Idle
<1>4. tx' = [tx EXCEPT ![x] = NextDay(s)]
  BY DEF Begin
<1>5. \A i \in DOMAIN items : items[i].day \in days
  OBVIOUS
<1> HIDE DEF days
<1>6. /\ s \in Transactions /\ s.pc = "idle" /\ s.job = job /\ s.team = t /\ s.kind = plan[t]
      /\ s.items = items /\ s.todo = days /\ s.parked = Idle.parked /\ s.delta = Idle.delta
  BY <1>1, <1>2, <1>3 DEF Transactions, Jobs
<1> HIDE DEF s
<1> QED BY <1>3, <1>4, <1>5, <1>6 DEF Began

LEMMA BeginReleaseGoes ==
  ASSUME CapsInv, PlansOK, NEW x \in Txs, NEW t \in Teams, NEW k \in Kinds, BeginRelease(x, t, k)
  PROVE  \E s \in Transactions :
           /\ s.pc = (IF plan[t] = "month" THEN "period" ELSE "team") /\ s.job = "release"
           /\ s.team = t /\ s.kind = plan[t] /\ s.was = k /\ s.items = <<>>
           /\ \A q \in Rows : s.delta[q] = 0
           /\ tx' = [tx EXCEPT ![x] = s]
<1> DEFINE f == IF plan[t] = "month" THEN "period" ELSE "team"
           s == [Idle EXCEPT !.job = "release", !.team = t, !.kind = plan[t], !.was = k]
           u == [Idle EXCEPT !.job = "release", !.team = t, !.kind = plan[t], !.was = k, !.pc = f]
<1>1. /\ Idle \in Transactions /\ Idle.items = <<>> /\ \A q \in Rows : Idle.delta[q] = 0
  BY IdleOk DEF CapsInv, Idle
<1>2. plan[t] \in Kinds /\ f \in Pcs
  BY DEF PlansOK, Pcs
<1>3. tx' = [tx EXCEPT ![x] = u]
  <2>1. s.kind = plan[t]
    BY <1>1 DEF Transactions
  <2>2. [s EXCEPT !.pc = First(s)] = u
    BY <1>1, <2>1 DEF First, Transactions
  <2> QED BY <2>2 DEF BeginRelease
<1>4. /\ u \in Transactions /\ u.pc = f /\ u.job = "release" /\ u.team = t /\ u.was = k
      /\ u.kind = plan[t] /\ u.items = Idle.items /\ u.delta = Idle.delta
  BY <1>1, <1>2 DEF Transactions, Jobs
<1> HIDE DEF u
<1> QED BY <1>1, <1>3, <1>4

LEMMA BeginsWarm ==
  ASSUME CapsInv, WarmInv, NEW x \in Txs, NEW u \in Transactions, u.pc # "domain",
         \A q \in Rows : u.delta[q] = 0, tx' = [tx EXCEPT ![x] = u], UNCHANGED count
  PROVE  WarmInv'
<1>1. WarmBooks(u)
  BY ZeroWarm
<1>2. \A y \in Txs : tx'[y] = IF y = x THEN u ELSE tx[y]
  BY DEF CapsInv
<1>3. WarmTogether'
  BY DEF WarmInv, WarmTogether
<1>4. \A y \in Txs : WarmBooks(tx'[y])
  BY <1>1, <1>2 DEF WarmInv
<1> QED BY <1>3, <1>4 DEF WarmInv, WarmBooks, WarmLedger, WarmSum

LEMMA CommitWarm ==
  ASSUME CapsInv, WarmInv, NEW x \in Txs, Commit(x)
  PROVE  WarmInv'
<1> DEFINE s == tx[x]
<1>1. s \in Transactions /\ s.pc = "commit" /\ s.team \in Teams /\ WarmLedger(s, 0)
  BY TxTyped DEF Commit, WarmInv, WarmBooks
<1>2. tx' = [tx EXCEPT ![x] = Idle] /\ count' = [r \in Rows |-> count[r] + s.delta[r]]
  BY DEF Commit, Value
<1>3. count \in [Rows -> Nat]
  BY DEF CapsInv
<1>4. WarmTogether'
  <2> SUFFICES ASSUME NEW d \in Days
               PROVE  Total([t \in Teams |-> count'[WarmRow(t, d)]])
                      = Total([k \in Keys |-> count'[DomainRow(k, d)]])
    BY DEF WarmTogether
  <2> DEFINE f == [t \in Teams |-> count[WarmRow(t, d)]]
             h == [t \in Teams |-> count'[WarmRow(t, d)]]
             a == [k \in Keys |-> count[DomainRow(k, d)]]
             b == [k \in Keys |-> s.delta[DomainRow(k, d)]]
             c == [k \in Keys |-> count'[DomainRow(k, d)]]
  <2>1. /\ \A k \in Keys : s.delta[DomainRow(k, d)] \in Nat
        /\ \A t \in Teams : s.delta[WarmRow(t, d)] = IF t = s.team THEN WarmSum(s, d) ELSE 0
        /\ WarmSum(s, d) \in Nat
    <3>1. /\ \A k \in Keys : s.delta[DomainRow(k, d)] \in Nat
          /\ \A t \in Teams : s.delta[WarmRow(t, d)] =
               IF t = s.team THEN WarmSum(s, d) + (IF d = s.items[s.at].day THEN 0 ELSE 0) ELSE 0
      BY <1>1 DEF WarmLedger
    <3>2. WarmSum(s, d) \in Nat
      BY <3>1, WarmSumNat
    <3> QED BY <3>1, <3>2
  <2>2. /\ \A t \in Teams : WarmRow(t, d) \in Rows
        /\ \A k \in Keys : DomainRow(k, d) \in Rows
    BY DEF Rows
  <2>3. /\ f \in [Teams -> Nat] /\ h \in [Teams -> Nat]
        /\ \A t \in Teams : h[t] = f[t] + IF t = s.team THEN WarmSum(s, d) ELSE 0
    BY <1>2, <1>3, <2>1, <2>2
  <2>4. /\ a \in [Keys -> Nat] /\ b \in [Keys -> Nat] /\ c \in [Keys -> Nat]
        /\ \A k \in Keys : c[k] = a[k] + b[k]
    BY <1>2, <1>3, <2>1, <2>2
  <2>5. Total(f) = Total(a)
    BY DEF WarmInv, WarmTogether
  <2>6. WarmSum(s, d) = Total(b)
    BY DEF WarmSum
  <2> HIDE DEF f, h, a, b, c
  <2>7. IsFiniteSet(Teams) /\ IsFiniteSet(Keys)
    BY CountersAssumption DEF CountersAssumption
  <2>8. Total(h) = Total(f) + WarmSum(s, d)
    BY <1>1, <2>1, <2>3, <2>7, TotalStep
  <2>9. Total(c) = Total(a) + Total(b)
    BY <2>4, <2>7, TotalAdd
  <2>10. Total(h) = Total(c)
    BY <2>5, <2>6, <2>8, <2>9
  <2> QED BY <2>10 DEF h, c
<1>5. \A y \in Txs : tx'[y] = IF y = x THEN Idle ELSE tx[y]
  BY <1>2 DEF CapsInv
<1>6. \A y \in Txs : WarmBooks(tx'[y])
  BY <1>5, IdleWarm DEF WarmInv
<1> QED BY <1>4, <1>6 DEF WarmInv, WarmBooks, WarmLedger, WarmSum

(* The two warm-up counters take a send together: whatever batches and      *)
(* drains run beside each other, what the domains of a day count is what    *)
(* their teams count.                                                       *)
THEOREM WarmsTogether == Spec => []WarmTogether
<1>1. Init => WarmInv
  <2> SUFFICES ASSUME Init PROVE WarmInv
    OBVIOUS
  <2>1. \A x \in Txs : WarmBooks(tx[x])
    BY IdleWarm DEF Init
  <2>2. WarmTogether
    <3> SUFFICES ASSUME NEW d \in Days
                 PROVE  Total([t \in Teams |-> count[WarmRow(t, d)]])
                        = Total([k \in Keys |-> count[DomainRow(k, d)]])
      BY DEF WarmTogether
    <3> DEFINE f == [t \in Teams |-> count[WarmRow(t, d)]]
               g == [k \in Keys |-> count[DomainRow(k, d)]]
    <3>1. /\ f \in [Teams -> Nat] /\ \A t \in Teams : f[t] = 0
          /\ g \in [Keys -> Nat] /\ \A k \in Keys : g[k] = 0
      BY DEF Init, Rows
    <3> HIDE DEF f, g
    <3>2. Total(f) = 0 /\ Total(g) = 0
      BY <3>1, TotalZero
    <3> QED BY <3>2 DEF f, g
  <2> QED BY <2>1, <2>2 DEF WarmInv
<1>2. CapsInv /\ PlansOK /\ WarmInv /\ [Next]_vars => WarmInv'
  <2> SUFFICES ASSUME CapsInv, PlansOK, WarmInv, [Next]_vars PROVE WarmInv'
    OBVIOUS
  <2>1. ASSUME NEW x \in Txs, NEW t \in Teams, NEW job \in {"accept", "drain"},
               NEW review \in BOOLEAN, NEW items \in Batches[t], Begin(x, job, t, items, review)
        PROVE  WarmInv'
    <3>1. PICK s \in Transactions :
            Began(s, job, t, items) /\ tx' = [tx EXCEPT ![x] = NextDay(s)]
      BY <2>1, BeginGoes
    <3>2. Goes(s, NextDay(s)) /\ NextDay(s).pc # "domain"
      BY NextDayGoes DEF First
    <3>3. UNCHANGED count
      BY <2>1 DEF Begin
    <3> QED BY <3>1, <3>2, <3>3, BeginsWarm DEF Goes, Began
  <2>2. ASSUME NEW x \in Txs, NEW t \in Teams, NEW k \in Kinds, BeginRelease(x, t, k)
        PROVE  WarmInv'
    <3>1. PICK s \in Transactions :
            /\ s.pc = (IF plan[t] = "month" THEN "period" ELSE "team")
            /\ \A q \in Rows : s.delta[q] = 0
            /\ tx' = [tx EXCEPT ![x] = s]
      BY <2>2, BeginReleaseGoes
    <3>2. UNCHANGED count
      BY <2>2 DEF BeginRelease
    <3> QED BY <3>1, <3>2, BeginsWarm
  <2>3. ASSUME NEW x \in Txs, TakePeriod(x) \/ TakeTeam(x) \/ TakePool(x) \/ HandBack(x)
                              \/ TakeWarm(x) \/ TakeDomain(x) \/ Commit(x)
        PROVE  WarmInv'
    BY <2>3, TakePlanWarm, HandBackWarm, TakeWarmWarm, TakeDomainWarm, CommitWarm
  <2>4. ASSUME NEW x \in Txs, ReleasePeriod(x) PROVE WarmInv'
    <3>1. PeriodRow(tx[x].team) \in Rows /\ PlanRow(PeriodRow(tx[x].team)) /\ tx[x].pc # "domain"
      BY <2>4, TxTyped, PlanRows DEF Rows, ReleasePeriod
    <3> QED BY <2>4, <3>1, ReleaseWarm DEF ReleasePeriod
  <2>5. ASSUME NEW x \in Txs, ReleaseTeam(x) PROVE WarmInv'
    <3> DEFINE r == TeamRow(tx[x].team, Today)
               p == IF tx[x].kind = "pool" THEN "pool" ELSE "commit"
    <3>1. r \in Rows /\ PlanRow(r) /\ tx[x].pc # "domain"
      <4>1. tx[x].team \in Teams /\ Today \in Days /\ tx[x].pc = "team"
        BY <2>5, TxTyped, CountersAssumption DEF ReleaseTeam, CountersAssumption
      <4> QED BY <4>1, PlanRows DEF Rows
    <3>2. Step(x, [GiveBack(tx[x], r) EXCEPT !.pc = p])
      <4>1. GiveBack(tx[x], r).kind = tx[x].kind
        BY <3>1, GiveBackKeeps, TxTyped DEF Alike
      <4> QED BY <2>5, <4>1 DEF ReleaseTeam
    <3> HIDE DEF r
    <3> QED BY <3>1, <3>2, ReleaseWarm
  <2>6. ASSUME NEW x \in Txs, ReleasePool(x) PROVE WarmInv'
    <3>1. PoolRow(Today) \in Rows /\ PlanRow(PoolRow(Today)) /\ tx[x].pc # "domain"
      BY <2>6, PlanRows, CountersAssumption DEF Rows, ReleasePool, CountersAssumption
    <3> QED BY <2>6, <3>1, ReleaseWarm DEF ReleasePool
  <2>7. ASSUME NEW x \in Txs, Abort(x) PROVE WarmInv'
    BY <2>7, IdleWarm, WarmStep DEF Abort
  <2>8. ASSUME UNCHANGED <<count, tx>> PROVE WarmInv'
    BY <2>8 DEF WarmInv, WarmTogether, WarmBooks, WarmLedger, WarmSum
  <2>9. ASSUME NEW t \in Teams, Upgrade(t) \/ Lapse(t) PROVE WarmInv'
    BY <2>8, <2>9 DEF Upgrade, Lapse
  <2>10. CASE UNCHANGED vars
    BY <2>8, <2>10 DEF vars
  <2> QED BY <2>1, <2>2, <2>3, <2>4, <2>5, <2>6, <2>7, <2>9, <2>10 DEF Next
<1>3. WarmInv => WarmTogether
  BY DEF WarmInv
<1> QED BY <1>1, <1>2, <1>3, Counters, PTL DEF Spec

-----------------------------------------------------------------------------
(* Counting items. *)

(* A set counted by the fibres of a function on it.                         *)
LEMMA TotalFibres ==
  ASSUME NEW W, IsFiniteSet(W), NEW D, NEW g \in [W -> D], NEW f \in [D -> Nat],
         \A d \in D : f[d] = Cardinality({w \in W : g[w] = d})
  PROVE  Total(f) = Cardinality(W)
<1> DEFINE fibre(d) == {w \in W : g[w] = d}
<1>1. \A d \in D : Bijection(1..f[d], fibre(d)) # {}
  <2> TAKE d \in D
  <2>1. IsFiniteSet(fibre(d))
    BY FS_Subset
  <2> QED BY <2>1, FS_CardinalityType, Fun_ExistsBij
<1> DEFINE b == [d \in D |-> CHOOSE h : h \in Bijection(1..f[d], fibre(d))]
<1>2. \A d \in D : b[d] \in Bijection(1..f[d], fibre(d))
  BY <1>1
<1> HIDE DEF b
<1>3. \A d \in D : /\ \A i \in 1..f[d] : b[d][i] \in W /\ g[b[d][i]] = d
                   /\ \A i \in 1..f[d], j \in 1..f[d] : b[d][i] = b[d][j] => i = j
                   /\ \A w \in W : g[w] = d => \E i \in 1..f[d] : b[d][i] = w
  <2> TAKE d \in D
  <2>1. /\ b[d] \in [1..f[d] -> fibre(d)]
        /\ \A i \in 1..f[d], j \in 1..f[d] : b[d][i] = b[d][j] => i = j
        /\ \A w \in fibre(d) : \E i \in 1..f[d] : b[d][i] = w
    <3>1. b[d] \in Bijection(1..f[d], fibre(d))
      BY <1>2
    <3> HIDE DEF fibre
    <3> QED BY <3>1, Fun_BijectionProperties
  <2>2. \A i \in 1..f[d] : b[d][i] \in fibre(d)
    BY <2>1
  <2> QED BY <2>1, <2>2
<1> DEFINE h == [c \in Copies(f) |-> b[c[1]][c[2]]]
<1>4. \A d \in D : \A i \in 1..f[d] : <<d, i>> \in Copies(f) /\ h[<<d, i>>] = b[d][i]
  BY CopiesOf
<1>5. \A c \in Copies(f) : \E d \in D : \E i \in 1..f[d] : c = <<d, i>>
  BY CopiesOf
<1> HIDE DEF h
<1>6. \A c \in Copies(f) : h[c] \in W
  BY <1>3, <1>4, <1>5
<1>7. \A c \in Copies(f), e \in Copies(f) : h[c] = h[e] => c = e
  <2> TAKE c \in Copies(f), e \in Copies(f)
  <2>1. PICK d \in D : \E i \in 1..f[d] : c = <<d, i>>
    BY <1>5
  <2>2. PICK i \in 1..f[d] : c = <<d, i>>
    BY <2>1
  <2>3. PICK u \in D : \E j \in 1..f[u] : e = <<u, j>>
    BY <1>5
  <2>4. PICK j \in 1..f[u] : e = <<u, j>>
    BY <2>3
  <2>5. g[h[c]] = d /\ g[h[e]] = u /\ h[c] = b[d][i] /\ h[e] = b[u][j]
    BY <1>3, <1>4, <2>2, <2>4
  <2>6. ASSUME h[c] = h[e] PROVE c = e
    <3>1. d = u /\ b[d][i] = b[d][j]
      BY <2>5, <2>6
    <3>2. i = j
      BY <1>3, <3>1
    <3> QED BY <2>2, <2>4, <3>1, <3>2
  <2> QED BY <2>6
<1>8. \A w \in W : \E c \in Copies(f) : h[c] = w
  <2> TAKE w \in W
  <2>1. g[w] \in D
    OBVIOUS
  <2>2. PICK i \in 1..f[g[w]] : b[g[w]][i] = w
    BY <1>3, <2>1
  <2>3. <<g[w], i>> \in Copies(f) /\ h[<<g[w], i>>] = w
    BY <1>4, <2>1, <2>2
  <2> QED BY <2>3
<1>9. h \in Bijection(Copies(f), W)
  <2>1. h \in [Copies(f) -> W]
    BY <1>6 DEF h
  <2> QED BY <1>7, <1>8, <2>1, Fun_IsBij
<1>10. ExistsBijection(W, Copies(f))
  BY <1>9, Fun_ExistsBij, Fun_ExistsBijSymmetric
<1> QED BY <1>10, FS_Bijection DEF Total

(* There are k items with fewer than k items before them.                   *)
LEMMA FirstOnes ==
  ASSUME NEW S \in SUBSET Nat, IsFiniteSet(S), NEW k \in Nat, k <= Cardinality(S)
  PROVE  Cardinality({i \in S : Cardinality({j \in S : j < i}) < k}) = k
<1> DEFINE below(i) == {j \in S : j < i}
           n == Cardinality(S)
           rank == [i \in S |-> Cardinality(below(i))]
           K == {i \in S : Cardinality(below(i)) < k}
<1>1. n \in Nat /\ \A T \in SUBSET S : IsFiniteSet(T) /\ Cardinality(T) \in Nat
  BY FS_CardinalityType, FS_Subset
<1>2. \A i \in S, j \in S : i < j => Cardinality(below(i)) < Cardinality(below(j))
  <2> SUFFICES ASSUME NEW i \in S, NEW j \in S, i < j
               PROVE  Cardinality(below(i)) < Cardinality(below(j))
    OBVIOUS
  <2>1. below(i) \cup {i} \subseteq below(j) /\ i \notin below(i)
    <3>1. i \in Nat /\ \A w \in S : w \in Nat
      OBVIOUS
    <3>2. \A w \in below(i) \cup {i} : w \in S /\ w < j
      <4> TAKE w \in below(i) \cup {i}
      <4>1. j \in Nat /\ w \in S /\ w \in Nat
        OBVIOUS
      <4>2. w < i \/ w = i
        OBVIOUS
      <4> QED BY <3>1, <4>1, <4>2
    <3>3. \A w \in below(i) \cup {i} : w \in below(j)
      BY <3>2
    <3>4. i \notin below(i)
      BY <3>1
    <3> HIDE DEF below
    <3> QED BY <3>3, <3>4
  <2>2. Cardinality(below(i) \cup {i}) = Cardinality(below(i)) + 1
    BY <1>1, <2>1, FS_AddElement
  <2>3. Cardinality(below(i) \cup {i}) <= Cardinality(below(j))
    BY <1>1, <2>1, FS_Subset
  <2>4. Cardinality(below(i)) \in Nat /\ Cardinality(below(j)) \in Nat
    BY <1>1
  <2> QED BY <2>2, <2>3, <2>4
<1>3. \A i \in S : Cardinality(below(i)) \in 0..(n - 1)
  <2> TAKE i \in S
  <2>1. below(i) \subseteq S \ {i} /\ IsFiniteSet(S \ {i})
    BY <1>1
  <2>2. Cardinality(S \ {i}) = n - 1
    BY FS_RemoveElement
  <2>3. Cardinality(below(i)) <= n - 1 /\ Cardinality(below(i)) \in Nat
    BY <1>1, <2>1, <2>2, FS_Subset
  <2> QED BY <1>1, <2>3
<1>4. rank \in [S -> 0..(n - 1)] /\ \A i \in S, j \in S : rank[i] = rank[j] => i = j
  <2>1. \A i \in S, j \in S : rank[i] = rank[j] => ~(i < j) /\ ~(j < i)
    BY <1>1, <1>2
  <2> QED BY <1>3, <2>1
<1>5. /\ IsFiniteSet(0..(n - 1)) /\ Cardinality(0..(n - 1)) = n
      /\ IsFiniteSet(0..(k - 1)) /\ Cardinality(0..(k - 1)) = k
  <2>1. n - 1 \in Int /\ k - 1 \in Int /\ 0 \in Int
    BY <1>1
  <2>2. /\ IsFiniteSet(0..(n - 1)) /\ IsFiniteSet(0..(k - 1))
        /\ Cardinality(0..(n - 1)) = IF 0 > n - 1 THEN 0 ELSE n - 1 - 0 + 1
        /\ Cardinality(0..(k - 1)) = IF 0 > k - 1 THEN 0 ELSE k - 1 - 0 + 1
    BY <2>1, FS_Interval
  <2> HIDE DEF n
  <2> QED BY <1>1, <2>2
<1>6. \A m \in 0..(n - 1) : \E i \in S : rank[i] = m
  <2> HIDE DEF rank
  <2>1. rank \in Injection(S, 0..(n - 1))
    BY <1>4, Fun_IsInj
  <2>2. rank \in Surjection(S, 0..(n - 1))
    <3>1. Cardinality(S) = Cardinality(0..(n - 1)) /\ IsFiniteSet(0..(n - 1))
      BY <1>5
    <3> HIDE DEF n
    <3> QED BY <2>1, <3>1, FS_Injection
  <2> QED BY <2>2 DEF Surjection
<1> DEFINE r == [i \in K |-> rank[i]]
<1>7. r \in [K -> 0..(k - 1)] /\ \A i \in K, j \in K : r[i] = r[j] => i = j
  <2>1. \A i \in K : rank[i] \in 0..(k - 1)
    BY <1>1, <1>3
  <2> QED BY <1>4, <2>1
<1>8. \A m \in 0..(k - 1) : \E i \in K : r[i] = m
  <2> TAKE m \in 0..(k - 1)
  <2>1. m \in 0..(n - 1) /\ m < k
    BY <1>1
  <2>2. PICK i \in S : rank[i] = m
    BY <1>6, <2>1
  <2>3. i \in K
    BY <2>1, <2>2
  <2> QED BY <2>2, <2>3
<1>9. ExistsBijection(K, 0..(k - 1))
  <2> HIDE DEF r
  <2> QED BY <1>7, <1>8, Fun_IsBij, Fun_ExistsBij
<1>10. IsFiniteSet(K)
  BY <1>1
<1> QED BY <1>5, <1>9, <1>10, FS_Bijection

-----------------------------------------------------------------------------
(* What a batch is charged. *)

(* The items that go out of the days that are settled, and those of a day.  *)
Paid(s, open) == {i \in Waiting(s) : s.items[i].day \notin open}
PaidOn(s, d, open) == {i \in Paid(s, open) : s.items[i].day = d}

(* The days that are not settled: those to come, and the one being reserved.*)
Open(s) == s.todo \cup (IF s.pc \in AtDay THEN {s.day} ELSE {})

(* A transaction adds its paid items to their rows, and x, y and z more to  *)
(* the team's and the pool's row of the day at hand and to the period.      *)
Ledger(s, open, x, y, z) ==
  /\ \A t \in Teams, d \in Days : s.delta[TeamRow(t, d)] =
       IF t = s.team THEN Cardinality(PaidOn(s, d, open)) + (IF d = s.day THEN x ELSE 0) ELSE 0
  /\ \A d \in Days : s.delta[PoolRow(d)] =
       IF s.kind = "pool" THEN Cardinality(PaidOn(s, d, open)) + (IF d = s.day THEN y ELSE 0)
       ELSE 0
  /\ \A t \in Teams : s.delta[PeriodRow(t)] =
       IF t = s.team /\ s.kind = "month" THEN Cardinality(Paid(s, open)) + z ELSE 0
  /\ \A i \in s.parked : s.items[i].day \notin open

Booked(s) ==
  /\ Ledger(s, Open(s), IF s.pc = "pool" THEN s.try ELSE 0, 0, IF s.pc = "team" THEN s.try ELSE 0)
  /\ s.pc \in AtDay => s.day \notin s.todo /\ s.try <= Cardinality(Group(s, s.day))

LEMMA PaidFinite ==
  ASSUME NEW s \in Transactions, NEW open, NEW d
  PROVE  /\ IsFiniteSet(Paid(s, open)) /\ Cardinality(Paid(s, open)) \in Nat
         /\ IsFiniteSet(PaidOn(s, d, open)) /\ Cardinality(PaidOn(s, d, open)) \in Nat
         /\ Paid(s, open) \subseteq Nat /\ DOMAIN s.items \subseteq Nat
<1>1. s.items \in Seq(Items) /\ DOMAIN s.items = 1..Len(s.items) /\ Len(s.items) \in Nat
  BY DEF Transactions
<1>2. IsFiniteSet(1..Len(s.items))
  BY <1>1, FS_Interval
<1>3. Paid(s, open) \subseteq 1..Len(s.items) /\ PaidOn(s, d, open) \subseteq 1..Len(s.items)
  BY <1>1 DEF Paid, PaidOn, Waiting
<1>4. IsFiniteSet(Paid(s, open)) /\ IsFiniteSet(PaidOn(s, d, open))
  BY <1>2, <1>3, FS_Subset
<1> QED BY <1>1, <1>3, <1>4, FS_CardinalityType

(* A change of place: what is charged stays.                                *)
LEMMA LedgerGoes ==
  ASSUME NEW s, NEW u, Goes(s, u), u.parked = s.parked, NEW open, NEW x, NEW y, NEW z,
         Ledger(s, open, x, y, z), u.day = s.day \/ (x = 0 /\ y = 0)
  PROVE  Ledger(u, open, x, y, z)
<1>1. /\ u.delta = s.delta /\ u.team = s.team /\ u.kind = s.kind /\ u.items = s.items
  BY DEF Goes
<1>2. Paid(u, open) = Paid(s, open) /\ \A d : PaidOn(u, d, open) = PaidOn(s, d, open)
  BY <1>1 DEF Paid, PaidOn, Waiting
<1>3. \A d : (IF d = u.day THEN x ELSE 0) = (IF d = s.day THEN x ELSE 0)
             /\ (IF d = u.day THEN y ELSE 0) = (IF d = s.day THEN y ELSE 0)
  OBVIOUS
<1> QED BY <1>1, <1>2, <1>3 DEF Ledger

(* A statement on a row of the plan, or on none.                            *)
LEMMA LedgerAlike ==
  ASSUME NEW s \in Transactions, NEW u \in Transactions, Alike(s, u),
         \A q \in Rows : PlanRow(q) => u.delta[q] = s.delta[q],
         NEW open, NEW x, NEW y, NEW z, Ledger(s, open, x, y, z)
  PROVE  Ledger(u, open, x, y, z)
<1>1. /\ Paid(u, open) = Paid(s, open) /\ \A d : PaidOn(u, d, open) = PaidOn(s, d, open)
      /\ u.team = s.team /\ u.kind = s.kind /\ u.items = s.items /\ u.day = s.day
      /\ u.parked = s.parked
  BY DEF Alike, Paid, PaidOn, Waiting
<1>2. /\ \A t \in Teams, d \in Days : u.delta[TeamRow(t, d)] = s.delta[TeamRow(t, d)]
      /\ \A d \in Days : u.delta[PoolRow(d)] = s.delta[PoolRow(d)]
      /\ \A t \in Teams : u.delta[PeriodRow(t)] = s.delta[PeriodRow(t)]
  <2>1. /\ \A t \in Teams, d \in Days : TeamRow(t, d) \in Rows /\ PlanRow(TeamRow(t, d))
        /\ \A d \in Days : PoolRow(d) \in Rows /\ PlanRow(PoolRow(d))
        /\ \A t \in Teams : PeriodRow(t) \in Rows /\ PlanRow(PeriodRow(t))
    BY PlanRows DEF Rows
  <2> QED BY <2>1
<1> QED BY <1>1, <1>2 DEF Ledger

LEMMA LedgerAdd ==
  ASSUME NEW s \in Transactions, s.day \in Days, s.team \in Teams, NEW open,
         NEW x \in Int, NEW y \in Int, NEW z \in Int, Ledger(s, open, x, y, z), NEW n \in Int
  PROVE  /\ Ledger(Add(s, TeamRow(s.team, s.day), n), open, x + n, y, z)
         /\ s.kind = "pool" => Ledger(Add(s, PoolRow(s.day), n), open, x, y + n, z)
         /\ s.kind = "month" => Ledger(Add(s, PeriodRow(s.team), n), open, x, y, z + n)
<1> DEFINE a == Add(s, TeamRow(s.team, s.day), n)
           b == Add(s, PoolRow(s.day), n)
           c == Add(s, PeriodRow(s.team), n)
<1>1. /\ \A t \in Teams, d \in Days : TeamRow(t, d) \in Rows
      /\ \A d \in Days : PoolRow(d) \in Rows
      /\ \A t \in Teams : PeriodRow(t) \in Rows
  BY DEF Rows
<1>2. /\ Alike(s, a) /\ \A q \in Rows : a.delta[q] = s.delta[q] + IF q = TeamRow(s.team, s.day) THEN n ELSE 0
      /\ Alike(s, b) /\ \A q \in Rows : b.delta[q] = s.delta[q] + IF q = PoolRow(s.day) THEN n ELSE 0
      /\ Alike(s, c) /\ \A q \in Rows : c.delta[q] = s.delta[q] + IF q = PeriodRow(s.team) THEN n ELSE 0
  <2>1. TeamRow(s.team, s.day) \in Rows /\ PoolRow(s.day) \in Rows /\ PeriodRow(s.team) \in Rows
    BY <1>1
  <2>2. \A r \in Rows : /\ Alike(s, Add(s, r, n))
                        /\ \A q \in Rows : Add(s, r, n).delta[q] = s.delta[q] + IF q = r THEN n ELSE 0
    BY AddDelta
  <2> QED BY <2>1, <2>2
<1>3. \A u : Alike(s, u) =>
        /\ Paid(u, open) = Paid(s, open) /\ \A d : PaidOn(u, d, open) = PaidOn(s, d, open)
        /\ u.team = s.team /\ u.kind = s.kind /\ u.items = s.items /\ u.day = s.day
        /\ u.parked = s.parked
  BY DEF Alike, Paid, PaidOn, Waiting
<1>4. /\ Cardinality(Paid(s, open)) \in Nat
      /\ \A d : Cardinality(PaidOn(s, d, open)) \in Nat
      /\ \A q \in Rows : s.delta[q] \in Int
  BY PaidFinite DEF Transactions
<1> HIDE DEF a, b, c
<1>5. Ledger(a, open, x + n, y, z)
  <2>1. \A t \in Teams, d \in Days : a.delta[TeamRow(t, d)] =
          s.delta[TeamRow(t, d)] + IF t = s.team /\ d = s.day THEN n ELSE 0
    BY <1>1, <1>2, RowsApart
  <2>2. /\ \A d \in Days : a.delta[PoolRow(d)] = s.delta[PoolRow(d)]
        /\ \A t \in Teams : a.delta[PeriodRow(t)] = s.delta[PeriodRow(t)]
    <3>1. /\ \A d : PoolRow(d) # TeamRow(s.team, s.day)
          /\ \A t : PeriodRow(t) # TeamRow(s.team, s.day)
      BY RowsApart
    <3> QED BY <1>1, <1>2, <1>4, <3>1
  <2>3. \A t \in Teams, d \in Days : a.delta[TeamRow(t, d)] =
          IF t = s.team THEN Cardinality(PaidOn(s, d, open)) + (IF d = s.day THEN x + n ELSE 0)
          ELSE 0
    BY <1>4, <2>1 DEF Ledger
  <2> QED BY <1>2, <1>3, <2>2, <2>3 DEF Ledger
<1>6. ASSUME s.kind = "pool" PROVE Ledger(b, open, x, y + n, z)
  <2>1. \A d \in Days : b.delta[PoolRow(d)] = s.delta[PoolRow(d)] + IF d = s.day THEN n ELSE 0
    BY <1>1, <1>2, RowsApart
  <2>2. /\ \A t \in Teams, d \in Days : b.delta[TeamRow(t, d)] = s.delta[TeamRow(t, d)]
        /\ \A t \in Teams : b.delta[PeriodRow(t)] = s.delta[PeriodRow(t)]
    <3>1. /\ \A t, d : TeamRow(t, d) # PoolRow(s.day)
          /\ \A t : PeriodRow(t) # PoolRow(s.day)
      BY RowsApart
    <3> QED BY <1>1, <1>2, <1>4, <3>1
  <2>3. \A d \in Days : b.delta[PoolRow(d)] =
          Cardinality(PaidOn(s, d, open)) + (IF d = s.day THEN y + n ELSE 0)
    BY <1>4, <1>6, <2>1 DEF Ledger
  <2> QED BY <1>2, <1>3, <1>6, <2>2, <2>3 DEF Ledger
<1>7. ASSUME s.kind = "month" PROVE Ledger(c, open, x, y, z + n)
  <2>1. \A t \in Teams : c.delta[PeriodRow(t)] = s.delta[PeriodRow(t)] + IF t = s.team THEN n ELSE 0
    BY <1>1, <1>2, RowsApart
  <2>2. /\ \A t \in Teams, d \in Days : c.delta[TeamRow(t, d)] = s.delta[TeamRow(t, d)]
        /\ \A d \in Days : c.delta[PoolRow(d)] = s.delta[PoolRow(d)]
    <3>1. /\ \A t, d : TeamRow(t, d) # PeriodRow(s.team)
          /\ \A d : PoolRow(d) # PeriodRow(s.team)
      BY RowsApart
    <3> QED BY <1>1, <1>2, <1>4, <3>1
  <2>3. \A t \in Teams : c.delta[PeriodRow(t)] =
          IF t = s.team THEN Cardinality(Paid(s, open)) + (z + n) ELSE 0
    BY <1>4, <1>7, <2>1 DEF Ledger
  <2> QED BY <1>2, <1>3, <1>7, <2>2, <2>3 DEF Ledger
<1> QED BY <1>5, <1>6, <1>7 DEF a, b, c

(* The period is no concern of a pool's team, nor the pool of another's.    *)
LEMMA LedgerOf ==
  ASSUME NEW s, NEW open, NEW x, NEW y, NEW z, NEW w, Ledger(s, open, x, y, z)
  PROVE  /\ s.kind = "pool" => Ledger(s, open, x, y, w)
         /\ s.kind = "month" => Ledger(s, open, x, w, z)
BY DEF Ledger

LEMMA NextDayBooked ==
  ASSUME NEW s \in Transactions, Ledger(s, s.todo, 0, 0, 0)
  PROVE  Booked(NextDay(s))
<1> DEFINE u == NextDay(s)
<1>1. Goes(s, u) /\ u.parked = s.parked
  BY NextDayGoes
<1>2. Ledger(u, s.todo, 0, 0, 0)
  BY <1>1, LedgerGoes
<1>3. CASE s.todo = {}
  <2>1. u.pc \in {"review", "commit", "warm"} /\ u.todo = {}
    BY <1>3, NextDayGoes
  <2> HIDE DEF u
  <2> QED BY <1>2, <1>3, <2>1 DEF Booked, Open, AtDay, u
<1>4. CASE s.todo # {}
  <2>1. /\ u.pc = First(s) /\ u.day \in s.todo /\ u.todo = s.todo \ {u.day}
        /\ u.try = Cardinality(Group(s, u.day))
    BY <1>4, NextDayGoes
  <2> HIDE DEF u
  <2>2. Open(u) = s.todo /\ u.day \notin u.todo /\ u.pc # "pool"
    BY <2>1 DEF Open, AtDay, First
  <2>3. u.try = Cardinality(Group(u, u.day)) /\ u.try \in Nat
    <3>1. Group(u, u.day) = Group(s, u.day) /\ u \in Transactions
      BY <1>1 DEF Group, Goes
    <3> QED BY <2>1, <3>1, GroupSize
  <2>4. u.pc = "team" => u.kind # "month"
    BY <1>1, <2>1 DEF First, Goes
  <2>5. Ledger(u, s.todo, 0, 0, IF u.pc = "team" THEN u.try ELSE 0)
    BY <1>2, <2>4 DEF Ledger
  <2> QED BY <2>2, <2>3, <2>5 DEF Booked, u
<1> QED BY <1>3, <1>4

(* Keeping the first of a day's items and parking the rest settles the day. *)
LEMMA ParkedLedger ==
  ASSUME NEW s \in Transactions, s.parked \subseteq DOMAIN s.items, s.day \notin s.todo,
         NEW keep \in Nat, keep <= Cardinality(Group(s, s.day)),
         Ledger(s, s.todo \cup {s.day}, keep, keep, keep)
  PROVE  Ledger(Parked(s, keep), s.todo, 0, 0, 0)
<1> DEFINE u == Parked(s, keep)
           G == Group(s, s.day)
           o == s.todo \cup {s.day}
           K == {i \in G : Cardinality({j \in G : j < i}) < keep}
           tail == {i \in G : Cardinality({j \in G : j < i}) >= keep}
<1>1. /\ G \subseteq DOMAIN s.items /\ IsFiniteSet(G) /\ G \in SUBSET Nat
      /\ \A i \in G : Cardinality({j \in G : j < i}) \in Nat
  <2>1. /\ G \subseteq DOMAIN s.items /\ IsFiniteSet(G)
        /\ \A S \in SUBSET G : Cardinality(S) \in Nat
    BY GroupSize
  <2>2. DOMAIN s.items \subseteq Nat
    BY PaidFinite
  <2>3. \A i \in G : {j \in G : j < i} \in SUBSET G
    OBVIOUS
  <2> HIDE DEF G
  <2> QED BY <2>1, <2>2, <2>3
<1>2. Cardinality(K) = keep
  <2> HIDE DEF G
  <2> QED BY <1>1, FirstOnes DEF G
<1>3. K = G \ tail /\ K \subseteq G
  BY <1>1
<1>4. u = [s EXCEPT !.parked = s.parked \cup tail]
  BY DEF Parked, Transactions
<1>5. /\ u.parked = s.parked \cup tail /\ u.delta = s.delta /\ u.team = s.team
      /\ u.kind = s.kind /\ u.items = s.items /\ u.day = s.day
  <2> HIDE DEF tail
  <2> QED BY <1>4 DEF Transactions
<1>6. \A i \in G : i \in Waiting(s) /\ s.items[i].day = s.day
  <2> TAKE i \in G
  <2>1. s.items[i].day = s.day /\ i \in DOMAIN s.items
    BY DEF Group
  <2>2. i \notin s.parked
    BY <2>1 DEF Ledger
  <2> QED BY <2>1, <2>2 DEF Waiting
<1>7. \A i \in DOMAIN s.items : s.items[i].day = s.day => i \in G
  BY DEF Group
<1> HIDE DEF G, K, tail, u
<1>8. /\ Paid(u, s.todo) = Paid(s, o) \cup K /\ Paid(s, o) \cap K = {}
      /\ PaidOn(u, s.day, s.todo) = K
      /\ \A d : d # s.day => PaidOn(u, d, s.todo) = PaidOn(s, d, o)
      /\ PaidOn(s, s.day, o) = {}
  <2>1. Waiting(u) = Waiting(s) \ tail
    BY <1>5 DEF Waiting
  <2>2. \A i \in Waiting(s) : s.items[i].day = s.day <=> i \in G
    BY <1>6, <1>7 DEF Waiting
  <2>3. tail \subseteq G
    BY DEF tail
  <2>4. Paid(u, s.todo) = Paid(s, o) \cup K /\ Paid(s, o) \cap K = {}
    BY <1>3, <1>5, <1>6, <2>1, <2>2, <2>3 DEF Paid
  <2>5. PaidOn(u, s.day, s.todo) = K
    BY <1>3, <1>5, <1>6, <2>1, <2>2, <2>3 DEF Paid, PaidOn
  <2>6. \A d : d # s.day => PaidOn(u, d, s.todo) = PaidOn(s, d, o)
    BY <1>3, <1>5, <1>6, <2>1, <2>2, <2>3 DEF Paid, PaidOn
  <2>7. PaidOn(s, s.day, o) = {}
    BY DEF Paid, PaidOn
  <2> QED BY <2>4, <2>5, <2>6, <2>7
<1>9. Cardinality(Paid(u, s.todo)) = Cardinality(Paid(s, o)) + keep
  <2>1. IsFiniteSet(K) /\ IsFiniteSet(Paid(s, o)) /\ Cardinality(Paid(s, o)) \in Nat
    BY <1>1, <1>3, FS_Subset, PaidFinite
  <2> DEFINE P == Paid(s, o)
  <2>2. IsFiniteSet(P) /\ P \cap K = {} /\ Paid(u, s.todo) = P \cup K /\ Cardinality(P) \in Nat
    BY <1>8, <2>1
  <2> HIDE DEF P
  <2>3. Cardinality(P \cup K) = Cardinality(P) + Cardinality(K) - Cardinality(P \cap K)
    BY <2>1, <2>2, FS_Union
  <2>4. Cardinality(P \cup K) = Cardinality(P) + keep
    <3>1. Cardinality(P \cap K) = 0
      BY <2>2, FS_EmptySet
    <3> QED BY <1>2, <2>2, <2>3, <3>1
  <2> QED BY <2>2, <2>4 DEF P
<1>10. ASSUME NEW d
       PROVE  /\ Cardinality(PaidOn(u, d, s.todo)) =
                   Cardinality(PaidOn(s, d, o)) + IF d = s.day THEN keep ELSE 0
              /\ Cardinality(PaidOn(u, d, s.todo)) \in Nat
  <2>1. Cardinality(PaidOn(s, d, o)) \in Nat
    BY PaidFinite
  <2>2. CASE d = s.day
    <3>1. PaidOn(u, d, s.todo) = K /\ PaidOn(s, d, o) = {} /\ Cardinality({}) = 0
      BY <1>8, <2>2, FS_EmptySet
    <3>2. Cardinality(PaidOn(u, d, s.todo)) = keep /\ Cardinality(PaidOn(s, d, o)) = 0
      BY <1>2, <3>1
    <3> QED BY <2>2, <3>2
  <2>3. CASE d # s.day
    <3>1. PaidOn(u, d, s.todo) = PaidOn(s, d, o)
      BY <1>8, <2>3
    <3> HIDE DEF o
    <3> QED BY <2>1, <2>3, <3>1
  <2> QED BY <2>2, <2>3
<1>11. \A i \in u.parked : s.items[i].day \notin s.todo
  <2>1. \A i \in tail : s.items[i].day = s.day
    BY <1>6 DEF tail
  <2> QED BY <1>5, <2>1 DEF Ledger
<1>12. /\ \A t \in Teams, d \in Days : u.delta[TeamRow(t, d)] =
            IF t = u.team THEN Cardinality(PaidOn(u, d, s.todo)) + (IF d = u.day THEN 0 ELSE 0) ELSE 0
       /\ \A d \in Days : u.delta[PoolRow(d)] =
            IF u.kind = "pool" THEN Cardinality(PaidOn(u, d, s.todo)) + (IF d = u.day THEN 0 ELSE 0)
            ELSE 0
  <2>1. \A d : /\ Cardinality(PaidOn(u, d, s.todo)) + (IF d = u.day THEN 0 ELSE 0) =
                    Cardinality(PaidOn(u, d, s.todo))
    BY <1>10
  <2>2. /\ \A t \in Teams, d \in Days : s.delta[TeamRow(t, d)] =
             IF t = s.team THEN Cardinality(PaidOn(s, d, o)) + (IF d = s.day THEN keep ELSE 0)
             ELSE 0
        /\ \A d \in Days : s.delta[PoolRow(d)] =
             IF s.kind = "pool" THEN Cardinality(PaidOn(s, d, o)) + (IF d = s.day THEN keep ELSE 0)
             ELSE 0
    BY DEF Ledger
  <2> HIDE DEF o
  <2> QED BY <1>5, <1>10, <2>1, <2>2
<1>13. \A t \in Teams : u.delta[PeriodRow(t)] =
         IF t = u.team /\ u.kind = "month" THEN Cardinality(Paid(u, s.todo)) + 0 ELSE 0
  <2>1. Cardinality(Paid(s, o)) \in Nat
    BY PaidFinite
  <2>2. \A t \in Teams : s.delta[PeriodRow(t)] =
          IF t = s.team /\ s.kind = "month" THEN Cardinality(Paid(s, o)) + keep ELSE 0
    BY DEF Ledger
  <2>3. Cardinality(Paid(u, s.todo)) + 0 = Cardinality(Paid(s, o)) + keep
    BY <1>9, <2>1
  <2> HIDE DEF o
  <2> QED BY <1>5, <2>2, <2>3
<1> QED BY <1>5, <1>11, <1>12, <1>13 DEF Ledger, u

LEMMA ReservedBooked ==
  ASSUME NEW s \in Transactions, s.parked \subseteq DOMAIN s.items, s.day \notin s.todo,
         s.try <= Cardinality(Group(s, s.day)),
         Ledger(s, s.todo \cup {s.day}, s.try, s.try, s.try)
  PROVE  Booked(Reserved(s))
<1>1. s.try \in Nat /\ Goes(s, Parked(s, s.try)) /\ Parked(s, s.try).todo = s.todo
  BY ParkedGoes DEF Transactions
<1>2. Ledger(Parked(s, s.try), s.todo, 0, 0, 0)
  BY <1>1, ParkedLedger
<1> QED BY <1>1, <1>2, NextDayBooked DEF Reserved, Goes

LEMMA RefusedBooked ==
  ASSUME NEW s \in Transactions, s.parked \subseteq DOMAIN s.items, s.day \notin s.todo,
         Ledger(s, s.todo \cup {s.day}, 0, 0, 0)
  PROVE  Booked(Refused(s))
<1>1. CASE s.try = Cardinality(Group(s, s.day)) /\ Room(s) \in 1..(s.try - 1)
  <2> DEFINE k == Room(s)
             u == [s EXCEPT !.try = k, !.pc = First(s)]
  <2>1. Refused(s) = u /\ k \in Nat /\ k <= Cardinality(Group(s, s.day))
    BY <1>1 DEF Refused, Transactions
  <2> HIDE DEF k
  <2>2. First(s) \in {"period", "team"} /\ (First(s) = "team" => s.kind # "month")
    BY DEF First
  <2>3. /\ Goes(s, u) /\ u.parked = s.parked /\ u.day = s.day /\ u.todo = s.todo
        /\ u.try = k /\ u.pc = First(s)
    BY <2>1, <2>2 DEF Goes, Transactions, Pcs
  <2> HIDE DEF u
  <2>4. Ledger(u, s.todo \cup {s.day}, 0, 0, 0)
    BY <2>3, LedgerGoes
  <2>5. Ledger(u, s.todo \cup {s.day}, 0, 0, IF u.pc = "team" THEN u.try ELSE 0)
    BY <2>2, <2>3, <2>4 DEF Ledger, Goes
  <2>6. Open(u) = s.todo \cup {s.day} /\ u.pc # "pool"
    BY <2>2, <2>3 DEF Open, AtDay
  <2>7. u.try <= Cardinality(Group(u, u.day)) /\ u.day \notin u.todo
    BY <2>1, <2>3 DEF Group, Goes
  <2> QED BY <2>1, <2>5, <2>6, <2>7 DEF Booked
<1>2. CASE ~(s.try = Cardinality(Group(s, s.day)) /\ Room(s) \in 1..(s.try - 1))
  <2>1. Goes(s, Parked(s, 0)) /\ Parked(s, 0).todo = s.todo
    BY ParkedGoes
  <2>2. 0 <= Cardinality(Group(s, s.day))
    BY GroupSize
  <2>3. Ledger(Parked(s, 0), s.todo, 0, 0, 0)
    BY <2>2, ParkedLedger
  <2> QED BY <1>2, <2>1, <2>3, NextDayBooked DEF Refused, Goes
<1> QED BY <1>1, <1>2

(* An item handed back is no longer charged.                                *)
LEMMA ReturnedLedger ==
  ASSUME NEW s \in Transactions, NEW i \in Waiting(s), count \in [Rows -> Nat],
         Ledger(s, {}, 0, 0, 0)
  PROVE  Ledger(Returned(s, i), {}, 0, 0, 0)
<1> DEFINE u == Returned(s, i)
           e == s.items[i].day
<1>1. /\ u.team = s.team /\ u.kind = s.kind /\ u.items = s.items /\ u.day = s.day
      /\ u.parked = s.parked \cup {i}
      /\ \A q \in Rows \ Charge(s, i) : u.delta[q] = s.delta[q]
      /\ \A q \in Charge(s, i) : s.delta[q] > 0 => u.delta[q] = s.delta[q] - 1
  BY ReturnedDelta
<1>2. s.team \in Teams /\ s.kind \in {"pool", "month"} /\ e \in Days
  <2>1. i \in DOMAIN s.items /\ s.items \in Seq(Items)
    BY DEF Waiting, Transactions
  <2>2. s.items[i] \in Items
    BY <2>1
  <2> QED BY <2>2 DEF Transactions, Kinds, Items
<1>3. Charge(s, i) = {TeamRow(s.team, e), IF s.kind = "pool" THEN PoolRow(e) ELSE PeriodRow(s.team)}
  BY DEF Charge
<1> HIDE DEF u
<1>4. /\ Paid(u, {}) = Paid(s, {}) \ {i} /\ i \in Paid(s, {})
      /\ i \in PaidOn(s, e, {})
      /\ \A d : PaidOn(u, d, {}) = IF d = e THEN PaidOn(s, d, {}) \ {i} ELSE PaidOn(s, d, {})
  BY <1>1 DEF Paid, PaidOn, Waiting
<1>5. /\ IsFiniteSet(Paid(s, {})) /\ Cardinality(Paid(s, {})) \in Nat
      /\ \A d : IsFiniteSet(PaidOn(s, d, {})) /\ Cardinality(PaidOn(s, d, {})) \in Nat
  BY PaidFinite
<1>6. /\ Cardinality(Paid(s, {})) > 0 /\ Cardinality(PaidOn(s, e, {})) > 0
  BY <1>4, <1>5, FS_EmptySet
<1>7. /\ Cardinality(Paid(u, {})) = Cardinality(Paid(s, {})) - 1
      /\ \A d : Cardinality(PaidOn(u, d, {})) = Cardinality(PaidOn(s, d, {})) - IF d = e THEN 1 ELSE 0
  <2>1. Cardinality(Paid(u, {})) = Cardinality(Paid(s, {})) - 1
    BY <1>4, <1>5, FS_RemoveElement
  <2>2. ASSUME NEW d
        PROVE  Cardinality(PaidOn(u, d, {})) = Cardinality(PaidOn(s, d, {})) - IF d = e THEN 1 ELSE 0
    <3>1. CASE d = e
      BY <1>4, <1>5, <3>1, FS_RemoveElement
    <3>2. CASE d # e
      BY <1>4, <1>5, <3>2
    <3> QED BY <3>1, <3>2
  <2> QED BY <2>1, <2>2
<1>8. /\ \A t \in Teams, d \in Days : s.delta[TeamRow(t, d)] =
           IF t = s.team THEN Cardinality(PaidOn(s, d, {})) ELSE 0
      /\ \A d \in Days : s.delta[PoolRow(d)] =
           IF s.kind = "pool" THEN Cardinality(PaidOn(s, d, {})) ELSE 0
      /\ \A t \in Teams : s.delta[PeriodRow(t)] =
           IF t = s.team /\ s.kind = "month" THEN Cardinality(Paid(s, {})) ELSE 0
  BY <1>5 DEF Ledger
<1>9. \A t \in Teams, d \in Days : u.delta[TeamRow(t, d)] =
        IF t = u.team THEN Cardinality(PaidOn(u, d, {})) ELSE 0
  <2> TAKE t \in Teams, d \in Days
  <2>1. TeamRow(t, d) \in Rows
    BY DEF Rows
  <2>2. CASE t = s.team /\ d = e
    BY <1>1, <1>3, <1>6, <1>7, <1>8, <2>2
  <2>3. CASE ~(t = s.team /\ d = e)
    <3>1. TeamRow(t, d) \notin Charge(s, i)
      BY <1>3, <2>3, RowsApart
    <3> QED BY <1>1, <1>5, <1>7, <1>8, <2>1, <2>3, <3>1
  <2> QED BY <2>2, <2>3
<1>10. \A d \in Days : u.delta[PoolRow(d)] =
         IF u.kind = "pool" THEN Cardinality(PaidOn(u, d, {})) ELSE 0
  <2> TAKE d \in Days
  <2>1. PoolRow(d) \in Rows
    BY DEF Rows
  <2>2. CASE s.kind = "pool" /\ d = e
    BY <1>1, <1>3, <1>6, <1>7, <1>8, <2>2
  <2>3. CASE ~(s.kind = "pool" /\ d = e)
    <3>1. PoolRow(d) \notin Charge(s, i)
      BY <1>3, <2>3, RowsApart
    <3> QED BY <1>1, <1>5, <1>7, <1>8, <2>1, <2>3, <3>1
  <2> QED BY <2>2, <2>3
<1>11. \A t \in Teams : u.delta[PeriodRow(t)] =
         IF t = u.team /\ u.kind = "month" THEN Cardinality(Paid(u, {})) ELSE 0
  <2> TAKE t \in Teams
  <2>1. PeriodRow(t) \in Rows
    BY DEF Rows
  <2>2. CASE t = s.team /\ s.kind = "month"
    BY <1>1, <1>3, <1>6, <1>7, <1>8, <2>2
  <2>3. CASE ~(t = s.team /\ s.kind = "month")
    <3>1. PeriodRow(t) \notin Charge(s, i)
      BY <1>2, <1>3, <2>3, RowsApart
    <3> QED BY <1>1, <1>8, <2>1, <2>3, <3>1
  <2> QED BY <2>2, <2>3
<1>12. /\ Cardinality(Paid(u, {})) \in Int /\ \A d : Cardinality(PaidOn(u, d, {})) \in Int
  BY <1>5, <1>7
<1> QED BY <1>9, <1>10, <1>11, <1>12 DEF Ledger, u

-----------------------------------------------------------------------------
(* Charges, counters and plans. *)

(* What a release gives back: a unit of its team's day, and of the pool or  *)
(* the period its team's plan counts in - each for sure as long as no team  *)
(* changes plan.                                                            *)
Given(s) ==
  /\ \A t \in Teams, d \in Days : s.delta[TeamRow(t, d)] =
       IF t = s.team /\ d = Today /\ s.pc \in {"pool", "commit"} THEN -1 ELSE 0
  /\ \A d \in Days : /\ s.delta[PoolRow(d)] \in {-1, 0}
                     /\ s.delta[PoolRow(d)] # 0 => d = Today /\ s.kind = "pool" /\ s.pc = "commit"
  /\ moves = 0 =>
       /\ s.pc = "commit" /\ s.kind = "pool" => s.delta[PoolRow(Today)] = -1
       /\ \A t \in Teams : s.delta[PeriodRow(t)] =
            IF t = s.team /\ s.kind = "month" /\ s.pc # "period" THEN -1 ELSE 0

Books(s) == IF s.job = "release" THEN Given(s) ELSE Booked(s)

Counted ==
  /\ ChargedOnce
  /\ ~lapsed => \A d \in Days : OutOn("pool", d) <= count[PoolRow(d)]

(* Until a team falls back to Free, a team on Free has only had Free; and   *)
(* until a team changes plan, its mail and its transactions are of its plan.*)
Links ==
  /\ moves = 0 => ~lapsed
  /\ ~lapsed =>
       /\ \A t \in Teams, d \in Days : plan[t] = "pool" => out[t][d]["month"] = 0
       /\ \A x \in Txs : tx[x].pc # "idle" =>
            /\ plan[tx[x].team] = "pool" => tx[x].kind = "pool"
            /\ tx[x].job = "release" /\ tx[x].kind = "pool" => tx[x].was = "pool"
  /\ moves = 0 =>
       /\ \A t \in Teams, d \in Days : plan[t] = "month" => out[t][d]["pool"] = 0
       /\ \A x \in Txs : tx[x].pc # "idle" => tx[x].kind = plan[tx[x].team]

ChargeInv == (\A x \in Txs : Books(tx[x])) /\ Counted /\ Links

LEMMA ChargeStep ==
  ASSUME CapsInv, ChargeInv, NEW x \in Txs, NEW u, Books(u), Step(x, u),
         \/ u.pc = "idle"
         \/ /\ tx[x].pc # "idle" /\ u.team = tx[x].team /\ u.kind = tx[x].kind
            /\ u.was = tx[x].was /\ u.job = tx[x].job
  PROVE  ChargeInv'
<1>1. /\ tx' = [tx EXCEPT ![x] = u] /\ UNCHANGED <<count, plan, out, begun, moves, lapsed>>
  BY DEF Step
<1>2. \A y \in Txs : tx'[y] = IF y = x THEN u ELSE tx[y]
  BY <1>1 DEF CapsInv
<1>3. \A y \in Txs : Books(tx[y])'
  <2> TAKE y \in Txs
  <2>1. Books(tx'[y])
    BY <1>2 DEF ChargeInv
  <2> QED BY <1>1, <2>1 DEF Books, Given, Booked, Ledger, Paid, PaidOn, Waiting, Open, Group
<1>4. Counted'
  BY <1>1 DEF ChargeInv, Counted, ChargedOnce, OutOn
<1>5. Links'
  BY <1>1, <1>2 DEF ChargeInv, Links
<1> QED BY <1>3, <1>4, <1>5 DEF ChargeInv

LEMMA ZeroBooked ==
  ASSUME NEW s \in Transactions, \A q \in Rows : s.delta[q] = 0, s.pc = "idle", s.parked = {},
         \A i \in DOMAIN s.items : s.items[i].day \in s.todo
  PROVE  Ledger(s, s.todo, 0, 0, 0) /\ Booked(s)
<1>1. Paid(s, s.todo) = {} /\ \A d : PaidOn(s, d, s.todo) = {}
  BY DEF Paid, PaidOn, Waiting
<1>2. Cardinality(Paid(s, s.todo)) = 0 /\ \A d : Cardinality(PaidOn(s, d, s.todo)) = 0
  BY <1>1, FS_EmptySet
<1>3. /\ \A t \in Teams, d \in Days : s.delta[TeamRow(t, d)] = 0
      /\ \A d \in Days : s.delta[PoolRow(d)] = 0
      /\ \A t \in Teams : s.delta[PeriodRow(t)] = 0
  BY DEF Rows
<1>4. Ledger(s, s.todo, 0, 0, 0)
  BY <1>2, <1>3 DEF Ledger
<1>5. Open(s) = s.todo
  BY DEF Open, AtDay
<1> QED BY <1>4, <1>5 DEF Booked, AtDay

LEMMA IdleBooks ==
  ASSUME CapsInv
  PROVE  Books(Idle) /\ Idle.pc = "idle"
<1>1. /\ Idle \in Transactions /\ Idle.pc = "idle" /\ Idle.items = <<>> /\ Idle.parked = {}
      /\ Idle.todo = {} /\ Idle.job = "accept" /\ \A q \in Rows : Idle.delta[q] = 0
  BY IdleOk DEF CapsInv, Idle
<1> QED BY <1>1, ZeroBooked DEF Books

LEMMA IdleCharge ==
  ASSUME CapsInv, ChargeInv, NEW x \in Txs, Step(x, Idle)
  PROVE  ChargeInv'
BY IdleBooks, ChargeStep

LEMMA TakePeriodCharge ==
  ASSUME CapsInv, ChargeInv, NEW x \in Txs, TakePeriod(x)
  PROVE  ChargeInv'
<1> DEFINE s == tx[x]
           r == PeriodRow(s.team)
           o == s.todo \cup {s.day}
<1>1. /\ s \in Transactions /\ s.team \in Teams /\ s.day \in Days /\ s.try \in Nat
      /\ s.pc = "period" /\ s.job # "release" /\ s.kind = "month" /\ r \in Rows
  BY TxTyped DEF TakePeriod, Rows, Stage, Placed
<1>2. /\ Ledger(s, o, 0, 0, 0) /\ s.day \notin s.todo /\ s.try <= Cardinality(Group(s, s.day))
  <2>1. Booked(s) /\ Open(s) = o /\ s.pc \in AtDay /\ s.pc # "pool" /\ s.pc # "team"
    BY <1>1 DEF ChargeInv, Books, Open, AtDay
  <2> QED BY <2>1 DEF Booked
<1>3. CASE Value(s, r) + s.try <= Included
  <2> DEFINE v == Add(s, r, s.try)
             u == [v EXCEPT !.pc = "team"]
  <2>1. Step(x, u)
    BY <1>3 DEF TakePeriod
  <2>2. v \in Transactions /\ Alike(s, v)
    BY <1>1, AddDelta
  <2>3. Ledger(v, o, 0, 0, 0 + s.try)
    BY <1>1, <1>2, LedgerAdd
  <2> HIDE DEF v
  <2>4. /\ Goes(v, u) /\ u.parked = v.parked /\ u.day = v.day /\ u.pc = "team" /\ u.todo = v.todo
        /\ u.try = v.try
    BY <2>2 DEF Goes, Transactions, Pcs
  <2> HIDE DEF u
  <2>5. Ledger(u, o, 0, 0, s.try)
    BY <1>1, <2>3, <2>4, LedgerGoes
  <2>6. Open(u) = o /\ u.try = s.try /\ Group(u, u.day) = Group(s, s.day) /\ u.day \notin u.todo
    BY <1>2, <2>2, <2>4 DEF Open, AtDay, Alike, Group, Goes
  <2>7. Booked(u)
    BY <1>2, <2>4, <2>5, <2>6 DEF Booked
  <2>8. /\ u.job = s.job /\ u.team = s.team /\ u.kind = s.kind /\ u.was = s.was
    BY <2>2, <2>4 DEF Goes, Alike
  <2> QED BY <1>1, <2>1, <2>7, <2>8, ChargeStep DEF Books
<1>4. CASE ~(Value(s, r) + s.try <= Included)
  BY <1>4, IdleCharge DEF TakePeriod
<1> QED BY <1>3, <1>4

(* A day is refused, or reserved, with what was taken for it given back, or *)
(* kept.                                                                    *)
LEMMA SettledCharge ==
  ASSUME CapsInv, ChargeInv, NEW x \in Txs, tx[x].pc \in AtDay, tx[x].job # "release",
         NEW v \in Transactions, Alike(tx[x], v),
         \/ Ledger(v, v.todo \cup {v.day}, 0, 0, 0) /\ Step(x, Refused(v))
         \/ Ledger(v, v.todo \cup {v.day}, v.try, v.try, v.try) /\ Step(x, Reserved(v))
  PROVE  ChargeInv'
<1> DEFINE s == tx[x]
<1>1. v.parked \subseteq DOMAIN v.items
  BY TxTyped DEF Alike
<1>2. v.day \notin v.todo /\ v.try <= Cardinality(Group(v, v.day))
  <2>1. Booked(s)
    BY DEF ChargeInv, Books
  <2>2. Group(v, v.day) = Group(s, s.day)
    BY DEF Alike, Group
  <2> QED BY <2>1, <2>2 DEF Booked, Alike
<1>3. s.pc # "idle" /\ v.job # "release"
  BY DEF AtDay, Alike
<1>4. CASE Ledger(v, v.todo \cup {v.day}, 0, 0, 0) /\ Step(x, Refused(v))
  <2>1. Booked(Refused(v))
    BY <1>1, <1>2, <1>4, RefusedBooked
  <2>2. Goes(v, Refused(v))
    BY <1>1, RefusedGoes
  <2> QED BY <1>3, <1>4, <2>1, <2>2, ChargeStep DEF Books, Goes, Alike
<1>5. CASE Ledger(v, v.todo \cup {v.day}, v.try, v.try, v.try) /\ Step(x, Reserved(v))
  <2>1. Booked(Reserved(v))
    BY <1>1, <1>2, <1>5, ReservedBooked
  <2>2. Goes(v, Reserved(v))
    BY <1>1, RefusedGoes
  <2> QED BY <1>3, <1>5, <2>1, <2>2, ChargeStep DEF Books, Goes, Alike
<1> QED BY <1>4, <1>5

LEMMA TakeTeamCharge ==
  ASSUME CapsInv, ChargeInv, NEW x \in Txs, TakeTeam(x)
  PROVE  ChargeInv'
<1> DEFINE s == tx[x]
           r == TeamRow(s.team, s.day)
           p == PeriodRow(s.team)
           o == s.todo \cup {s.day}
<1>1. /\ s \in Transactions /\ s.team \in Teams /\ s.day \in Days /\ s.try \in Nat
      /\ s.try \in Int /\ -s.try \in Int
      /\ s.pc = "team" /\ s.pc \in AtDay /\ s.job # "release" /\ r \in Rows /\ p \in Rows
      /\ s.kind \in {"pool", "month"}
  <2>1. /\ s \in Transactions /\ s.pc = "team" /\ s.job # "release"
    BY TxTyped DEF TakeTeam
  <2>2. s.team \in Teams /\ s.day \in Days /\ s.try \in Nat /\ s.kind \in {"pool", "month"}
    BY <2>1 DEF Transactions, Kinds
  <2> QED BY <2>1, <2>2 DEF Rows, AtDay
<1>2. Booked(s) /\ Open(s) = o /\ s.pc # "pool"
  BY <1>1 DEF ChargeInv, Books, Open, AtDay
<1>3. Ledger(s, o, 0, 0, s.try)
  BY <1>1, <1>2 DEF Booked
<1>4. CASE Value(s, r) + s.try > TeamCeiling[s.kind]
  <2> DEFINE l == Locked(s, r)
             v == IF s.kind = "month" THEN Add(l, p, -s.try) ELSE l
  <2>1. l \in Transactions /\ Alike(s, l) /\ l.delta = s.delta
    BY <1>1, LockedDelta
  <2>2. Step(x, Refused(v))
    BY <1>4 DEF TakeTeam
  <2> HIDE DEF l
  <2>3. Ledger(l, o, 0, 0, s.try)
    BY <1>1, <1>3, <2>1, LedgerAlike
  <2>4. v \in Transactions /\ Alike(s, v) /\ Ledger(v, o, 0, 0, 0)
    <3>1. CASE s.kind = "month"
      <4>1. Add(l, p, -s.try) \in Transactions /\ Alike(l, Add(l, p, -s.try))
        BY <1>1, <2>1, AddDelta
      <4>2. l.team = s.team /\ l.day = s.day /\ l.kind = s.kind
        BY <2>1 DEF Alike
      <4>3. Ledger(Add(l, p, -s.try), o, 0, 0, s.try + (-s.try))
        <5>1. l.kind = "month" => Ledger(Add(l, PeriodRow(l.team), -s.try), o, 0, 0, s.try + (-s.try))
          BY <1>1, <2>1, <2>3, <4>2, LedgerAdd
        <5> QED BY <3>1, <4>2, <5>1
      <4>4. s.try + (-s.try) = 0
        BY <1>1
      <4> QED BY <2>1, <3>1, <4>1, <4>3, <4>4 DEF Alike
    <3>2. CASE s.kind # "month"
      <4>1. l.kind = "pool"
        BY <1>1, <2>1, <3>2 DEF Alike
      <4>2. Ledger(l, o, 0, 0, 0)
        BY <2>3, <4>1, LedgerOf
      <4> QED BY <2>1, <3>2, <4>2
    <3> QED BY <3>1, <3>2
  <2> HIDE DEF v
  <2>5. o = v.todo \cup {v.day}
    BY <2>4 DEF Alike
  <2> QED BY <1>1, <2>2, <2>4, <2>5, SettledCharge
<1>5. CASE ~(Value(s, r) + s.try > TeamCeiling[s.kind])
  <2> DEFINE v == Add(s, r, s.try)
             u == [v EXCEPT !.pc = "pool"]
  <2>1. v \in Transactions /\ Alike(s, v)
    BY <1>1, AddDelta
  <2>2. Ledger(v, o, s.try, 0, s.try)
    <3>1. Ledger(v, o, 0 + s.try, 0, s.try)
      BY <1>1, <1>3, LedgerAdd
    <3> QED BY <1>1, <3>1
  <2>3. CASE s.kind = "pool"
    <3>1. Step(x, u)
      BY <1>5, <2>3 DEF TakeTeam
    <3> HIDE DEF v
    <3>2. /\ Goes(v, u) /\ u.parked = v.parked /\ u.day = v.day /\ u.pc = "pool" /\ u.todo = v.todo
          /\ u.try = v.try
      BY <2>1 DEF Goes, Transactions, Pcs
    <3> HIDE DEF u
    <3>3. Ledger(v, o, s.try, 0, 0)
      BY <2>1, <2>2, <2>3, LedgerOf DEF Alike
    <3>4. Ledger(u, o, s.try, 0, 0)
      BY <3>2, <3>3, LedgerGoes
    <3>5. Open(u) = o /\ u.try = s.try /\ Group(u, u.day) = Group(s, s.day) /\ u.day = s.day
          /\ u.todo = s.todo
      BY <2>1, <3>2 DEF Open, AtDay, Alike, Group, Goes
    <3>6. Booked(u)
      BY <1>1, <1>2, <3>2, <3>4, <3>5 DEF Booked
    <3>7. /\ u.job = s.job /\ u.team = s.team /\ u.kind = s.kind /\ u.was = s.was
      BY <2>1, <3>2 DEF Goes, Alike
    <3> QED BY <1>1, <3>1, <3>6, <3>7, ChargeStep DEF Books
  <2>4. CASE s.kind # "pool"
    <3>1. Step(x, Reserved(v))
      BY <1>5, <2>4 DEF TakeTeam
    <3> HIDE DEF v
    <3>2. v.kind = "month" /\ v.try = s.try /\ o = v.todo \cup {v.day}
      BY <1>1, <2>1, <2>4 DEF Alike
    <3>3. Ledger(v, o, s.try, s.try, s.try)
      BY <2>2, <3>2, LedgerOf
    <3> QED BY <1>1, <2>1, <3>1, <3>2, <3>3, SettledCharge
  <2> QED BY <2>3, <2>4
<1> QED BY <1>4, <1>5

LEMMA TakePoolCharge ==
  ASSUME CapsInv, ChargeInv, NEW x \in Txs, TakePool(x)
  PROVE  ChargeInv'
<1> DEFINE s == tx[x]
           r == PoolRow(s.day)
           q == TeamRow(s.team, s.day)
           o == s.todo \cup {s.day}
<1>1. /\ s \in Transactions /\ s.team \in Teams /\ s.day \in Days /\ s.try \in Nat
      /\ s.try \in Int /\ -s.try \in Int
      /\ s.pc = "pool" /\ s.pc \in AtDay /\ s.job # "release" /\ r \in Rows /\ q \in Rows
      /\ s.kind = "pool"
  <2>1. /\ s \in Transactions /\ s.pc = "pool" /\ s.job # "release" /\ s.kind = "pool"
    BY TxTyped DEF TakePool, Stage, Placed
  <2>2. s.team \in Teams /\ s.day \in Days /\ s.try \in Nat
    BY <2>1 DEF Transactions, Kinds
  <2> QED BY <2>1, <2>2 DEF Rows, AtDay
<1>2. Booked(s) /\ Open(s) = o /\ s.pc # "team"
  BY <1>1 DEF ChargeInv, Books, Open, AtDay
<1>3. Ledger(s, o, s.try, 0, 0)
  BY <1>1, <1>2 DEF Booked
<1>4. CASE Value(s, r) + s.try <= PoolCeiling
  <2> DEFINE v == Add(s, r, s.try)
  <2>1. v \in Transactions /\ Alike(s, v)
    BY <1>1, AddDelta
  <2>2. Step(x, Reserved(v))
    BY <1>4 DEF TakePool
  <2>3. Ledger(v, o, s.try, 0 + s.try, 0)
    BY <1>1, <1>3, LedgerAdd
  <2> HIDE DEF v
  <2>4. v.kind = "pool" /\ v.try = s.try /\ o = v.todo \cup {v.day} /\ 0 + s.try = s.try
    BY <1>1, <2>1 DEF Alike
  <2>5. Ledger(v, o, s.try, s.try, s.try)
    BY <2>3, <2>4, LedgerOf
  <2> QED BY <1>1, <2>1, <2>2, <2>4, <2>5, SettledCharge
<1>5. CASE ~(Value(s, r) + s.try <= PoolCeiling)
  <2> DEFINE l == Locked(s, r)
             v == Add(l, q, -s.try)
  <2>1. l \in Transactions /\ Alike(s, l) /\ l.delta = s.delta
    BY <1>1, LockedDelta
  <2>2. Step(x, Refused(v))
    BY <1>5 DEF TakePool
  <2> HIDE DEF l
  <2>3. Ledger(l, o, s.try, 0, 0)
    BY <1>1, <1>3, <2>1, LedgerAlike
  <2>4. v \in Transactions /\ Alike(l, v)
    BY <1>1, <2>1, AddDelta
  <2>5. l.team = s.team /\ l.day = s.day
    BY <2>1 DEF Alike
  <2>6. Ledger(v, o, s.try + (-s.try), 0, 0)
    <3>1. Ledger(Add(l, TeamRow(l.team, l.day), -s.try), o, s.try + (-s.try), 0, 0)
      BY <1>1, <2>1, <2>3, <2>5, LedgerAdd
    <3> QED BY <2>5, <3>1
  <2> HIDE DEF v
  <2>7. s.try + (-s.try) = 0 /\ Alike(s, v) /\ o = v.todo \cup {v.day}
    BY <1>1, <2>1, <2>4 DEF Alike
  <2> QED BY <1>1, <2>2, <2>4, <2>6, <2>7, SettledCharge
<1> QED BY <1>4, <1>5

(* Past its reservations, a batch is charged what goes out.                 *)
LEMMA PastLedger ==
  ASSUME CapsInv, ChargeInv, NEW x \in Txs, tx[x].pc \in {"review", "warm", "domain"}
  PROVE  tx[x].job # "release" /\ tx[x].todo = {} /\ Ledger(tx[x], {}, 0, 0, 0)
<1>1. tx[x].todo = {} /\ tx[x].job # "release"
  BY TxTyped, PastDays
<1>2. Booked(tx[x]) /\ Open(tx[x]) = {}
  BY <1>1 DEF ChargeInv, Books, Open, AtDay
<1> QED BY <1>1, <1>2 DEF Booked

LEMMA HandBackCharge ==
  ASSUME CapsInv, ChargeInv, NEW x \in Txs, HandBack(x)
  PROVE  ChargeInv'
<1> DEFINE s == tx[x]
<1>1. /\ s \in Transactions /\ s.pc = "review" /\ count \in [Rows -> Nat]
      /\ s.job # "release" /\ s.todo = {} /\ Ledger(s, {}, 0, 0, 0)
  BY TxTyped, PastLedger DEF HandBack, CapsInv
<1>2. CASE Waiting(s) = {}
  <2> DEFINE u == [s EXCEPT !.pc = "commit"]
  <2>1. Step(x, u)
    BY <1>2 DEF HandBack
  <2>2. Goes(s, u) /\ u.pc = "commit" /\ u.parked = s.parked /\ u.todo = {} /\ u.day = s.day
    BY <1>1 DEF Goes, Transactions, Pcs
  <2> HIDE DEF u
  <2>3. Ledger(u, {}, 0, 0, 0) /\ Open(u) = {}
    BY <1>1, <2>2, LedgerGoes DEF Open, AtDay
  <2>4. Booked(u)
    BY <2>2, <2>3 DEF Booked, AtDay
  <2> QED BY <1>1, <2>1, <2>2, <2>4, ChargeStep DEF Books, Goes
<1>3. CASE Waiting(s) # {}
  <2> DEFINE i == CHOOSE i \in Waiting(s) : \A j \in Waiting(s) : i <= j
             u == Returned(s, i)
  <2>1. Step(x, u)
    BY <1>3 DEF HandBack
  <2>2. i \in Waiting(s)
    <3>1. Waiting(s) \in SUBSET Nat
      BY <1>1 DEF Waiting, Transactions
    <3> QED BY <1>3, <3>1, Least
  <2> HIDE DEF i
  <2>3. /\ u \in Transactions /\ u.pc = s.pc /\ u.team = s.team /\ u.kind = s.kind
        /\ u.job = s.job /\ u.was = s.was /\ u.todo = s.todo
    BY <1>1, <2>2, ReturnedDelta
  <2>4. Ledger(u, {}, 0, 0, 0)
    BY <1>1, <2>2, ReturnedLedger
  <2> HIDE DEF u
  <2>5. Open(u) = {}
    BY <1>1, <2>3 DEF Open, AtDay
  <2>6. Booked(u)
    BY <1>1, <2>3, <2>4, <2>5 DEF Booked, AtDay
  <2> QED BY <1>1, <2>1, <2>3, <2>6, ChargeStep DEF Books
<1> QED BY <1>2, <1>3

(* After the last item of a batch, or before its next.                      *)
LEMMA NextItemCharge ==
  ASSUME CapsInv, ChargeInv, NEW x \in Txs, tx[x].pc \in {"warm", "domain"},
         NEW v \in Transactions, v.team = tx[x].team, v.kind = tx[x].kind, v.job = tx[x].job,
         v.was = tx[x].was, v.todo = {}, Ledger(v, {}, 0, 0, 0), Step(x, NextItem(v))
  PROVE  ChargeInv'
<1> DEFINE u == NextItem(v)
<1>1. /\ Goes(v, u) /\ u.pc \in {"commit", "warm"} /\ u.parked = v.parked
      /\ u.todo = v.todo /\ u.day = v.day
  BY NextItemGoes
<1>2. Step(x, u) /\ tx[x].job # "release"
  BY PastLedger
<1> HIDE DEF u
<1>3. Ledger(u, {}, 0, 0, 0) /\ Open(u) = {}
  BY <1>1, LedgerGoes DEF Open, AtDay
<1>4. Booked(u)
  BY <1>1, <1>3 DEF Booked, AtDay
<1> QED BY <1>1, <1>2, <1>4, ChargeStep DEF Books, Goes

LEMMA HeldCharge ==
  ASSUME CapsInv, ChargeInv, NEW x \in Txs, tx[x].pc \in {"warm", "domain"},
         NEW v \in Transactions, Alike(tx[x], v),
         \A q \in Rows : PlanRow(q) => v.delta[q] = tx[x].delta[q], Step(x, Held(v))
  PROVE  ChargeInv'
<1> DEFINE s == tx[x]
<1>1. /\ s \in Transactions /\ s.todo = {} /\ Ledger(s, {}, 0, 0, 0) /\ s.at \in Waiting(s)
      /\ count \in [Rows -> Nat]
  BY TxTyped, PastLedger, ItemAt DEF CapsInv
<1>2. CASE v.job = "drain"
  BY <1>2, IdleCharge DEF Held
<1>3. CASE v.job # "drain"
  <2> DEFINE u == Returned(v, v.at)
  <2>1. v.at \in Waiting(v) /\ v.todo = {}
    BY <1>1 DEF Alike, Waiting
  <2>2. Ledger(v, {}, 0, 0, 0)
    BY <1>1, LedgerAlike
  <2>3. /\ u \in Transactions /\ u.pc = v.pc /\ u.team = v.team /\ u.kind = v.kind
        /\ u.job = v.job /\ u.was = v.was /\ u.todo = v.todo
    BY <1>1, <2>1, ReturnedDelta
  <2>4. Ledger(u, {}, 0, 0, 0)
    BY <1>1, <2>1, <2>2, ReturnedLedger
  <2>5. Step(x, NextItem(u))
    BY <1>3 DEF Held
  <2> HIDE DEF u
  <2> QED BY <2>1, <2>3, <2>4, <2>5, NextItemCharge DEF Alike
<1> QED BY <1>2, <1>3

(* The warm-up's rows are none of the plan's.                               *)
LEMMA WarmAdds ==
  ASSUME NEW s \in Transactions, NEW r \in Rows, ~PlanRow(r), NEW n \in Int
  PROVE  /\ Add(s, r, n) \in Transactions /\ Alike(s, Add(s, r, n))
         /\ \A q \in Rows : PlanRow(q) => Add(s, r, n).delta[q] = s.delta[q]
<1>1. /\ Add(s, r, n) \in Transactions /\ Alike(s, Add(s, r, n))
      /\ \A q \in Rows : Add(s, r, n).delta[q] = s.delta[q] + IF q = r THEN n ELSE 0
  BY AddDelta
<1>2. \A q \in Rows : s.delta[q] \in Int
  BY DEF Transactions
<1>3. \A q \in Rows : PlanRow(q) => q # r
  OBVIOUS
<1> QED BY <1>1, <1>2, <1>3

LEMMA TakeWarmCharge ==
  ASSUME CapsInv, ChargeInv, NEW x \in Txs, TakeWarm(x)
  PROVE  ChargeInv'
<1> DEFINE s == tx[x]
           r == WarmRow(s.team, s.items[s.at].day)
<1>1. /\ s \in Transactions /\ s.pc = "warm" /\ s.team \in Teams
      /\ s.items[s.at].day \in Days /\ Ledger(s, {}, 0, 0, 0) /\ s.todo = {}
      /\ s.job # "release"
  BY TxTyped, ItemAt, PastLedger DEF TakeWarm
<1>2. r \in Rows /\ ~PlanRow(r)
  BY <1>1, PlanRows DEF Rows
<1>3. CASE Value(s, r) + 1 <= WarmPool
  <2> DEFINE v == Add(s, r, 1)
             u == [v EXCEPT !.pc = "domain"]
  <2>1. Step(x, u)
    BY <1>3 DEF TakeWarm
  <2>2. /\ v \in Transactions /\ Alike(s, v)
        /\ \A q \in Rows : PlanRow(q) => v.delta[q] = s.delta[q]
    BY <1>1, <1>2, WarmAdds
  <2> HIDE DEF v
  <2>3. Ledger(v, {}, 0, 0, 0)
    BY <1>1, <2>2, LedgerAlike
  <2>4. Goes(v, u) /\ u.pc = "domain" /\ u.parked = v.parked /\ u.todo = v.todo /\ u.day = v.day
    BY <2>2 DEF Goes, Transactions, Pcs
  <2> HIDE DEF u
  <2>5. Ledger(u, {}, 0, 0, 0) /\ Open(u) = {}
    BY <1>1, <2>2, <2>3, <2>4, LedgerGoes DEF Open, AtDay, Alike
  <2>6. Booked(u)
    BY <2>4, <2>5 DEF Booked, AtDay
  <2> QED BY <1>1, <2>1, <2>2, <2>4, <2>6, ChargeStep DEF Books, Goes, Alike
<1>4. CASE ~(Value(s, r) + 1 <= WarmPool)
  <2> DEFINE v == Locked(s, r)
  <2>1. v \in Transactions /\ Alike(s, v) /\ v.delta = s.delta
    BY <1>1, <1>2, LockedDelta
  <2>2. Step(x, Held(v))
    BY <1>4 DEF TakeWarm
  <2> HIDE DEF v
  <2> QED BY <1>1, <2>1, <2>2, HeldCharge
<1> QED BY <1>3, <1>4

LEMMA TakeDomainCharge ==
  ASSUME CapsInv, ChargeInv, NEW x \in Txs, TakeDomain(x)
  PROVE  ChargeInv'
<1> DEFINE s == tx[x]
           i == s.items[s.at]
           r == DomainRow(i.key, i.day)
           w == WarmRow(s.team, i.day)
<1>1. /\ s \in Transactions /\ s.pc = "domain" /\ s.team \in Teams /\ i.day \in Days
      /\ i.key \in Keys /\ Ledger(s, {}, 0, 0, 0) /\ s.todo = {}
  BY TxTyped, ItemAt, PastLedger DEF TakeDomain
<1>2. r \in Rows /\ ~PlanRow(r) /\ w \in Rows /\ ~PlanRow(w)
  BY <1>1, PlanRows DEF Rows
<1>3. CASE Value(s, r) + 1 <= WarmCap
  <2> DEFINE v == Add(s, r, 1)
  <2>1. Step(x, NextItem(v))
    BY <1>3 DEF TakeDomain
  <2>2. /\ v \in Transactions /\ Alike(s, v)
        /\ \A q \in Rows : PlanRow(q) => v.delta[q] = s.delta[q]
    <3>1. s \in Transactions /\ r \in Rows /\ ~PlanRow(r) /\ 1 \in Int
      BY <1>1, <1>2
    <3> HIDE DEF s, r
    <3> QED BY <3>1, WarmAdds
  <2> HIDE DEF v
  <2>3. Ledger(v, {}, 0, 0, 0)
    BY <1>1, <2>2, LedgerAlike
  <2> QED BY <1>1, <2>1, <2>2, <2>3, NextItemCharge DEF Alike
<1>4. CASE ~(Value(s, r) + 1 <= WarmCap)
  <2> DEFINE l == Locked(s, r)
             v == Add(l, w, -1)
  <2>1. l \in Transactions /\ Alike(s, l) /\ l.delta = s.delta
    BY <1>1, <1>2, LockedDelta
  <2>2. Step(x, Held(v))
    BY <1>4 DEF TakeDomain
  <2> HIDE DEF l
  <2>3. -1 \in Int
    OBVIOUS
  <2>4. /\ v \in Transactions /\ Alike(l, v)
        /\ \A q \in Rows : PlanRow(q) => v.delta[q] = l.delta[q]
    BY <1>2, <2>1, <2>3, WarmAdds
  <2> HIDE DEF v
  <2>5. Alike(s, v) /\ \A q \in Rows : PlanRow(q) => v.delta[q] = s.delta[q]
    BY <2>1, <2>4 DEF Alike
  <2> QED BY <1>1, <2>2, <2>4, <2>5, HeldCharge
<1> QED BY <1>3, <1>4

(* A release has a unit to give back; of its team's plan, as long as no     *)
(* team changes plan.                                                       *)
LEMMA ReleaseOut ==
  ASSUME CapsInv, ChargeInv, NEW x \in Txs, tx[x].pc # "idle", tx[x].job = "release"
  PROVE  /\ tx[x].was \in Kinds /\ tx[x].team \in Teams /\ Today \in Days
         /\ out[tx[x].team][Today][tx[x].was] >= 1
         /\ moves = 0 => tx[x].was = tx[x].kind
<1> DEFINE s == tx[x]
           g == Giving(s.team, s.was)
<1>1. s.was \in Kinds /\ s.kind \in Kinds /\ s.team \in Teams /\ Today \in Days
  BY TxTyped, CountersAssumption DEF Transactions, CountersAssumption
<1>2. x \in g /\ IsFiniteSet(g)
  BY FS_Subset, CountersAssumption DEF CountersAssumption, Giving
<1>3. Cardinality(g) \in Nat /\ Cardinality(g) >= 1
  <2>1. Cardinality(g) \in Nat /\ Cardinality(g) # 0
    BY <1>2, FS_CardinalityType, FS_EmptySet
  <2> QED BY <2>1
<1>4. Cardinality(g) <= out[s.team][Today][s.was] /\ out[s.team][Today][s.was] \in Nat
  BY <1>1 DEF CapsInv
<1>5. out[s.team][Today][s.was] >= 1
  BY <1>3, <1>4
<1>6. ASSUME moves = 0 PROVE s.was = s.kind
  <2>1. /\ s.kind = plan[s.team]
        /\ plan[s.team] = "pool" => out[s.team][Today]["month"] = 0
        /\ plan[s.team] = "month" => out[s.team][Today]["pool"] = 0
    BY <1>1, <1>6 DEF ChargeInv, Links
  <2> QED BY <1>1, <1>5, <2>1 DEF Kinds
<1> QED BY <1>1, <1>5, <1>6

(* One row of a release.                                                    *)
Back(s, r, p) == [GiveBack(s, r) EXCEPT !.pc = p]

LEMMA GivenBack ==
  ASSUME CapsInv, ChargeInv, NEW x \in Txs, tx[x].pc # "idle", tx[x].job = "release",
         NEW r \in Rows, NEW p \in {"team", "pool", "commit"},
         NEW u, u = Back(tx[x], r, p)
  PROVE  /\ u.pc = p /\ u.team = tx[x].team /\ u.kind = tx[x].kind
         /\ \A q \in Rows \ {r} : u.delta[q] = tx[x].delta[q]
         /\ u.delta[r] = tx[x].delta[r] - 1 \/ u.delta[r] = tx[x].delta[r]
         /\ count[r] + tx[x].delta[r] > 0 => u.delta[r] = tx[x].delta[r] - 1
         /\ Given(u) /\ Step(x, u) => ChargeInv'
<1> DEFINE s == tx[x]
           v == GiveBack(s, r)
<1>1. s \in Transactions /\ count \in [Rows -> Nat]
  BY TxTyped DEF CapsInv
<1>2. /\ v \in Transactions /\ Alike(s, v)
      /\ \A q \in Rows \ {r} : v.delta[q] = s.delta[q]
      /\ v.delta[r] = s.delta[r] - 1 \/ v.delta[r] = s.delta[r]
      /\ Value(s, r) > 0 => v.delta[r] = s.delta[r] - 1
  BY <1>1, GiveBackDelta
<1>8. u = [v EXCEPT !.pc = p]
  BY DEF Back
<1> HIDE DEF v
<1>3. /\ u.pc = p /\ u.team = v.team /\ u.kind = v.kind /\ u.was = v.was /\ u.job = v.job
      /\ u.delta = v.delta
  BY <1>2, <1>8 DEF Transactions
<1>4. /\ u.team = s.team /\ u.kind = s.kind /\ u.was = s.was /\ u.job = "release"
  BY <1>2, <1>3 DEF Alike
<1>5. Given(u) /\ Step(x, u) => ChargeInv'
  BY <1>4, ChargeStep DEF Books
<1>6. /\ u.pc = p /\ \A q \in Rows \ {r} : u.delta[q] = s.delta[q]
      /\ u.delta[r] = s.delta[r] - 1 \/ u.delta[r] = s.delta[r]
      /\ count[r] + s.delta[r] > 0 => u.delta[r] = s.delta[r] - 1
  BY <1>2, <1>3 DEF Value
<1> QED BY <1>4, <1>5, <1>6

LEMMA ReleasePeriodCharge ==
  ASSUME CapsInv, ChargeInv, NEW x \in Txs, ReleasePeriod(x)
  PROVE  ChargeInv'
<1> DEFINE s == tx[x]
           r == PeriodRow(s.team)
<1>9. PICK u : u = Back(s, r, "team")
  OBVIOUS
<1>1. /\ s.pc = "period" /\ s.job = "release" /\ s.kind = "month" /\ Given(s) /\ Step(x, u)
      /\ s.team \in Teams /\ r \in Rows
  BY <1>9, TxTyped DEF Back, ReleasePeriod, Stage, Placed, ChargeInv, Books, Rows
<1>2. /\ u.pc = "team" /\ u.team = s.team /\ u.kind = s.kind
      /\ \A q \in Rows \ {r} : u.delta[q] = s.delta[q]
      /\ count[r] + s.delta[r] > 0 => u.delta[r] = s.delta[r] - 1
      /\ Given(u) /\ Step(x, u) => ChargeInv'
  <2>1. s.pc # "idle" /\ "team" \in {"team", "pool", "commit"}
    BY <1>1
  <2> HIDE DEF r
  <2> QED BY <1>1, <1>9, <2>1, GivenBack
<1>3. \A t \in Teams, d \in Days : u.delta[TeamRow(t, d)] = 0
  <2> TAKE t \in Teams, d \in Days
  <2>1. TeamRow(t, d) \in Rows \ {r}
    BY RowsApart DEF Rows
  <2>2. s.delta[TeamRow(t, d)] = 0
    BY <1>1 DEF Given
  <2> QED BY <1>2, <2>1, <2>2
<1>4. \A d \in Days : u.delta[PoolRow(d)] = 0
  <2> TAKE d \in Days
  <2>1. PoolRow(d) \in Rows \ {r}
    BY RowsApart DEF Rows
  <2>2. s.delta[PoolRow(d)] = 0
    BY <1>1 DEF Given
  <2> QED BY <1>2, <2>1, <2>2
<1>5. ASSUME moves = 0, NEW t \in Teams
      PROVE  u.delta[PeriodRow(t)] = IF t = s.team THEN -1 ELSE 0
  <2>1. s.delta[PeriodRow(t)] = 0 /\ s.delta[r] = 0
    BY <1>1, <1>5 DEF Given
  <2>2. CASE t = s.team
    <3> DEFINE f == [d \in Days |-> out[s.team][d]["month"]]
    <3>1. f \in [Days -> Nat] /\ f[Today] = out[s.team][Today]["month"] /\ Today \in Days
      BY <1>1, CountersAssumption DEF CapsInv, Kinds, CountersAssumption
    <3>2. out[s.team][Today]["month"] >= 1
      BY <1>1, <1>5, ReleaseOut
    <3>3. count[r] = Total(f)
      BY <1>1, <1>5 DEF ChargeInv, Counted, ChargedOnce
    <3> HIDE DEF f
    <3>4. f[Today] <= Total(f) /\ Total(f) \in Nat
      BY <3>1, TotalTerm, TotalNat, CountersAssumption DEF CountersAssumption
    <3>5. f[Today] \in Nat
      BY <3>1
    <3>6. count[r] + s.delta[r] > 0
      BY <2>1, <3>1, <3>2, <3>3, <3>4, <3>5
    <3> QED BY <1>2, <2>1, <2>2, <3>6
  <2>3. CASE t # s.team
    <3>1. PeriodRow(t) \in Rows \ {r}
      BY <2>3, RowsApart DEF Rows
    <3> QED BY <1>2, <2>1, <2>3, <3>1
  <2> QED BY <2>2, <2>3
<1>6. Given(u)
  BY <1>1, <1>2, <1>3, <1>4, <1>5 DEF Given
<1> QED BY <1>1, <1>2, <1>6

LEMMA ReleaseTeamCharge ==
  ASSUME CapsInv, ChargeInv, NEW x \in Txs, ReleaseTeam(x)
  PROVE  ChargeInv'
<1> DEFINE s == tx[x]
           r == TeamRow(s.team, Today)
           p == IF s.kind = "pool" THEN "pool" ELSE "commit"
<1>9. PICK u : u = Back(s, r, p)
  OBVIOUS
<1>1. /\ s.pc = "team" /\ s.job = "release" /\ Given(s) /\ s.team \in Teams /\ Today \in Days
      /\ r \in Rows
  BY TxTyped, CountersAssumption DEF ReleaseTeam, ChargeInv, Books, Rows, CountersAssumption
<1>2. Step(x, u)
  <2>1. GiveBack(s, r).kind = s.kind
    BY <1>1, GiveBackKeeps, TxTyped DEF Alike
  <2> QED BY <1>9, <2>1 DEF Back, ReleaseTeam
<1>3. /\ u.pc = p /\ u.team = s.team /\ u.kind = s.kind
      /\ \A q \in Rows \ {r} : u.delta[q] = s.delta[q]
      /\ count[r] + s.delta[r] > 0 => u.delta[r] = s.delta[r] - 1
      /\ Given(u) /\ Step(x, u) => ChargeInv'
  <2>1. p \in {"team", "pool", "commit"} /\ s.pc # "idle"
    BY <1>1
  <2> HIDE DEF p, r
  <2> QED BY <1>1, <1>9, <2>1, GivenBack
<1>4. \A t \in Teams, d \in Days :
        u.delta[TeamRow(t, d)] = IF t = s.team /\ d = Today THEN -1 ELSE 0
  <2> TAKE t \in Teams, d \in Days
  <2>1. s.delta[TeamRow(t, d)] = 0 /\ s.delta[r] = 0
    BY <1>1 DEF Given
  <2>2. CASE t = s.team /\ d = Today
    <3>1. count[r] = out[s.team][Today]["pool"] + out[s.team][Today]["month"]
      BY <1>1 DEF ChargeInv, Counted, ChargedOnce
    <3>2. /\ out[s.team][Today]["pool"] \in Nat /\ out[s.team][Today]["month"] \in Nat
      BY <1>1 DEF CapsInv, Kinds
    <3>3. out[s.team][Today]["pool"] >= 1 \/ out[s.team][Today]["month"] >= 1
      BY <1>1, ReleaseOut DEF Kinds
    <3>4. count[r] + s.delta[r] > 0
      BY <2>1, <3>1, <3>2, <3>3
    <3> QED BY <1>3, <2>1, <2>2, <3>4
  <2>3. CASE ~(t = s.team /\ d = Today)
    <3>1. TeamRow(t, d) \in Rows \ {r}
      BY <2>3, RowsApart DEF Rows
    <3> QED BY <1>3, <2>1, <2>3, <3>1
  <2> QED BY <2>2, <2>3
<1>5. \A d \in Days : u.delta[PoolRow(d)] = 0
  <2> TAKE d \in Days
  <2>1. PoolRow(d) \in Rows \ {r}
    BY RowsApart DEF Rows
  <2>2. s.delta[PoolRow(d)] = 0
    BY <1>1 DEF Given
  <2> QED BY <1>3, <2>1, <2>2
<1>6. ASSUME moves = 0, NEW t \in Teams
      PROVE  u.delta[PeriodRow(t)] = IF t = s.team /\ s.kind = "month" THEN -1 ELSE 0
  <2>1. PeriodRow(t) \in Rows \ {r}
    BY RowsApart DEF Rows
  <2>2. s.delta[PeriodRow(t)] = IF t = s.team /\ s.kind = "month" THEN -1 ELSE 0
    BY <1>1, <1>6 DEF Given
  <2> QED BY <1>3, <2>1, <2>2
<1>7. Given(u)
  BY <1>3, <1>4, <1>5, <1>6 DEF Given
<1> QED BY <1>2, <1>3, <1>7

LEMMA ReleasePoolCharge ==
  ASSUME CapsInv, ChargeInv, NEW x \in Txs, ReleasePool(x)
  PROVE  ChargeInv'
<1> DEFINE s == tx[x]
           r == PoolRow(Today)
<1>9. PICK u : u = Back(s, r, "commit")
  OBVIOUS
<1>1. /\ s.pc = "pool" /\ s.job = "release" /\ s.kind = "pool" /\ Given(s) /\ Step(x, u)
      /\ s.team \in Teams /\ Today \in Days /\ r \in Rows
  BY <1>9, TxTyped, CountersAssumption DEF Back, ReleasePool, Stage, Placed, ChargeInv, Books, Rows,
     CountersAssumption
<1>2. /\ u.pc = "commit" /\ u.team = s.team /\ u.kind = s.kind
      /\ \A q \in Rows \ {r} : u.delta[q] = s.delta[q]
      /\ u.delta[r] = s.delta[r] - 1 \/ u.delta[r] = s.delta[r]
      /\ count[r] + s.delta[r] > 0 => u.delta[r] = s.delta[r] - 1
      /\ Given(u) /\ Step(x, u) => ChargeInv'
  <2>1. s.pc # "idle" /\ "commit" \in {"team", "pool", "commit"}
    BY <1>1
  <2> HIDE DEF r
  <2> QED BY <1>1, <1>9, <2>1, GivenBack
<1>3. \A t \in Teams, d \in Days :
        u.delta[TeamRow(t, d)] = IF t = s.team /\ d = Today THEN -1 ELSE 0
  <2> TAKE t \in Teams, d \in Days
  <2>1. TeamRow(t, d) \in Rows \ {r}
    BY RowsApart DEF Rows
  <2>2. s.delta[TeamRow(t, d)] = IF t = s.team /\ d = Today THEN -1 ELSE 0
    BY <1>1 DEF Given
  <2> QED BY <1>2, <2>1, <2>2
<1>4. s.delta[r] = 0
  BY <1>1 DEF Given
<1>5. \A d \in Days : /\ u.delta[PoolRow(d)] \in {-1, 0}
                      /\ u.delta[PoolRow(d)] # 0 => d = Today
  <2> TAKE d \in Days
  <2>1. CASE d = Today
    BY <1>2, <1>4, <2>1
  <2>2. CASE d # Today
    <3>1. PoolRow(d) \in Rows \ {r}
      BY <2>2, RowsApart DEF Rows
    <3>2. s.delta[PoolRow(d)] = 0
      BY <1>1 DEF Given
    <3> QED BY <1>2, <3>1, <3>2
  <2> QED BY <2>1, <2>2
<1>6. ASSUME moves = 0 PROVE u.delta[r] = -1
  <2> DEFINE f == [t \in Teams |-> out[t][Today]["pool"]]
  <2>1. f \in [Teams -> Nat] /\ f[s.team] = out[s.team][Today]["pool"]
    BY <1>1 DEF CapsInv, Kinds
  <2>2. out[s.team][Today]["pool"] >= 1
    BY <1>1, <1>6, ReleaseOut
  <2>3. count[r] = Total(f)
    BY <1>1, <1>6 DEF ChargeInv, Counted, ChargedOnce, OutOn
  <2> HIDE DEF f
  <2>4. f[s.team] <= Total(f) /\ Total(f) \in Nat /\ f[s.team] \in Nat
    BY <1>1, <2>1, TotalTerm, TotalNat, CountersAssumption DEF CountersAssumption
  <2>5. count[r] + s.delta[r] > 0
    BY <1>4, <2>1, <2>2, <2>3, <2>4
  <2> QED BY <1>2, <1>4, <2>5
<1>7. ASSUME moves = 0, NEW t \in Teams PROVE u.delta[PeriodRow(t)] = 0
  <2>1. PeriodRow(t) \in Rows \ {r}
    BY RowsApart DEF Rows
  <2>2. s.delta[PeriodRow(t)] = 0
    BY <1>1, <1>7 DEF Given
  <2> QED BY <1>2, <2>1, <2>2
<1>8. Given(u)
  BY <1>1, <1>2, <1>3, <1>5, <1>6, <1>7 DEF Given
<1> QED BY <1>1, <1>2, <1>8

(* A transaction begins: it is of its team's plan.                          *)
LEMMA BeginsCharge ==
  ASSUME CapsInv, ChargeInv, NEW x \in Txs, NEW u \in Transactions, Books(u),
         u.kind = plan[u.team],
         ~lapsed /\ u.job = "release" /\ u.kind = "pool" => u.was = "pool",
         tx' = [tx EXCEPT ![x] = u], UNCHANGED <<count, plan, out, moves, lapsed>>
  PROVE  ChargeInv'
<1>1. \A y \in Txs : tx'[y] = IF y = x THEN u ELSE tx[y]
  BY DEF CapsInv
<1>2. \A y \in Txs : Books(tx[y])'
  <2> TAKE y \in Txs
  <2>1. Books(tx'[y])
    BY <1>1 DEF ChargeInv
  <2> QED BY <2>1 DEF Books, Given, Booked, Ledger, Paid, PaidOn, Waiting, Open, Group
<1>3. Counted'
  BY DEF ChargeInv, Counted, ChargedOnce, OutOn
<1>4. Links'
  BY <1>1 DEF ChargeInv, Links
<1> QED BY <1>2, <1>3, <1>4 DEF ChargeInv

LEMMA BeginCharge ==
  ASSUME CapsInv, PlansOK, ChargeInv, NEW x \in Txs, NEW job \in {"accept", "drain"},
         NEW t \in Teams, NEW review \in BOOLEAN, NEW items \in Batches[t],
         Begin(x, job, t, items, review)
  PROVE  ChargeInv'
<1>1. PICK s \in Transactions :
        Began(s, job, t, items) /\ tx' = [tx EXCEPT ![x] = NextDay(s)]
  BY BeginGoes
<1>3. Ledger(s, s.todo, 0, 0, 0)
  BY <1>1, ZeroBooked DEF Began
<1>4. Booked(NextDay(s)) /\ Goes(s, NextDay(s))
  BY <1>3, NextDayBooked, NextDayGoes
<1>5. UNCHANGED <<count, plan, out, moves, lapsed>>
  BY DEF Begin
<1>6. PICK u : u = NextDay(s)
  OBVIOUS
<1>7. /\ u \in Transactions /\ u.job # "release" /\ u.kind = plan[u.team] /\ Books(u)
      /\ tx' = [tx EXCEPT ![x] = u]
  BY <1>1, <1>4, <1>6 DEF Goes, Books, Began
<1> QED BY <1>5, <1>7, BeginsCharge

LEMMA BeginReleaseCharge ==
  ASSUME CapsInv, PlansOK, ChargeInv, NEW x \in Txs, NEW t \in Teams, NEW k \in Kinds,
         BeginRelease(x, t, k)
  PROVE  ChargeInv'
<1>1. PICK s \in Transactions :
        /\ s.pc = (IF plan[t] = "month" THEN "period" ELSE "team") /\ s.job = "release"
        /\ s.team = t /\ s.kind = plan[t] /\ s.was = k /\ s.items = <<>>
        /\ \A q \in Rows : s.delta[q] = 0
        /\ tx' = [tx EXCEPT ![x] = s]
  BY BeginReleaseGoes
<1>2. UNCHANGED <<count, plan, out, moves, lapsed>>
  BY DEF BeginRelease
<1>3. /\ \A v \in Teams, d \in Days : s.delta[TeamRow(v, d)] = 0
      /\ \A d \in Days : s.delta[PoolRow(d)] = 0
      /\ \A v \in Teams : s.delta[PeriodRow(v)] = 0
  BY <1>1 DEF Rows
<1>4. plan[t] \in {"pool", "month"}
  BY DEF PlansOK, Kinds
<1>5. Given(s)
  BY <1>1, <1>3, <1>4 DEF Given
<1>6. out[t][Today][k] > 0
  <2>1. out[t][Today][k] > Cardinality(Giving(t, k))
    BY DEF BeginRelease, Giving
  <2>2. IsFiniteSet(Giving(t, k))
    BY FS_Subset, CountersAssumption DEF CountersAssumption, Giving
  <2>3. Cardinality(Giving(t, k)) \in Nat /\ out[t][Today][k] \in Nat
    BY <2>2, FS_CardinalityType, CountersAssumption DEF CapsInv, CountersAssumption
  <2> QED BY <2>1, <2>3
<1>7. ASSUME ~lapsed, s.kind = "pool" PROVE s.was = "pool"
  <2>1. out[t][Today]["month"] = 0
    BY <1>1, <1>7, CountersAssumption DEF ChargeInv, Links, CountersAssumption
  <2>2. k # "month"
    BY <1>6, <2>1
  <2> QED BY <1>1, <2>2 DEF Kinds
<1> QED BY <1>1, <1>2, <1>5, <1>7, BeginsCharge DEF Books

(* What a commit leaves: the counters of the others' books do not matter.   *)
LEMMA CommitBooks ==
  ASSUME CapsInv, ChargeInv, NEW x \in Txs, Commit(x)
  PROVE  /\ \A y \in Txs : tx'[y] = IF y = x THEN Idle ELSE tx[y]
         /\ \A y \in Txs : Books(tx[y])'
         /\ \A r \in Rows : count'[r] = count[r] + tx[x].delta[r]
         /\ Idle.pc = "idle"
<1>1. tx' = [tx EXCEPT ![x] = Idle] /\ UNCHANGED moves /\ count' = [r \in Rows |-> Value(tx[x], r)]
  BY DEF Commit
<1>2. \A y \in Txs : tx'[y] = IF y = x THEN Idle ELSE tx[y]
  BY <1>1 DEF CapsInv
<1>3. Books(Idle) /\ Idle.pc = "idle"
  BY IdleBooks
<1>4. \A y \in Txs : Books(tx[y])'
  <2> TAKE y \in Txs
  <2>1. Books(tx'[y])
    BY <1>2, <1>3 DEF ChargeInv
  <2> QED BY <1>1, <2>1 DEF Books, Given, Booked, Ledger, Paid, PaidOn, Waiting, Open, Group
<1> QED BY <1>1, <1>2, <1>3, <1>4 DEF Value

LEMMA CommitRelease ==
  ASSUME CapsInv, PlansOK, ChargeInv, NEW x \in Txs, Commit(x), tx[x].job = "release"
  PROVE  ChargeInv'
<1> DEFINE s == tx[x]
<1>1. /\ s.pc = "commit" /\ s.pc # "idle" /\ Given(s) /\ s.kind \in Kinds
      /\ UNCHANGED <<plan, moves, lapsed>>
      /\ out' = [out EXCEPT ![s.team][Today][s.was] = @ - 1]
  BY TxTyped DEF Commit, ChargeInv, Books
<1>2. /\ s.was \in Kinds /\ s.team \in Teams /\ Today \in Days
      /\ out[s.team][Today][s.was] >= 1 /\ (moves = 0 => s.was = s.kind)
  BY <1>1, ReleaseOut
<1>3. /\ out \in [Teams -> [Days -> [Kinds -> Nat]]] /\ count \in [Rows -> Nat]
      /\ IsFiniteSet(Teams) /\ IsFiniteSet(Days)
  BY CountersAssumption DEF CapsInv, CountersAssumption
<1> DEFINE off(t, d, k) == IF t = s.team /\ d = Today /\ k = s.was THEN 1 ELSE 0
<1>4. \A t \in Teams, d \in Days, k \in Kinds :
        /\ out[t][d][k] \in Nat /\ out'[t][d][k] \in Nat
        /\ out[t][d][k] = out'[t][d][k] + off(t, d, k)
  <2> TAKE t \in Teams, d \in Days, k \in Kinds
  <2>1. out[t][d][k] \in Nat
    BY <1>3
  <2>2. out'[t][d][k] = IF t = s.team /\ d = Today /\ k = s.was THEN out[t][d][k] - 1
                        ELSE out[t][d][k]
    BY <1>1, <1>2, <1>3
  <2> QED BY <1>2, <2>1, <2>2
<1>5. /\ \A y \in Txs : tx'[y] = IF y = x THEN Idle ELSE tx[y]
      /\ \A y \in Txs : Books(tx[y])'
      /\ \A r \in Rows : count'[r] = count[r] + s.delta[r]
      /\ Idle.pc = "idle"
  BY CommitBooks
<1>6. \A d \in Days : /\ OutOn("pool", d)' \in Nat
                      /\ OutOn("pool", d) = OutOn("pool", d)' + off(s.team, d, "pool")
  <2> TAKE d \in Days
  <2> DEFINE f == [t \in Teams |-> out[t][d]["pool"]]
             g == [t \in Teams |-> out'[t][d]["pool"]]
             n == off(s.team, d, "pool")
  <2>1. f \in [Teams -> Nat] /\ g \in [Teams -> Nat] /\ n \in Nat
        /\ \A t \in Teams : f[t] = g[t] + IF t = s.team THEN n ELSE 0
    BY <1>4 DEF Kinds
  <2>2. OutOn("pool", d) = Total(f) /\ OutOn("pool", d)' = Total(g)
    BY DEF OutOn
  <2> HIDE DEF f, g, n
  <2>3. Total(f) = Total(g) + n /\ Total(g) \in Nat
    <3>1. Total(g) \in Nat
      BY <1>3, <2>1, TotalNat
    <3>2. Total(f) = Total(g) + n
      <4>1. s.team \in Teams
        BY <1>2, <1>3
      <4> HIDE DEF s
      <4> QED BY <2>1, <4>1, TeamsStep
    <3> QED BY <3>1, <3>2
  <2> QED BY <2>2, <2>3 DEF n
<1>7. \A t \in Teams, d \in Days : count'[TeamRow(t, d)] = out'[t][d]["pool"] + out'[t][d]["month"]
  <2> TAKE t \in Teams, d \in Days
  <2>1. count'[TeamRow(t, d)] = count[TeamRow(t, d)] + IF t = s.team /\ d = Today THEN -1 ELSE 0
    BY <1>1, <1>5 DEF Rows, Given
  <2>2. count[TeamRow(t, d)] = out[t][d]["pool"] + out[t][d]["month"]
    BY DEF ChargeInv, Counted, ChargedOnce
  <2>3. /\ out[t][d]["pool"] = out'[t][d]["pool"] + off(t, d, "pool")
        /\ out[t][d]["month"] = out'[t][d]["month"] + off(t, d, "month")
        /\ out'[t][d]["pool"] \in Nat /\ out'[t][d]["month"] \in Nat
    BY <1>4 DEF Kinds
  <2>4. off(t, d, "pool") + off(t, d, "month") = IF t = s.team /\ d = Today THEN 1 ELSE 0
    BY <1>2 DEF Kinds
  <2> QED BY <2>1, <2>2, <2>3, <2>4
<1>8. \A d \in Days : /\ count'[PoolRow(d)] = count[PoolRow(d)] + s.delta[PoolRow(d)]
                      /\ s.delta[PoolRow(d)] \in {-1, 0} /\ count[PoolRow(d)] \in Nat
                      /\ s.delta[PoolRow(d)] # 0 => d = Today /\ s.kind = "pool"
  BY <1>1, <1>3, <1>5 DEF Rows, Given
<1>9. ASSUME moves = 0, NEW d \in Days PROVE count'[PoolRow(d)] = OutOn("pool", d)'
  <2>1. count[PoolRow(d)] = OutOn("pool", d)
    BY <1>9 DEF ChargeInv, Counted, ChargedOnce
  <2>2. s.delta[PoolRow(d)] = -off(s.team, d, "pool")
    <3>1. s.kind = "pool" => s.delta[PoolRow(Today)] = -1
      BY <1>1, <1>9 DEF Given
    <3> QED BY <1>2, <1>8, <1>9, <3>1
  <2> QED BY <1>6, <1>8, <2>1, <2>2
<1>10. ASSUME moves = 0, NEW t \in Teams
       PROVE  count'[PeriodRow(t)] = Total([d \in Days |-> out'[t][d]["month"]])
  <2> DEFINE f == [d \in Days |-> out[t][d]["month"]]
             g == [d \in Days |-> out'[t][d]["month"]]
             n == off(t, Today, "month")
  <2>1. f \in [Days -> Nat] /\ g \in [Days -> Nat] /\ n \in Nat
        /\ \A d \in Days : f[d] = g[d] + IF d = Today THEN n ELSE 0
    BY <1>4 DEF Kinds
  <2>2. count[PeriodRow(t)] = Total(f)
    BY <1>10 DEF ChargeInv, Counted, ChargedOnce
  <2>3. count'[PeriodRow(t)] = count[PeriodRow(t)] + IF t = s.team /\ s.kind = "month" THEN -1 ELSE 0
    BY <1>1, <1>5, <1>10 DEF Rows, Given
  <2>4. (IF t = s.team /\ s.kind = "month" THEN -1 ELSE 0) = -n
    BY <1>2, <1>10
  <2> HIDE DEF f, g, n
  <2>5. Total(f) = Total(g) + n /\ Total(g) \in Nat
    <3>1. Total(g) \in Nat
      BY <1>3, <2>1, TotalNat
    <3>2. Total(f) = Total(g) + n
      <4>1. Today \in Days /\ IsFiniteSet(Days)
        BY <1>2, <1>3
      <4> QED BY <2>1, <4>1, TotalStep
    <3> QED BY <3>1, <3>2
  <2>6. count'[PeriodRow(t)] = Total(g)
    BY <2>1, <2>2, <2>3, <2>4, <2>5
  <2> QED BY <2>6 DEF g
<1>11. ASSUME ~lapsed, NEW d \in Days PROVE OutOn("pool", d)' <= count'[PoolRow(d)]
  <2>1. OutOn("pool", d) <= count[PoolRow(d)]
    BY <1>11 DEF ChargeInv, Counted
  <2>2. s.kind = "pool" => s.was = "pool"
    BY <1>1, <1>11 DEF ChargeInv, Links
  <2> QED BY <1>6, <1>8, <2>1, <2>2
<1>12. Counted'
  BY <1>1, <1>7, <1>9, <1>10, <1>11 DEF Counted, ChargedOnce
<1>13. Links'
  <2>1. \A t \in Teams, d \in Days, k \in Kinds : out[t][d][k] = 0 => out'[t][d][k] = 0
    BY <1>4
  <2>2. /\ \A t \in Teams, d \in Days : out[t][d]["month"] = 0 => out'[t][d]["month"] = 0
        /\ \A t \in Teams, d \in Days : out[t][d]["pool"] = 0 => out'[t][d]["pool"] = 0
    BY <2>1 DEF Kinds
  <2> QED BY <1>1, <1>5, <2>2 DEF ChargeInv, Links
<1> QED BY <1>5, <1>12, <1>13 DEF ChargeInv

LEMMA CommitBatch ==
  ASSUME CapsInv, PlansOK, ChargeInv, NEW x \in Txs, Commit(x), tx[x].job # "release"
  PROVE  ChargeInv'
<1> DEFINE s == tx[x]
           n(d) == Cardinality(PaidOn(s, d, {}))
<1>1. /\ s \in Transactions /\ s.pc = "commit" /\ s.pc # "idle" /\ s.kind \in Kinds
      /\ s.team \in Teams /\ UNCHANGED <<plan, moves, lapsed>>
  BY TxTyped DEF Commit
<1>2. /\ out \in [Teams -> [Days -> [Kinds -> Nat]]] /\ count \in [Rows -> Nat]
      /\ IsFiniteSet(Teams) /\ IsFiniteSet(Days)
  BY CountersAssumption DEF CapsInv, CountersAssumption
<1>3. Ledger(s, {}, 0, 0, 0)
  <2>1. s.todo = {} /\ Booked(s)
    BY <1>1, TxTyped DEF Stage, Placed, AtDay, ChargeInv, Books
  <2>2. Open(s) = {}
    BY <1>1, <2>1 DEF Open, AtDay
  <2> QED BY <1>1, <2>1, <2>2 DEF Booked
<1>4. \A d \in Days : PaidOn(s, d, {}) = Group(s, d) \ s.parked /\ n(d) \in Nat
  <2>1. \A d \in Days : PaidOn(s, d, {}) = Group(s, d) \ s.parked
    BY DEF PaidOn, Paid, Waiting, Group
  <2>2. \A d \in Days : n(d) \in Nat
    BY <1>1, PaidFinite
  <2> QED BY <2>1, <2>2
<1>5. \A t \in Teams, d \in Days, k \in Kinds :
        /\ out[t][d][k] \in Nat /\ out'[t][d][k] \in Nat
        /\ out'[t][d][k] = out[t][d][k] + IF t = s.team /\ k = s.kind THEN n(d) ELSE 0
  <2> DEFINE more(d) == [k \in Kinds |-> out[s.team][d][k]
                           + IF k = s.kind THEN Cardinality(Group(s, d) \ s.parked) ELSE 0]
  <2>1. out' = [out EXCEPT ![s.team] = [d \in Days |-> more(d)]]
    BY DEF Commit
  <2>2. \A d \in Days, k \in Kinds :
          more(d)[k] = out[s.team][d][k] + IF k = s.kind THEN n(d) ELSE 0
    BY <1>4
  <2> HIDE DEF more, n
  <2>3. \A t \in Teams, d \in Days : out'[t][d] = IF t = s.team THEN more(d) ELSE out[t][d]
    BY <1>1, <1>2, <2>1
  <2> TAKE t \in Teams, d \in Days, k \in Kinds
  <2>4. out[t][d][k] \in Nat /\ n(d) \in Nat
    BY <1>2, <1>4
  <2>5. out'[t][d][k] = out[t][d][k] + IF t = s.team /\ k = s.kind THEN n(d) ELSE 0
    BY <2>2, <2>3, <2>4
  <2> QED BY <2>4, <2>5
<1> HIDE DEF n
<1>6. /\ \A y \in Txs : tx'[y] = IF y = x THEN Idle ELSE tx[y]
      /\ \A y \in Txs : Books(tx[y])'
      /\ \A r \in Rows : count'[r] = count[r] + s.delta[r]
      /\ Idle.pc = "idle"
  BY CommitBooks
<1>7. \A d \in Days : /\ OutOn("pool", d) \in Nat
                      /\ OutOn("pool", d)' = OutOn("pool", d) + IF s.kind = "pool" THEN n(d) ELSE 0
  <2> TAKE d \in Days
  <2> DEFINE f == [t \in Teams |-> out[t][d]["pool"]]
             g == [t \in Teams |-> out'[t][d]["pool"]]
             m == IF s.kind = "pool" THEN n(d) ELSE 0
  <2>1. f \in [Teams -> Nat] /\ g \in [Teams -> Nat] /\ m \in Nat
        /\ \A t \in Teams : g[t] = f[t] + IF t = s.team THEN m ELSE 0
    BY <1>4, <1>5 DEF Kinds
  <2>2. OutOn("pool", d) = Total(f) /\ OutOn("pool", d)' = Total(g)
    BY DEF OutOn
  <2>3. s.team \in Teams /\ IsFiniteSet(Teams)
    BY <1>1, <1>2
  <2> HIDE DEF f, g, m
  <2>4. Total(g) = Total(f) + m
    <3>1. PICK a \in Teams : a = s.team
      BY <2>3
    <3>2. \A t \in Teams : g[t] = f[t] + IF t = a THEN m ELSE 0
      BY <2>1, <3>1
    <3> QED BY <2>1, <2>3, <3>2, TotalStep
  <2>5. Total(f) \in Nat
    BY <2>1, <2>3, TotalNat
  <2> QED BY <2>2, <2>4, <2>5 DEF m
<1>8. \A t \in Teams, d \in Days : count'[TeamRow(t, d)] = out'[t][d]["pool"] + out'[t][d]["month"]
  <2> TAKE t \in Teams, d \in Days
  <2>1. count'[TeamRow(t, d)] = count[TeamRow(t, d)] + IF t = s.team THEN n(d) ELSE 0
    <3>1. s.delta[TeamRow(t, d)] = IF t = s.team THEN n(d) + (IF d = s.day THEN 0 ELSE 0) ELSE 0
      BY <1>3 DEF Ledger, n
    <3>2. n(d) \in Nat /\ TeamRow(t, d) \in Rows
      BY <1>4 DEF Rows
    <3> QED BY <1>6, <3>1, <3>2
  <2>2. count[TeamRow(t, d)] = out[t][d]["pool"] + out[t][d]["month"]
    BY DEF ChargeInv, Counted, ChargedOnce
  <2>3. /\ out'[t][d]["pool"] = out[t][d]["pool"] + IF t = s.team /\ "pool" = s.kind THEN n(d) ELSE 0
        /\ out'[t][d]["month"] = out[t][d]["month"] + IF t = s.team /\ "month" = s.kind THEN n(d) ELSE 0
        /\ out[t][d]["pool"] \in Nat /\ out[t][d]["month"] \in Nat /\ n(d) \in Nat
    BY <1>4, <1>5 DEF Kinds
  <2>4. s.kind = "pool" \/ s.kind = "month"
    BY <1>1 DEF Kinds
  <2> QED BY <2>1, <2>2, <2>3, <2>4
<1>9. \A d \in Days :
        count'[PoolRow(d)] = count[PoolRow(d)] + IF s.kind = "pool" THEN n(d) ELSE 0
  <2> TAKE d \in Days
  <2>1. s.delta[PoolRow(d)] = IF s.kind = "pool" THEN n(d) + (IF d = s.day THEN 0 ELSE 0) ELSE 0
    BY <1>3 DEF Ledger, n
  <2>2. n(d) \in Nat /\ PoolRow(d) \in Rows
    BY <1>4 DEF Rows
  <2> QED BY <1>6, <2>1, <2>2
<1>10. ASSUME moves = 0, NEW d \in Days PROVE count'[PoolRow(d)] = OutOn("pool", d)'
  <2>1. count[PoolRow(d)] = OutOn("pool", d)
    BY <1>10 DEF ChargeInv, Counted, ChargedOnce
  <2> QED BY <1>7, <1>9, <2>1
<1>11. ASSUME moves = 0, NEW t \in Teams
       PROVE  count'[PeriodRow(t)] = Total([d \in Days |-> out'[t][d]["month"]])
  <2> DEFINE f == [d \in Days |-> out[t][d]["month"]]
             h == [d \in Days |-> out'[t][d]["month"]]
             g == [d \in Days |-> IF t = s.team /\ "month" = s.kind THEN n(d) ELSE 0]
  <2>1. /\ f \in [Days -> Nat] /\ h \in [Days -> Nat] /\ g \in [Days -> Nat]
        /\ \A d \in Days : h[d] = f[d] + g[d]
        /\ \A d \in Days : g[d] = IF t = s.team /\ "month" = s.kind THEN n(d) ELSE 0
    BY <1>4, <1>5 DEF Kinds
  <2>2. count[PeriodRow(t)] = Total(f)
    BY <1>11 DEF ChargeInv, Counted, ChargedOnce
  <2> HIDE DEF f, g, h
  <2>3. Total(h) = Total(f) + Total(g) /\ Total(f) \in Nat
    <3>1. IsFiniteSet(Days)
      BY <1>2
    <3>2. Total(h) = Total(f) + Total(g)
      BY <2>1, <3>1, TotalAdd
    <3> QED BY <2>1, <3>1, <3>2, TotalNat
  <2>4. Total(g) = s.delta[PeriodRow(t)]
    <3>1. CASE t = s.team /\ s.kind = "month"
      <4> DEFINE W == Paid(s, {})
                 day == [i \in W |-> s.items[i].day]
      <4>1. IsFiniteSet(W) /\ Cardinality(W) \in Nat
        BY <1>1, PaidFinite
      <4>2. day \in [W -> Days]
        <5>1. \A i \in W : s.items[i] \in Items
          BY <1>1 DEF Paid, Waiting, Transactions
        <5> QED BY <5>1 DEF Items
      <4>3. \A d \in Days : g[d] = Cardinality({i \in W : day[i] = d})
        <5> TAKE d \in Days
        <5>1. {i \in W : day[i] = d} = PaidOn(s, d, {})
          BY DEF PaidOn
        <5> QED BY <2>1, <3>1, <5>1 DEF n
      <4> HIDE DEF W, day
      <4>4. Total(g) = Cardinality(W)
        BY <2>1, <4>1, <4>2, <4>3, TotalFibres
      <4>5. s.delta[PeriodRow(t)] = Cardinality(W) + 0
        BY <1>3, <3>1 DEF Ledger, W
      <4> QED BY <4>1, <4>4, <4>5
    <3>2. CASE ~(t = s.team /\ s.kind = "month")
      <4>1. \A d \in Days : g[d] = 0
        BY <2>1, <3>2
      <4>2. Total(g) = 0
        BY <2>1, <4>1, TotalZero
      <4>3. s.delta[PeriodRow(t)] = 0
        BY <1>3, <3>2 DEF Ledger
      <4> QED BY <4>2, <4>3
    <3> QED BY <3>1, <3>2
  <2>5. count'[PeriodRow(t)] = count[PeriodRow(t)] + s.delta[PeriodRow(t)]
    BY <1>6 DEF Rows
  <2>6. count'[PeriodRow(t)] = Total(h)
    BY <2>2, <2>3, <2>4, <2>5
  <2> QED BY <2>6 DEF h
<1>12. ASSUME ~lapsed, NEW d \in Days PROVE OutOn("pool", d)' <= count'[PoolRow(d)]
  <2>1. OutOn("pool", d) <= count[PoolRow(d)] /\ count[PoolRow(d)] \in Nat /\ n(d) \in Nat
    BY <1>2, <1>4, <1>12 DEF ChargeInv, Counted, Rows
  <2> QED BY <1>7, <1>9, <2>1
<1>13. Counted'
  BY <1>1, <1>8, <1>10, <1>11, <1>12 DEF Counted, ChargedOnce
<1>14. Links'
  <2>1. ASSUME ~lapsed, NEW t \in Teams, NEW d \in Days, plan[t] = "pool"
        PROVE  out'[t][d]["month"] = 0
    <3>1. out[t][d]["month"] = 0 /\ ~(t = s.team /\ "month" = s.kind)
      BY <1>1, <2>1 DEF ChargeInv, Links
    <3> QED BY <1>5, <3>1 DEF Kinds
  <2>2. ASSUME moves = 0, NEW t \in Teams, NEW d \in Days, plan[t] = "month"
        PROVE  out'[t][d]["pool"] = 0
    <3>1. out[t][d]["pool"] = 0 /\ ~(t = s.team /\ "pool" = s.kind)
      BY <1>1, <2>2 DEF ChargeInv, Links
    <3> QED BY <1>5, <3>1 DEF Kinds
  <2> QED BY <1>1, <1>6, <2>1, <2>2 DEF ChargeInv, Links
<1> QED BY <1>6, <1>13, <1>14 DEF ChargeInv

(* A plan changes: from then on the pool and the periods are exact no more, *)
(* and once a team falls back to Free the pool covers its teams no more.    *)
LEMMA MovesCharge ==
  ASSUME CapsInv, PlansOK, ChargeInv, NEW t \in Teams, Upgrade(t) \/ Lapse(t)
  PROVE  ChargeInv'
<1>1. /\ moves' = moves + 1 /\ moves' # 0 /\ UNCHANGED <<count, tx, out>>
      /\ plan \in [Teams -> Kinds]
  BY DEF Upgrade, Lapse, PlansOK
<1>2. \A y \in Txs : Books(tx[y])'
  <2> TAKE y \in Txs
  <2>1. Books(tx[y]) /\ tx'[y] = tx[y]
    BY <1>1 DEF ChargeInv
  <2>2. CASE tx[y].job = "release"
    <3>1. Given(tx[y])
      BY <2>1, <2>2 DEF Books
    <3>2. Given(tx[y])'
      BY <1>1, <2>1, <3>1 DEF Given
    <3> QED BY <2>1, <2>2, <3>2 DEF Books
  <2>3. CASE tx[y].job # "release"
    <3>1. Booked(tx[y])
      BY <2>1, <2>3 DEF Books
    <3>2. Booked(tx'[y])
      BY <2>1, <3>1
    <3>3. Booked(tx[y])'
      BY <3>2 DEF Booked, Ledger, Paid, PaidOn, Waiting, Open, Group
    <3> QED BY <2>1, <2>3, <3>3 DEF Books
  <2> QED BY <2>2, <2>3
<1>3. ~lapsed' => ~lapsed /\ \A v \in Teams : plan'[v] = "pool" => plan[v] = "pool"
  BY <1>1 DEF Upgrade, Lapse
<1>4. Counted'
  BY <1>1, <1>3 DEF ChargeInv, Counted, ChargedOnce, OutOn
<1>5. Links'
  <2>1. \A y \in Txs : tx[y].team \in Teams
    BY TxTyped
  <2> QED BY <1>1, <1>3, <2>1 DEF ChargeInv, Links
<1> QED BY <1>2, <1>4, <1>5 DEF ChargeInv

-----------------------------------------------------------------------------
(* Held together: what each transaction will add is what its mail costs,    *)
(* and what is committed is what the mail that is out cost.                 *)
THEOREM Charges == Spec => []ChargeInv
<1>1. Init /\ CapsInv => ChargeInv
  <2> SUFFICES ASSUME Init, CapsInv PROVE ChargeInv
    OBVIOUS
  <2>1. /\ \A x \in Txs : Books(tx[x])
        /\ \A x \in Txs : tx[x].pc = "idle"
    BY IdleBooks DEF Init
  <2>2. /\ \A t \in Teams, d \in Days, k \in Kinds : out[t][d][k] = 0
        /\ \A r \in Rows : count[r] = 0
    BY DEF Init
  <2>3. \A t \in Teams, d \in Days : out[t][d]["pool"] = 0 /\ out[t][d]["month"] = 0
    BY <2>2 DEF Kinds
  <2>4. \A d \in Days : OutOn("pool", d) = 0
    <3> TAKE d \in Days
    <3> DEFINE f == [t \in Teams |-> out[t][d]["pool"]]
    <3>1. f \in [Teams -> Nat] /\ \A t \in Teams : f[t] = 0
      BY <2>3
    <3>2. OutOn("pool", d) = Total(f)
      BY DEF OutOn
    <3> HIDE DEF f
    <3> QED BY <3>1, <3>2, TotalZero
  <2>5. \A t \in Teams : Total([d \in Days |-> out[t][d]["month"]]) = 0
    <3> TAKE t \in Teams
    <3> DEFINE f == [d \in Days |-> out[t][d]["month"]]
    <3>1. f \in [Days -> Nat] /\ \A d \in Days : f[d] = 0
      BY <2>3
    <3> HIDE DEF f
    <3>2. Total(f) = 0
      BY <3>1, TotalZero
    <3> QED BY <3>2 DEF f
  <2>6. /\ \A t \in Teams, d \in Days : count[TeamRow(t, d)] = 0
        /\ \A d \in Days : count[PoolRow(d)] = 0
        /\ \A t \in Teams : count[PeriodRow(t)] = 0
    BY <2>2 DEF Rows
  <2>7. Counted
    BY <2>3, <2>4, <2>5, <2>6 DEF Counted, ChargedOnce
  <2>8. Links
    BY <2>1, <2>3 DEF Init, Links
  <2> QED BY <2>1, <2>7, <2>8 DEF ChargeInv
<1>2. CapsInv /\ PlansOK /\ ChargeInv /\ [Next]_vars => ChargeInv'
  <2> SUFFICES ASSUME CapsInv, PlansOK, ChargeInv, [Next]_vars PROVE ChargeInv'
    OBVIOUS
  <2>1. ASSUME NEW x \in Txs, NEW t \in Teams, NEW job \in {"accept", "drain"},
               NEW review \in BOOLEAN, NEW items \in Batches[t], Begin(x, job, t, items, review)
        PROVE  ChargeInv'
    BY <2>1, BeginCharge
  <2>2. ASSUME NEW x \in Txs, NEW t \in Teams, NEW k \in Kinds, BeginRelease(x, t, k)
        PROVE  ChargeInv'
    BY <2>2, BeginReleaseCharge
  <2>3. ASSUME NEW x \in Txs, TakePeriod(x) \/ TakeTeam(x) \/ TakePool(x) \/ HandBack(x)
                              \/ TakeWarm(x) \/ TakeDomain(x)
        PROVE  ChargeInv'
    BY <2>3, TakePeriodCharge, TakeTeamCharge, TakePoolCharge, HandBackCharge,
       TakeWarmCharge, TakeDomainCharge
  <2>4. ASSUME NEW x \in Txs, ReleasePeriod(x) \/ ReleaseTeam(x) \/ ReleasePool(x)
        PROVE  ChargeInv'
    BY <2>4, ReleasePeriodCharge, ReleaseTeamCharge, ReleasePoolCharge
  <2>5. ASSUME NEW x \in Txs, Commit(x) PROVE ChargeInv'
    BY <2>5, CommitRelease, CommitBatch
  <2>6. ASSUME NEW x \in Txs, Abort(x) PROVE ChargeInv'
    BY <2>6, IdleCharge DEF Abort
  <2>7. ASSUME NEW t \in Teams, Upgrade(t) \/ Lapse(t) PROVE ChargeInv'
    BY <2>7, MovesCharge
  <2>8. CASE UNCHANGED vars
    <3>1. \A y \in Txs : Books(tx[y])'
      <4> TAKE y \in Txs
      <4>1. Books(tx'[y])
        BY <2>8 DEF ChargeInv, vars
      <4>2. UNCHANGED moves
        BY <2>8 DEF vars
      <4> QED BY <4>1, <4>2 DEF Books, Given, Booked, Ledger, Paid, PaidOn, Waiting, Open, Group
    <3>2. Counted' /\ Links'
      BY <2>8 DEF ChargeInv, Counted, ChargedOnce, OutOn, Links, vars
    <3> QED BY <3>1, <3>2 DEF ChargeInv
  <2> QED BY <2>1, <2>2, <2>3, <2>4, <2>5, <2>6, <2>7, <2>8 DEF Next
<1> QED BY <1>1, <1>2, Counters, PTL DEF Spec

(* A send is charged once or not at all, for any teams, batches and         *)
(* connections: whatever the pool, the day, the period, a warm-up, a review *)
(* or an abort refuses half way, the committed counters are the mail that   *)
(* is out.                                                                  *)
THEOREM ChargesOnce == Spec => []ChargedOnce
<1>1. ChargeInv => ChargedOnce
  BY DEF ChargeInv, Counted
<1> QED BY <1>1, Charges, PTL

(* Until a team falls back to Free, the pool's day covers the mail of all   *)
(* its teams and stays within its one cap, upgrades or not.                 *)
THEOREM PoolCoversMail == Spec => []PoolCovers
<1>1. CapsInv /\ ChargeInv => PoolCovers
  <2> SUFFICES ASSUME CapsInv, ChargeInv, ~lapsed, NEW d \in Days
               PROVE  OutOn("pool", d) <= count[PoolRow(d)] /\ count[PoolRow(d)] <= PoolCeiling
    BY DEF PoolCovers
  <2>1. PoolRow(d) \in Rows
    BY DEF Rows
  <2>2. Ceiling(PoolRow(d)) = PoolCeiling
    BY DEF Ceiling, PoolRow
  <2>3. count[PoolRow(d)] <= PoolCeiling
    BY <2>1, <2>2 DEF CapsInv, WithinCaps
  <2> QED BY <2>3 DEF ChargeInv, Counted
<1> QED BY <1>1, Counters, Charges, PTL

=============================================================================
