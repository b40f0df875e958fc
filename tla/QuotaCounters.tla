---------------------------- MODULE QuotaCounters ---------------------------
(***************************************************************************)
(* The counters a send is charged to: its team's day, the Free pool its    *)
(* team counts in, or the team's billing period, and the two warm-up       *)
(* counters of a young domain.  A reservation is one transaction of        *)
(* several guarded upserts.  Each upsert locks its row until the           *)
(* transaction ends, whether its guard held or not, and what a transaction *)
(* added shows to the others when it commits.                              *)
(*                                                                         *)
(* An action is one statement; an item is one unit of mail.                *)
(***************************************************************************)
EXTENDS Integers, Sequences, FiniteSets

CONSTANTS
  Teams,         \* teams of one creator
  Days,          \* UTC days mail is due on
  Today,         \* the day the drain charges and a park gives back
  Keys,          \* registrable domains that warm up
  Txs,           \* connections that run a transaction
  Batches,       \* the batches a team sends: [Teams -> SUBSET Seq(Items)]
  Plans,         \* the plans the teams may start on
  TeamCeiling,   \* of a team's day, by plan: the plan's line or the operator's
  PoolCeiling,   \* of the Free pool's day
  Included,      \* of the billing period
  WarmPool,      \* of a team's warming domains together, per day
  WarmCap,       \* of one domain, per day
  MaxTx,         \* bound: transactions begun
  MaxMoves       \* bound: teams that change plan

Kinds == {"pool", "month"}                 \* quota.kind: a Free pool's day, a month
Items == [day : Days, key : Keys]

ASSUME CountersAssumption ==
  /\ Teams # {} /\ IsFiniteSet(Teams) /\ IsFiniteSet(Keys) /\ IsFiniteSet(Txs)
  /\ Days \subseteq Nat \ {0} /\ IsFiniteSet(Days) /\ Today \in Days
  /\ Batches \in [Teams -> SUBSET Seq(Items)] /\ Plans \subseteq [Teams -> Kinds]
  /\ TeamCeiling \in [Kinds -> Nat] /\ PoolCeiling \in Nat /\ Included \in Nat
  /\ WarmPool \in Nat /\ WarmCap \in 0..WarmPool /\ MaxTx \in Nat /\ MaxMoves \in Nat

VARIABLES
  count,    \* the committed counters
  plan,     \* the plan each team is on
  tx,       \* what each connection runs
  out,      \* units charged and not given back, by team, day and the plan charged
  begun, moves,
  lapsed    \* observer: a team has fallen back to Free

vars == <<count, plan, tx, out, begun, moves, lapsed>>

TeamRow(t, d) == [of |-> "team", who |-> t, day |-> d]           \* usage_counters
PoolRow(d) == [of |-> "pool", who |-> "owner", day |-> d]        \* free_pool_usage
PeriodRow(t) == [of |-> "period", who |-> t, day |-> 0]          \* usage_periods
WarmRow(t, d) == [of |-> "warm", who |-> t, day |-> d]           \* team_warmup_usage
DomainRow(k, d) == [of |-> "domain", who |-> k, day |-> d]       \* domain_warmup_usage
Rows == {TeamRow(t, d) : t \in Teams, d \in Days} \cup {PoolRow(d) : d \in Days}
        \cup {PeriodRow(t) : t \in Teams} \cup {WarmRow(t, d) : t \in Teams, d \in Days}
        \cup {DomainRow(k, d) : k \in Keys, d \in Days}

Idle == [pc |-> "idle", job |-> "accept", team |-> CHOOSE t \in Teams : TRUE, kind |-> "pool",
         items |-> <<>>, day |-> Today, todo |-> {}, try |-> 0, parked |-> {}, review |-> FALSE, at |-> 0,
         was |-> "pool", delta |-> [r \in Rows |-> 0], held |-> {}]

(* Every variable has its type, no counter is negative, and no two          *)
(* transactions hold the same row.                                          *)
TypeOK ==
  /\ count \in [Rows -> Nat] /\ plan \in [Teams -> Kinds]
  /\ \A x \in Txs :
       /\ tx[x].pc \in {"idle", "period", "team", "pool", "review", "warm", "domain",
                       "commit"}
       /\ tx[x].job \in {"accept", "drain", "release"}
       /\ tx[x].team \in Teams /\ {tx[x].kind, tx[x].was} \subseteq Kinds /\ tx[x].day \in Days
       /\ tx[x].todo \subseteq Days /\ tx[x].items \in Seq(Items) /\ tx[x].parked \subseteq DOMAIN tx[x].items
       /\ tx[x].held \subseteq Rows /\ tx[x].delta \in [Rows -> Int]
       /\ \A r \in Rows : tx[x].delta[r] # 0 => r \in tx[x].held
       /\ \A y \in Txs \ {x} : tx[x].held \cap tx[y].held = {}
  /\ out \in [Teams -> [Days -> [Kinds -> Nat]]]
  /\ begun \in Nat /\ moves \in Nat /\ lapsed \in BOOLEAN

Init ==
  /\ count = [r \in Rows |-> 0] /\ plan \in Plans
  /\ tx = [x \in Txs |-> Idle]
  /\ out = [t \in Teams |-> [d \in Days |-> [k \in Kinds |-> 0]]]
  /\ begun = 0 /\ moves = 0 /\ lapsed = FALSE

-----------------------------------------------------------------------------
(* One statement on a row. *)

Free(x, r) == \A y \in Txs \ {x} : r \notin tx[y].held
Value(s, r) == count[r] + s.delta[r]
Locked(s, r) == [s EXCEPT !.held = @ \cup {r}]
Add(s, r, n) == [Locked(s, r) EXCEPT !.delta[r] = @ + n]
Step(x, s) == /\ tx' = [tx EXCEPT ![x] = s]
              /\ UNCHANGED <<count, plan, out, begun, moves, lapsed>>

(* Mutant: the floor at zero is left out.                                   *)
GiveBackBelow(s, r) == Add(s, r, -1)

(* greatest(accepted - 1, 0).                                               *)
GiveBack(s, r) == IF Value(s, r) > 0 THEN Add(s, r, -1) ELSE Locked(s, r)

First(s) == IF s.kind = "month" THEN "period" ELSE "team"
Waiting(s) == DOMAIN s.items \ s.parked
Group(s, d) == {i \in DOMAIN s.items : s.items[i].day = d}

(* The warm-up gate of the next item that still goes out.                   *)
NextItem(s) ==
  LET rest == {i \in Waiting(s) : i > s.at} IN
  IF rest = {} THEN [s EXCEPT !.pc = "commit"]
  ELSE [s EXCEPT !.at = CHOOSE i \in rest : \A j \in rest : i <= j, !.pc = "warm"]

(* What an item charged to its team's plan, given back in the transaction   *)
(* that charged it.                                                         *)
Returned(s, i) ==
  LET d == s.items[i].day
      plain == GiveBack(IF s.kind = "month" THEN GiveBack(s, PeriodRow(s.team)) ELSE s,
                        TeamRow(s.team, d))
  IN [(IF s.kind = "pool" THEN GiveBack(plain, PoolRow(d)) ELSE plain)
        EXCEPT !.parked = @ \cup {i}]

(* Mutant: the days of a batch in the order of the request.                 *)
EarliestAsked(s) ==
  LET i == CHOOSE i \in DOMAIN s.items : /\ s.items[i].day \in s.todo
             /\ \A j \in 1..(i - 1) : s.items[j].day \notin s.todo
  IN s.items[i].day

(* The days of a batch in one global order.                                 *)
Earliest(s) == CHOOSE d \in s.todo : \A e \in s.todo : d <= e

(* The reservation of the next day's items; after the last, the review hold *)
(* or the warm-up.                                                          *)
NextDay(s) ==
  IF s.todo = {} THEN IF s.review THEN [s EXCEPT !.pc = "review"] ELSE NextItem(s)
  ELSE LET d == Earliest(s)
       IN [s EXCEPT !.day = d, !.todo = @ \ {d}, !.try = Cardinality(Group(s, d)),
                    !.pc = First(s)]

(* A refused day: the longest run of its items that fits is tried once, the *)
(* tail parks.                                                              *)
Room(s) ==
  LET team == TeamCeiling[s.kind] - Value(s, TeamRow(s.team, s.day))
      pool == PoolCeiling - Value(s, PoolRow(s.day))
  IN IF s.kind = "pool" /\ pool < team THEN pool ELSE team
Parked(s, keep) ==
  [s EXCEPT !.parked = @ \cup {i \in Group(s, s.day) :
              Cardinality({j \in Group(s, s.day) : j < i}) >= keep}]
Refused(s) ==
  IF s.try = Cardinality(Group(s, s.day)) /\ Room(s) \in 1..(s.try - 1)
  THEN [s EXCEPT !.try = Room(s), !.pc = First(s)]
  ELSE NextDay(Parked(s, 0))

Reserved(s) == NextDay(Parked(s, s.try))

-----------------------------------------------------------------------------
(* reserveQuota. *)

(* A batch is accepted, or a parked row released by the drain: its quota is *)
(* the one its team had when the request was authenticated, or the page     *)
(* read.                                                                    *)
Begin(x, job, t, items, review) ==
  /\ tx[x].pc = "idle" /\ begun < MaxTx /\ begun' = begun + 1
  /\ job = "drain" => Len(items) = 1 /\ items[1].day = Today /\ ~review
  /\ LET s == [Idle EXCEPT !.job = job, !.team = t, !.kind = plan[t], !.items = items,
                           !.todo = {items[i].day : i \in DOMAIN items},
                           !.review = review]
     IN tx' = [tx EXCEPT ![x] = NextDay(s)]
  /\ UNCHANGED <<count, plan, out, moves, lapsed>>

(* The billing period; a full one refuses the request.                      *)
TakePeriod(x) ==
  LET s == tx[x]
      r == PeriodRow(s.team) IN
  /\ s.pc = "period" /\ s.job # "release" /\ Free(x, r)
  /\ Step(x, IF Value(s, r) + s.try <= Included
             THEN [Add(s, r, s.try) EXCEPT !.pc = "team"] ELSE Idle)

(* The team's day, under its own ceiling.  Refused there, the period gets   *)
(* its count back.                                                          *)
TakeTeam(x) ==
  LET s == tx[x]
      r == TeamRow(s.team, s.day) IN
  /\ s.pc = "team" /\ s.job # "release" /\ Free(x, r)
  /\ Step(x, IF Value(s, r) + s.try > TeamCeiling[s.kind]
             THEN Refused(IF s.kind = "month" THEN Add(Locked(s, r), PeriodRow(s.team), -s.try)
                                                 ELSE Locked(s, r))
             ELSE IF s.kind = "pool" THEN [Add(s, r, s.try) EXCEPT !.pc = "pool"]
             ELSE Reserved(Add(s, r, s.try)))

(* Mutant: a pool's refusal leaves the team charged.                        *)
TakePoolKept(x) ==
  LET s == tx[x]
      r == PoolRow(s.day) IN
  /\ s.pc = "pool" /\ s.job # "release" /\ Free(x, r)
  /\ Step(x, IF Value(s, r) + s.try <= PoolCeiling THEN Reserved(Add(s, r, s.try))
             ELSE Refused(Locked(s, r)))

(* Then the pool's day.  A refused send still commits, parked, so the       *)
(* team's charge is taken back by hand.                                     *)
TakePool(x) ==
  LET s == tx[x]
      r == PoolRow(s.day) IN
  /\ s.pc = "pool" /\ s.job # "release" /\ Free(x, r)
  /\ Step(x, IF Value(s, r) + s.try <= PoolCeiling
             THEN Reserved(Add(s, r, s.try))
             ELSE Refused(Add(Locked(s, r), TeamRow(s.team, s.day), -s.try)))

(* Mutant: what had parked is handed back too.                              *)
HandBackAll(x) ==
  LET s == tx[x] IN
  /\ s.pc = "review"
  /\ Step(x, IF s.at = Len(s.items) THEN [s EXCEPT !.pc = "commit"]
             ELSE Returned([s EXCEPT !.at = @ + 1], s.at + 1))

(* A review hold charges the batch, so that a cap refuses it as any other,  *)
(* and hands back what did not park already.                                *)
HandBack(x) ==
  LET s == tx[x] IN
  /\ s.pc = "review"
  /\ Step(x, IF Waiting(s) = {} THEN [s EXCEPT !.pc = "commit"]
             ELSE Returned(s, CHOOSE i \in Waiting(s) : \A j \in Waiting(s) : i <= j))

-----------------------------------------------------------------------------
(* reserveWarmup, item by item. *)

(* The drain rolls back; an accept hands the plan's unit back and parks.    *)
Held(s) == IF s.job = "drain" THEN Idle ELSE NextItem(Returned(s, s.at))

TakeWarm(x) ==
  LET s == tx[x]
      r == WarmRow(s.team, s.items[s.at].day) IN
  /\ s.pc = "warm" /\ Free(x, r)
  /\ Step(x, IF Value(s, r) + 1 <= WarmPool THEN [Add(s, r, 1) EXCEPT !.pc = "domain"]
                                            ELSE Held(Locked(s, r)))

(* Mutant: a domain's refusal keeps the team's shared charge.               *)
TakeDomainKept(x) ==
  LET s == tx[x]
      i == s.items[s.at]
      r == DomainRow(i.key, i.day) IN
  /\ s.pc = "domain" /\ Free(x, r)
  /\ Step(x, IF Value(s, r) + 1 <= WarmCap THEN NextItem(Add(s, r, 1))
             ELSE Held(Locked(s, r)))

(* Mutant: the cap is read before the row is locked.                        *)
TakeDomainUnlocked(x) ==
  LET s == tx[x]
      i == s.items[s.at]
      r == DomainRow(i.key, i.day) IN
  /\ s.pc = "domain"
  /\ Step(x, IF Value(s, r) + 1 <= WarmCap THEN NextItem(Add(s, r, 1))
             ELSE Held(Add(Locked(s, r), WarmRow(s.team, i.day), -1)))

(* A domain's refusal gives the team's shared charge back.                  *)
TakeDomain(x) ==
  LET s == tx[x]
      i == s.items[s.at]
      r == DomainRow(i.key, i.day) IN
  /\ s.pc = "domain" /\ Free(x, r)
  /\ Step(x, IF Value(s, r) + 1 <= WarmCap THEN NextItem(Add(s, r, 1))
             ELSE Held(Add(Locked(s, r), WarmRow(s.team, i.day), -1)))

-----------------------------------------------------------------------------
(* releaseQuota, by a park, a refusal or a cancel of one of today's units:  *)
(* against the plan its team has by then.                                   *)
BeginRelease(x, t, k) ==
  /\ tx[x].pc = "idle" /\ begun < MaxTx /\ begun' = begun + 1
  /\ out[t][Today][k] > Cardinality({y \in Txs : /\ tx[y].pc # "idle" /\ tx[y].job = "release"
                                                  /\ tx[y].team = t /\ tx[y].was = k})
  /\ LET s == [Idle EXCEPT !.job = "release", !.team = t, !.kind = plan[t], !.was = k]
     IN tx' = [tx EXCEPT ![x] = [s EXCEPT !.pc = First(s)]]
  /\ UNCHANGED <<count, plan, out, moves, lapsed>>

ReleasePeriod(x) ==
  LET s == tx[x]
      r == PeriodRow(s.team) IN
  /\ s.pc = "period" /\ s.job = "release" /\ Free(x, r)
  /\ Step(x, [GiveBack(s, r) EXCEPT !.pc = "team"])

ReleaseTeam(x) ==
  LET s == tx[x]
      r == TeamRow(s.team, Today) IN
  /\ s.pc = "team" /\ s.job = "release" /\ Free(x, r)
  /\ Step(x, [GiveBack(s, r) EXCEPT !.pc = IF s.kind = "pool" THEN "pool" ELSE "commit"])

ReleasePool(x) ==
  LET s == tx[x]
      r == PoolRow(Today) IN
  /\ s.pc = "pool" /\ s.job = "release" /\ Free(x, r)
  /\ Step(x, [GiveBack(s, r) EXCEPT !.pc = "commit"])

-----------------------------------------------------------------------------
Commit(x) ==
  LET s == tx[x] IN
  /\ s.pc = "commit"
  /\ count' = [r \in Rows |-> Value(s, r)]
  /\ out' = IF s.job = "release" THEN [out EXCEPT ![s.team][Today][s.was] = @ - 1]
            ELSE [out EXCEPT ![s.team] = [d \in Days |-> [k \in Kinds |->
                   @[d][k] + IF k = s.kind THEN Cardinality(Group(s, d) \ s.parked) ELSE 0]]]
  /\ tx' = [tx EXCEPT ![x] = Idle]
  /\ UNCHANGED <<plan, begun, moves, lapsed>>

(* A backlog is full, the drain's row was moved meanwhile, the process dies.*)
Abort(x) ==
  /\ tx[x].pc # "idle"
  /\ Step(x, Idle)

(* A subscription starts, or ends and leaves its team on Free.              *)
Upgrade(t) ==
  /\ plan[t] = "pool" /\ moves < MaxMoves
  /\ plan' = [plan EXCEPT ![t] = "month"] /\ moves' = moves + 1
  /\ UNCHANGED <<count, tx, out, begun, lapsed>>

Lapse(t) ==
  /\ plan[t] = "month" /\ moves < MaxMoves
  /\ plan' = [plan EXCEPT ![t] = "pool"] /\ moves' = moves + 1 /\ lapsed' = TRUE
  /\ UNCHANGED <<count, tx, out, begun>>

Next ==
  \/ \E x \in Txs :
       \/ \E t \in Teams, job \in {"accept", "drain"}, review \in BOOLEAN :
            \E items \in Batches[t] : Begin(x, job, t, items, review)
       \/ \E t \in Teams, k \in Kinds : BeginRelease(x, t, k)
       \/ TakePeriod(x) \/ TakeTeam(x) \/ TakePool(x) \/ HandBack(x)
       \/ TakeWarm(x) \/ TakeDomain(x)
       \/ ReleasePeriod(x) \/ ReleaseTeam(x) \/ ReleasePool(x)
       \/ Commit(x) \/ Abort(x)
  \/ \E t \in Teams : Upgrade(t) \/ Lapse(t)

Spec == Init /\ [][Next]_vars

-----------------------------------------------------------------------------
(* The sum of a function: the size of a set with f[e] copies of every e.    *)
Copies(f) == UNION {{e} \X (1..f[e]) : e \in DOMAIN f}
Total(f) == Cardinality(Copies(f))

OutOn(k, d) == Total([t \in Teams |-> out[t][d][k]])

(* A send is charged once or not at all: whatever is refused half way -     *)
(* by the pool after the team, by the day after the period, by a warm-up    *)
(* after the plan, by a review, by an abort - no counter keeps a part of    *)
(* it.  A team's day counts its mail through every change of plan, the      *)
(* other counters as long as no team changes plan.                          *)
ChargedOnce ==
  /\ \A t \in Teams, d \in Days :
       count[TeamRow(t, d)] = out[t][d]["pool"] + out[t][d]["month"]
  /\ moves = 0 =>
       /\ \A d \in Days : count[PoolRow(d)] = OutOn("pool", d)
       /\ \A t \in Teams : count[PeriodRow(t)] = Total([d \in Days |-> out[t][d]["month"]])

(* The teams of a Free pool never have more mail out on a day than the      *)
(* pool's one cap, whichever of them leave the pool with mail charged to    *)
(* it; unless one fell back to Free with mail that was never charged to it, *)
(* and gave it back to the pool.                                            *)
PoolCovers ==
  ~lapsed => \A d \in Days : /\ OutOn("pool", d) <= count[PoolRow(d)]
                            /\ count[PoolRow(d)] <= PoolCeiling

(* What a counter may reach.  A team's day has its plan's ceiling, and teams *)
(* change plan between a reading of the plan and the write.                 *)
Ceiling(r) ==
  CASE r.of = "team" -> IF TeamCeiling["pool"] > TeamCeiling["month"]
                        THEN TeamCeiling["pool"] ELSE TeamCeiling["month"]
    [] r.of = "pool" -> PoolCeiling
    [] r.of = "period" -> Included
    [] r.of = "warm" -> WarmPool
    [] OTHER -> WarmCap

(* No counter is ever past its ceiling: not when two batches ask for the    *)
(* last unit at once, not by the second try of a refused day, and not by    *)
(* what is taken back by hand in between.                                   *)
WithinCaps == \A r \in Rows : count[r] <= Ceiling(r)

(* The two warm-up counters take a send together: what the domains of a day *)
(* count is what their teams count, across teams that share a domain.       *)
WarmTogether ==
  \A d \in Days : Total([t \in Teams |-> count[WarmRow(t, d)]])
               = Total([k \in Keys |-> count[DomainRow(k, d)]])

(* No ring of transactions waits for each other's rows: batches over        *)
(* several days and domains, the drain and releases.  Domains come in the   *)
(* order of the request, so this takes teams of one pool, or batches that   *)
(* all come to their young domains in one order.                            *)
Wants(x) ==
  LET s == tx[x] IN
  CASE s.pc = "period" -> {PeriodRow(s.team)}
    [] s.pc = "team" -> {TeamRow(s.team, s.day)}
    [] s.pc = "pool" -> {PoolRow(s.day)}
    [] s.pc = "warm" -> {WarmRow(s.team, s.items[s.at].day)}
    [] s.pc = "domain" -> {DomainRow(s.items[s.at].key, s.items[s.at].day)}
    [] OTHER -> {}
NoDeadlock ==
  \A ring \in (SUBSET Txs) \ {{}} :
    \E x \in ring : \A y \in ring \ {x} : Wants(x) \cap tx[y].held = {}
=============================================================================
