------------------------------- MODULE Billing ------------------------------
(***************************************************************************)
(* The plan of one team that pays through Stripe, and the overage of its   *)
(* running period.  Stripe owns the subscriptions; webhooks, the daily     *)
(* reconcile and the calls that changed something copy what Stripe says    *)
(* into the team's row, each in one transaction.  Sends past the included  *)
(* volume are reported to Stripe's meter in steps, by the cron and by      *)
(* whoever is about to lose the metered item.                              *)
(*                                                                         *)
(* An action is one statement, one call of Stripe, or a commit.            *)
(***************************************************************************)
EXTENDS Integers, FiniteSets

CONSTANTS
  Subs,          \* subscriptions of the customer, in the order they are created
  Syncs,         \* connections that apply a subscription to the team
  Runs,          \* runs of billing.overage
  Enders,        \* calls that end the subscription: a team is deleted, or fraud
  Nobody,
  Included,      \* the volume of the period
  MaxAccepted,   \* bound: mail accepted in the period
  MaxTurns,      \* bound: events Stripe emits of its own
  MaxFailures    \* bound: processes that die, calls that fail

Procs == Syncs \cup Runs \cup Enders

ASSUME BillingAssumption ==
  /\ Subs \subseteq Nat \ {0} /\ IsFiniteSet(Subs) /\ Nobody \notin Procs
  /\ Syncs \cap (Runs \cup Enders) = {} /\ Runs \cap Enders = {}
  /\ {Included, MaxAccepted, MaxTurns, MaxFailures} \subseteq Nat

VARIABLES
  stripe,     \* Stripe: the status of each subscription
  turn,       \* Stripe: the states it has gone through
  emitted,    \* Stripe: the events it delivers until they are acknowledged
  metered,    \* Stripe: the steps its meter counted, by identifier
  ledger,     \* stripe_events: the events handled
  team,       \* the plan, the subscription it comes from, and if it names a metered item
  lock,       \* the advisory lock of the customer
  accepted, reported, pin,   \* usage_periods; pin is pending_overage, 0 for null
  held,       \* the transaction that locks the usage row
  before,     \* that row as the others read it
  at, mem,    \* where each process is, and what it read
  failures,
  written,    \* observer: the subscription a sync wrote last, and in which state
  undone,     \* observer: a rollback took back a pin whose step was counted
  clobbered   \* observer: a caller ended one subscription and cleared another

stripeSide == <<stripe, turn, emitted>>
usage == <<accepted, reported, pin, held, before>>
observers == <<written, undone, clobbered>>
vars == <<stripeSide, metered, ledger, team, lock, usage, at, mem, failures, observers>>

NoSub == 0
Statuses == {"none", "active", "past_due", "canceled"}
Events == Subs \X Nat
NoEvent == <<NoSub, 0>>
Usage == [reported : Nat, pin : Nat]
NoUsage == [reported |-> 0, pin |-> 0]
Places == {"idle", "fetch", "team", "usage", "pin", "meter", "catch", "write",
           "skip", "cancel", "clear", "over"}
Fetched == {"team", "usage", "pin", "meter", "catch", "write", "skip"}
Free == [plan |-> "free", sub |-> NoSub, item |-> FALSE]
Blank == [event |-> NoEvent, sub |-> NoSub, status |-> "none", turn |-> 0,
          plan |-> "free", from |-> 0, to |-> 0]

(* Every variable has its type, only the owner of the customer's lock is    *)
(* past its fetch, and only it locks the usage row.                         *)
TypeOK ==
  /\ stripe \in [Subs -> Statuses] /\ turn \in [Subs -> Nat]
  /\ emitted \subseteq Events /\ ledger \subseteq emitted
  /\ metered \subseteq Nat \X Nat
  /\ team \in [plan : {"free", "paid"}, sub : Subs \cup {NoSub}, item : BOOLEAN]
  /\ accepted \in Nat /\ reported \in Nat /\ pin \in Nat /\ before \in Usage
  /\ at \in [Procs -> Places]
  /\ mem \in [Procs -> [event : emitted \cup {NoEvent}, sub : Subs \cup {NoSub},
                        status : Statuses, turn : Nat, plan : {"free", "paid"},
                        from : Nat, to : Nat]]
  /\ lock \in Syncs \cup {Nobody} /\ held \in {lock, Nobody}
  /\ \A x \in Syncs : at[x] \in Fetched \cup {"fetch"} => lock = x
  /\ \A x \in Syncs : at[x] \in Fetched \ {"skip"} => mem[x].sub \in Subs
  /\ failures \in Nat /\ written \in [sub : Subs \cup {NoSub}, turn : Nat]
  /\ undone \in BOOLEAN /\ clobbered \in BOOLEAN

Init ==
  /\ stripe = [s \in Subs |-> "none"] /\ turn = [s \in Subs |-> 0]
  /\ emitted = {} /\ metered = {} /\ ledger = {} /\ team = Free /\ lock = Nobody
  /\ accepted = 0 /\ reported = 0 /\ pin = 0 /\ held = Nobody
  /\ before = NoUsage
  /\ at = [p \in Procs |-> "idle"] /\ mem = [p \in Procs |-> Blank] /\ failures = 0
  /\ written = [sub |-> NoSub, turn |-> 0] /\ undone = FALSE /\ clobbered = FALSE

Goto(p, pc) == at' = [at EXCEPT ![p] = pc]
Forget(p) == mem' = [mem EXCEPT ![p] = Blank]
Fails == failures < MaxFailures /\ failures' = failures + 1

-----------------------------------------------------------------------------
(* Stripe. *)

Becomes(s, status) ==
  /\ stripe' = [stripe EXCEPT ![s] = status]
  /\ turn' = [turn EXCEPT ![s] = @ + 1]
  /\ emitted' = emitted \cup {<<s, turn[s] + 1>>}

(* A checkout is paid.  A new subscription is only created once the         *)
(* previous has ended.                                                      *)
Subscribe(s) ==
  /\ stripe[s] = "none" /\ \A r \in Subs : r < s => stripe[r] = "canceled"
  /\ Becomes(s, "active")
  /\ UNCHANGED <<metered, ledger, team, lock, usage, at, mem, failures, observers>>

(* A payment fails, is made good, or the subscription ends.                 *)
Change(s, status) ==
  /\ stripe[s] \in {"active", "past_due"} /\ status # stripe[s]
  /\ Cardinality(emitted) < MaxTurns /\ Becomes(s, status)
  /\ UNCHANGED <<metered, ledger, team, lock, usage, at, mem, failures, observers>>

-----------------------------------------------------------------------------
(* Syncs: handleWebhook, reconcileTeamPlan, applyLocked. *)

(* Mutant: two transactions lock by different keys.                         *)
BeginOther(x, event, s) ==
  /\ at[x] = "idle" /\ lock' = x /\ Goto(x, "fetch")
  /\ mem' = [mem EXCEPT ![x] = [Blank EXCEPT !.event = event, !.sub = s]]
  /\ UNCHANGED <<stripeSide, metered, ledger, team, usage, failures, observers>>

(* The transaction begins, and gets the lock of the customer.               *)
Begin(x, event, s) ==
  /\ at[x] = "idle" /\ lock = Nobody /\ lock' = x /\ Goto(x, "fetch")
  /\ mem' = [mem EXCEPT ![x] = [Blank EXCEPT !.event = event, !.sub = s]]
  /\ UNCHANGED <<stripeSide, metered, ledger, team, usage, failures, observers>>

Existing == {s \in Subs : stripe[s] # "none"}

(* An event is delivered that is not in the ledger.  A second delivery      *)
(* waits on the ledger row of the first.                                    *)
Deliver(x, e) ==
  /\ e \in emitted \ ledger /\ \A y \in Syncs : mem[y].event # e
  /\ Begin(x, e, e[1])

(* billing.reconcile looks the subscription up under the lock; a call that  *)
(* changed something applies the one its team had when it started.          *)
Reconcile(x) == Begin(x, NoEvent, NoSub)
Reapply(x, s) == s \in Existing /\ Begin(x, NoEvent, s)

(* The subscription as Stripe has it now: the event's, the team's, or the   *)
(* customer's newest.                                                       *)
Fetch(x) ==
  /\ at[x] = "fetch"
  /\ \/ /\ mem[x].sub = NoSub /\ Existing = {}
        /\ Goto(x, "skip") /\ UNCHANGED mem
     \/ \E s \in Existing :
          /\ \/ s = mem[x].sub
             \/ mem[x].sub = NoSub /\ \A r \in Existing : r <= s
          /\ mem' = [mem EXCEPT ![x].sub = s, ![x].status = stripe[s], ![x].turn = turn[s]]
          /\ Goto(x, "team")
  /\ UNCHANGED <<stripeSide, metered, ledger, team, lock, usage, failures, observers>>

Lives(status) == status \in {"active", "past_due"}
Plan(status) == CASE status = "active" -> "paid"
                  [] status = "past_due" -> team.plan
                  [] OTHER -> "free"

(* Mutant: a superseded subscription that ends revokes the plan.            *)
ReadTeamAny(x) ==
  LET m == mem[x] IN
  /\ at[x] = "team"
  /\ Goto(x, IF team.item /\ ~Lives(m.status) THEN "usage" ELSE "write")
  /\ mem' = [mem EXCEPT ![x].plan = Plan(m.status)]
  /\ UNCHANGED <<stripeSide, metered, ledger, team, lock, usage, failures, observers>>

(* applySubscription reads the team and decides: a superseded subscription  *)
(* that ends is no news, and a metered item that is going is reported while *)
(* the row still names it.                                                  *)
ReadTeam(x) ==
  LET m == mem[x]
      superseded == m.status # "active" /\ team.sub \notin {NoSub, m.sub}
  IN
  /\ at[x] = "team"
  /\ Goto(x, IF superseded THEN "skip"
             ELSE IF team.item /\ ~Lives(m.status) THEN "usage" ELSE "write")
  /\ mem' = [mem EXCEPT ![x].plan = Plan(m.status)]
  /\ UNCHANGED <<stripeSide, metered, ledger, team, lock, usage, failures, observers>>

(* The transaction ends: its lock, its row lock, its ledger row.            *)
Done(x) ==
  /\ lock' = Nobody /\ held' = Nobody /\ before' = NoUsage
  /\ ledger' = ledger \cup ({mem[x].event} \ {NoEvent})
  /\ Goto(x, "idle") /\ Forget(x)
  /\ UNCHANGED <<stripeSide, metered, accepted, reported, pin, failures, undone, clobbered>>

Write(x) ==
  LET m == mem[x] IN
  /\ at[x] = "write"
  /\ team' = [plan |-> m.plan, sub |-> m.sub, item |-> Lives(m.status)]
  /\ written' = [sub |-> m.sub, turn |-> m.turn]
  /\ Done(x)

Skip(x) ==
  /\ at[x] = "skip" /\ Done(x)
  /\ UNCHANGED <<team, written>>

(* The transaction rolls back, its pin with it; Stripe keeps what it        *)
(* counted, and delivers the event again.                                   *)
Abort(x) ==
  /\ at[x] # "idle" /\ Fails
  /\ lock' = IF lock = x THEN Nobody ELSE lock
  /\ IF held = x
     THEN /\ held' = Nobody /\ before' = NoUsage
          /\ reported' = before.reported /\ pin' = before.pin
          /\ undone' = (undone \/ <<mem[x].from, mem[x].to>> \in metered)
     ELSE UNCHANGED <<held, before, reported, pin, undone>>
  /\ Goto(x, "idle") /\ Forget(x)
  /\ UNCHANGED <<stripeSide, metered, ledger, team, accepted, written, clobbered>>

-----------------------------------------------------------------------------
(* reportOverage, by a run, by a caller that ends the subscription, or      *)
(* inside the transaction of a sync. *)

Leave(p) == Goto(p, IF p \in Enders THEN "over" ELSE "idle") /\ Forget(p)
Proceed(p) ==
  IF p \in Runs THEN Leave(p)
  ELSE Goto(p, IF p \in Syncs THEN "write" ELSE "cancel") /\ UNCHANGED mem
Unlocked(p) == held \in {Nobody, p}
Seen(p) == IF Unlocked(p) THEN [reported |-> reported, pin |-> pin] ELSE before

(* A sync's first write of the usage row locks it until its transaction     *)
(* ends.                                                                    *)
Locks(p) == IF p \in Syncs /\ held = Nobody
            THEN held' = p /\ before' = [reported |-> reported, pin |-> pin]
            ELSE UNCHANGED <<held, before>>

(* The row as it is read, of a team with a monthly plan; a step that was    *)
(* pinned is finished first.                                                *)
ReadUsage(p) ==
  LET u == Seen(p)
      to == IF u.pin # 0 THEN u.pin ELSE accepted - Included
  IN
  /\ at[p] = IF p \in Runs THEN "idle" ELSE "usage"
  /\ IF team.item /\ team.plan = "paid" /\ to > u.reported
     THEN /\ mem' = [mem EXCEPT ![p].from = u.reported, ![p].to = to]
          /\ Goto(p, IF u.pin # 0 THEN "meter" ELSE "pin")
     ELSE Proceed(p)
  /\ UNCHANGED <<stripeSide, metered, ledger, team, lock, usage, failures, observers>>

(* Mutant: the pin does not look at what the row has become.                *)
PinAnyway(p) ==
  /\ at[p] = "pin" /\ Unlocked(p)
  /\ pin' = mem[p].to /\ Locks(p) /\ Goto(p, "meter")
  /\ UNCHANGED <<stripeSide, metered, ledger, team, lock, accepted, reported, mem, failures,
                 observers>>

(* The counter the event will advance to is pinned, unless another run      *)
(* pinned it first.                                                         *)
Pin(p) ==
  /\ at[p] = "pin" /\ Unlocked(p)
  /\ IF reported = mem[p].from /\ pin = 0
     THEN pin' = mem[p].to /\ Locks(p) /\ Goto(p, "meter") /\ UNCHANGED mem
     ELSE Proceed(p) /\ UNCHANGED <<pin, held, before>>
  /\ UNCHANGED <<stripeSide, metered, ledger, team, lock, accepted, reported, failures,
                 observers>>

(* Mutant: an event Stripe refused counts as sent.                          *)
MeterAnyway(p) ==
  LET step == <<mem[p].from, mem[p].to>> IN
  /\ at[p] = "meter"
  /\ \/ metered' = metered \cup {step} /\ UNCHANGED failures
     \/ metered' \in {metered, metered \cup {step}} /\ Fails
  /\ Goto(p, "catch")
  /\ UNCHANGED <<stripeSide, ledger, team, lock, usage, mem, observers>>

(* The event, under an identifier that names both ends of the step: Stripe  *)
(* drops one it has counted.  It may refuse, or its answer be lost.         *)
Meter(p) ==
  LET step == <<mem[p].from, mem[p].to>> IN
  /\ at[p] = "meter"
  /\ \/ metered' = metered \cup {step} /\ Goto(p, "catch") /\ UNCHANGED <<mem, failures>>
     \/ /\ metered' \in {metered, metered \cup {step}} /\ Fails
        /\ IF p \in Syncs THEN Goto(p, "write") /\ UNCHANGED mem ELSE Leave(p)
  /\ UNCHANGED <<stripeSide, ledger, team, lock, usage, observers>>

(* The row catches up, unless it already has.                               *)
CatchUp(p) ==
  /\ at[p] = "catch" /\ Unlocked(p)
  /\ IF reported = mem[p].from THEN reported' = mem[p].to /\ pin' = 0 /\ Locks(p)
                               ELSE UNCHANGED <<reported, pin, held, before>>
  /\ Proceed(p)
  /\ UNCHANGED <<stripeSide, metered, ledger, team, lock, accepted, failures, observers>>

(* Mail accepted within the period, or given back.                          *)
Accept ==
  /\ team.plan = "paid" /\ held = Nobody /\ accepted < MaxAccepted
  /\ accepted' = accepted + 1
  /\ UNCHANGED <<stripeSide, metered, ledger, team, lock, reported, pin, held, before, at,
                 mem, failures, observers>>

Return ==
  /\ team.plan = "paid" /\ held = Nobody /\ accepted > 0
  /\ accepted' = accepted - 1
  /\ UNCHANGED <<stripeSide, metered, ledger, team, lock, reported, pin, held, before, at,
                 mem, failures, observers>>

-----------------------------------------------------------------------------
(* endSubscription, without the lock. *)

(* The subscription is ended already, is canceled after a last report, or,  *)
(* for fraud, without one.                                                  *)
End(p, fraud) ==
  /\ at[p] = "idle" /\ team.sub # NoSub
  /\ mem' = [mem EXCEPT ![p] = [Blank EXCEPT !.sub = team.sub]]
  /\ Goto(p, IF stripe[team.sub] = "canceled" THEN "clear"
             ELSE IF fraud THEN "cancel" ELSE "usage")
  /\ UNCHANGED <<stripeSide, metered, ledger, team, lock, usage, failures, observers>>

(* Stripe refuses to cancel what has ended.                                 *)
CancelSub(p) ==
  /\ at[p] = "cancel"
  /\ IF stripe[mem[p].sub] # "canceled"
     THEN Becomes(mem[p].sub, "canceled") /\ Goto(p, "clear")
             /\ UNCHANGED mem
     ELSE Leave(p) /\ UNCHANGED stripeSide
  /\ UNCHANGED <<metered, ledger, team, lock, usage, failures, observers>>

Clear(p) ==
  /\ at[p] = "clear"
  /\ team' = Free /\ Leave(p)
  /\ clobbered' = (clobbered \/ team.sub \notin {NoSub, mem[p].sub})
  /\ UNCHANGED <<stripeSide, metered, ledger, lock, usage, failures, written, undone>>

(* It dies.  A run that does is one whose event was refused, or answered    *)
(* too late.                                                                *)
Die(p) ==
  /\ at[p] \notin {"idle", "over"} /\ Fails
  /\ Leave(p)
  /\ UNCHANGED <<stripeSide, metered, ledger, team, lock, usage, observers>>

SyncStep(x) ==
  \/ \E e \in emitted : Deliver(x, e)
  \/ \E s \in Subs : Reapply(x, s)
  \/ Reconcile(x) \/ Fetch(x) \/ ReadTeam(x) \/ Write(x) \/ Skip(x) \/ Abort(x)
Report(p) == ReadUsage(p) \/ Pin(p) \/ Meter(p) \/ CatchUp(p)
EndStep(p) == (\E fraud \in BOOLEAN : End(p, fraud)) \/ CancelSub(p) \/ Clear(p)

Next ==
  \/ \E s \in Subs : Subscribe(s) \/ \E status \in {"active", "past_due", "canceled"} : Change(s, status)
  \/ Accept \/ Return
  \/ \E x \in Syncs : SyncStep(x)
  \/ \E p \in Procs : Report(p)
  \/ \E p \in Enders : EndStep(p) \/ Die(p)

Spec == Init /\ [][Next]_vars

-----------------------------------------------------------------------------
(* "The row never receives a state older than one already applied": no sync *)
(* writes a subscription in an older state than the sync before it did.     *)
NeverOlder == [][written'.sub = written.sub => written'.turn >= written.turn]_vars

(* Events arrive in any order, twice, and after a rollback; once the last   *)
(* is handled the team has the plan it pays for, and no other.  A caller    *)
(* that cleared a newer subscription is left to the reconcile.              *)
Converges ==
  (\A p \in Procs : at[p] \in {"idle", "over"}) /\ emitted \subseteq ledger /\ ~clobbered =>
    /\ (\E s \in Subs : stripe[s] = "active") => team.plan = "paid"
    /\ (\A s \in Subs : ~Lives(stripe[s])) => team.plan = "free"

(* No unit is billed twice, whichever runs overlapped, died or lost an      *)
(* answer, unless a transaction that reported was rolled back: its retry    *)
(* may name the step otherwise.                                             *)
BilledOnce ==
  ~undone => \A a, b \in metered : a = b \/ a[2] <= b[1] \/ b[2] <= a[1]

(* A unit that counts as reported was counted by Stripe's meter.            *)
ReportedIsMetered ==
  \A n \in 1..reported : \E a \in metered : a[1] < n /\ n <= a[2]

(* "What it has not billed yet must reach the meter while the row still     *)
(* names the item".  Refuted: applySubscription does not look at what the   *)
(* report failed to send.                                                   *)
NothingForgotten ==
  (\A p \in Procs : at[p] \in {"idle", "over"}) /\ ~team.item => reported >= accepted - Included
=============================================================================
