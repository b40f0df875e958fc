---------------------------- MODULE BillingProofs ---------------------------
(***************************************************************************)
(* Theorems about Billing, for any subscriptions, any number of syncs,     *)
(* runs and enders, and any failures: the customer's lock keeps an older   *)
(* state from overwriting a newer, and a unit of overage is metered once.  *)
(***************************************************************************)
EXTENDS Billing, TLAPS

Memory == [event : emitted \cup {NoEvent}, sub : Subs \cup {NoSub}, status : Statuses,
           turn : Nat, plan : {"free", "paid"}, from : Nat, to : Nat]
AtWork == {"usage", "pin", "meter", "catch", "cancel", "clear"}

(* An ender at work holds the subscription it ends; a step under way is     *)
(* never empty.                                                             *)
WorkInv ==
  /\ \A p \in Enders : at[p] \in AtWork => mem[p].sub \in Subs
  /\ \A p \in Procs : at[p] \in {"pin", "meter", "catch"} => mem[p].from < mem[p].to

Typed == TypeOK /\ WorkInv

(* What was written, and what a sync is about to write, was Stripe's state  *)
(* once, and nothing about to be written is older than what is.             *)
TurnInv ==
  /\ written.sub # NoSub => written.turn <= turn[written.sub]
  /\ \A x \in Syncs : at[x] \in Fetched \ {"skip"} =>
       /\ mem[x].turn <= turn[mem[x].sub]
       /\ mem[x].sub = written.sub => written.turn <= mem[x].turn

MeterStep(p) == <<mem[p].from, mem[p].to>>
Covered(n) == \A k \in 1..n : \E a \in metered : a[1] < k /\ k <= a[2]

(* What counts as reported was metered, in the row and in what a rollback   *)
(* would bring back, and a step that is to be caught up with was.           *)
CoverInv ==
  /\ Covered(reported) /\ Covered(before.reported)
  /\ \A p \in Procs : at[p] = "catch" => MeterStep(p) \in metered

(* A metered step ends where the row has caught up, or is the pinned one.   *)
Chain ==
  /\ pin # 0 => reported < pin
  /\ \A a \in metered :
       a[1] < a[2] /\ (a[2] <= reported \/ (pin # 0 /\ a = <<reported, pin>>))

(* A step on its way to the meter was metered, or is the pinned one and no  *)
(* other transaction can take that pin back.                                *)
StepInv ==
  \A p \in Procs : at[p] = "meter" =>
    \/ MeterStep(p) \in metered
    \/ pin # 0 /\ MeterStep(p) = <<reported, pin>> /\ held \in {Nobody, p}

(* The step of a transaction that holds the usage row was metered, or is    *)
(* its own pin; what was pinned before it took the row was metered.         *)
HeldInv ==
  held # Nobody =>
    /\ at[held] \in {"meter", "catch", "write"}
    /\ \/ MeterStep(held) \in metered
       \/ /\ before.pin = 0 /\ before.reported = reported
          /\ pin # 0 /\ MeterStep(held) = <<reported, pin>>
    /\ before.pin # 0 => <<before.reported, before.pin>> \in metered

BilledInv == ~undone => Chain /\ BilledOnce /\ StepInv /\ HeldInv

-----------------------------------------------------------------------------
LEMMA InitTyped == Init /\ BillingAssumption => Typed
<1> SUFFICES ASSUME Init, BillingAssumption PROVE Typed
  OBVIOUS
<1>1. mem \in [Procs -> Memory] /\ team \in [plan : {"free", "paid"}, sub : Subs \cup {NoSub}, item : BOOLEAN]
  BY DEF Init, Memory, Blank, NoEvent, NoSub, Free, Statuses
<1>2. stripe \in [Subs -> Statuses] /\ before \in Usage /\ at \in [Procs -> Places]
  BY DEF Init, Statuses, NoUsage, Usage, Places
<1> QED
  BY <1>1, <1>2 DEF Init, Typed, TypeOK, WorkInv, Memory, Events, Fetched, AtWork, Procs

LEMMA BeginTyped ==
  ASSUME Typed, BillingAssumption, NEW x \in Syncs, NEW event \in emitted \cup {NoEvent},
         NEW s \in Subs \cup {NoSub}, Begin(x, event, s)
  PROVE  Typed'
<1>1. mem' \in [Procs -> Memory]'
  BY DEF Begin, Typed, TypeOK, Memory, Blank, Statuses, stripeSide
<1> QED
  BY <1>1 DEF Begin, Typed, TypeOK, WorkInv, BillingAssumption, Memory, Goto, Places, Fetched,
              AtWork, Procs, stripeSide, usage, observers

LEMMA DoneTyped ==
  ASSUME Typed, BillingAssumption, NEW x \in Syncs, Write(x) \/ Skip(x)
  PROVE  Typed'
<1>1. mem' \in [Procs -> Memory]'
  BY DEF Write, Skip, Done, Forget, Typed, TypeOK, Memory, Blank, NoEvent, NoSub, Statuses, stripeSide
<1>2. team' \in [plan : {"free", "paid"}, sub : Subs \cup {NoSub}, item : BOOLEAN]
      /\ written' \in [sub : Subs \cup {NoSub}, turn : Nat]
  <2>1. mem[x] \in Memory /\ Lives(mem[x].status) \in BOOLEAN
    BY DEF Typed, TypeOK, Memory, Lives, Procs
  <2>2. CASE Write(x)
    BY <2>1, <2>2 DEF Write, Memory
  <2> QED BY <2>2 DEF Skip, Typed, TypeOK
<1>3. lock = x /\ ledger' \subseteq emitted'
  BY DEF Write, Skip, Done, Typed, TypeOK, Fetched, Procs, stripeSide
<1>4. before' \in Usage
  BY DEF Write, Skip, Done, NoUsage, Usage
<1> QED
  BY <1>1, <1>2, <1>3, <1>4 DEF Write, Skip, Done, Typed, TypeOK, WorkInv, BillingAssumption,
     Memory, Goto, Forget, Places, Fetched, AtWork, Procs, stripeSide

(* Every step keeps the types.                                              *)
LEMMA NextTyped == Typed /\ BillingAssumption /\ [Next]_vars => Typed'
<1> SUFFICES ASSUME Typed, BillingAssumption, [Next]_vars PROVE Typed'
  OBVIOUS
<1> USE DEF Typed, TypeOK, BillingAssumption, Procs, stripeSide, usage, observers
<1>1. ASSUME NEW s \in Subs, NEW status \in Statuses, Becomes(s, status)
      PROVE  /\ stripe' \in [Subs -> Statuses] /\ turn' \in [Subs -> Nat]
             /\ emitted' \subseteq Events /\ emitted \subseteq emitted'
  BY <1>1 DEF Becomes, Events
<1>2. ASSUME NEW s \in Subs, Subscribe(s) PROVE Typed'
  <2>1. Becomes(s, "active") /\ "active" \in Statuses
    BY <1>2 DEF Subscribe, Statuses
  <2> QED BY <1>1, <1>2, <2>1 DEF Subscribe, Memory, WorkInv
<1>3. ASSUME NEW s \in Subs, NEW status \in {"active", "past_due", "canceled"}, Change(s, status)
      PROVE  Typed'
  <2>1. Becomes(s, status) /\ status \in Statuses
    BY <1>3 DEF Change, Statuses
  <2> QED BY <1>1, <1>3, <2>1 DEF Change, Memory, WorkInv
<1>4. CASE Accept \/ Return
  BY <1>4 DEF Accept, Return, Memory, WorkInv
<1>5. ASSUME NEW x \in Syncs, SyncStep(x) PROVE Typed'
  <2>1. ASSUME NEW e \in emitted, Deliver(x, e) PROVE Typed'
    <3>1. e[1] \in Subs
      BY DEF Events
    <3> QED BY <2>1, <3>1, BeginTyped DEF Deliver
  <2>2. ASSUME NEW s \in Subs, Reapply(x, s) PROVE Typed'
    BY <2>2, BeginTyped DEF Reapply
  <2>3. CASE Reconcile(x)
    BY <2>3, BeginTyped DEF Reconcile
  <2>4. CASE Fetch(x)
    <3>1. CASE mem' = mem /\ Goto(x, "skip")
      BY <2>4, <3>1 DEF Fetch, Memory, WorkInv, Goto, Places, Fetched, AtWork
    <3>2. CASE Goto(x, "team") /\ \E s \in Subs :
            mem' = [mem EXCEPT ![x].sub = s, ![x].status = stripe[s], ![x].turn = turn[s]]
      <4>1. PICK s \in Subs :
              mem' = [mem EXCEPT ![x].sub = s, ![x].status = stripe[s], ![x].turn = turn[s]]
        BY <3>2
      <4>2. mem' \in [Procs -> Memory] /\ mem'[x].sub = s
            /\ \A y \in Procs \ {x} : mem'[y] = mem[y]
        <5>1. stripe[s] \in Statuses /\ turn[s] \in Nat /\ mem[x] \in Memory
          BY DEF Memory
        <5>2. [mem[x] EXCEPT !.sub = s, !.status = stripe[s], !.turn = turn[s]] \in Memory
          BY <5>1 DEF Memory
        <5>3. mem' = [mem EXCEPT ![x] = [mem[x] EXCEPT !.sub = s, !.status = stripe[s], !.turn = turn[s]]]
          BY <4>1
        <5> QED BY <5>1, <5>2, <5>3 DEF Memory
      <4> QED BY <2>4, <3>2, <4>2 DEF Fetch, Memory, WorkInv, Goto, Places, Fetched, AtWork
    <3> QED BY <2>4, <3>1, <3>2 DEF Fetch, Existing
  <2>5. CASE ReadTeam(x)
    <3>1. mem' \in [Procs -> Memory]' /\ mem'[x].sub = mem[x].sub
      BY <2>5 DEF ReadTeam, Memory, Plan
    <3> QED BY <2>5, <3>1 DEF ReadTeam, Memory, WorkInv, Goto, Places, Fetched, AtWork
  <2>6. CASE Write(x) \/ Skip(x)
    BY <2>6, DoneTyped
  <2>7. CASE Abort(x)
    <3>1. mem' \in [Procs -> Memory]'
      BY <2>7 DEF Abort, Forget, Memory, Blank, NoEvent, NoSub, Statuses
    <3>2. before' \in Usage /\ reported' \in Nat /\ pin' \in Nat /\ undone' \in BOOLEAN
      <4>1. before.reported \in Nat /\ before.pin \in Nat /\ NoUsage \in Usage
        BY DEF Usage, NoUsage
      <4> QED BY <2>7, <4>1 DEF Abort
    <3>3. failures' \in Nat
      BY <2>7 DEF Abort, Fails
    <3>4. lock' \in Syncs \cup {Nobody} /\ held' \in {lock', Nobody}
      BY <2>7 DEF Abort
    <3>5. \A y \in Procs \ {x} : mem'[y] = mem[y] /\ at'[y] = at[y]
      BY <2>7 DEF Abort, Goto, Forget
    <3>6. at' \in [Procs -> Places] /\ at'[x] = "idle"
      BY <2>7 DEF Abort, Goto, Places
    <3> QED BY <2>7, <3>1, <3>2, <3>3, <3>4, <3>5, <3>6 DEF Abort, Memory, WorkInv, Fetched, AtWork
  <2> QED
    BY <1>5, <2>1, <2>2, <2>3, <2>4, <2>5, <2>6, <2>7 DEF SyncStep
<1>6. ASSUME NEW p \in Procs, Report(p) PROVE Typed'
  <2>1. ASSUME Leave(p), p \notin Syncs
        PROVE  /\ mem' \in [Procs -> Memory] /\ at' \in [Procs -> Places]
               /\ at'[p] \in {"idle", "over"}
               /\ \A q \in Procs \ {p} : mem'[q] = mem[q] /\ at'[q] = at[q]
    BY <2>1 DEF Leave, Goto, Forget, Memory, Blank, NoEvent, NoSub, Statuses, Places
  <2>2. ASSUME Proceed(p)
        PROVE  /\ mem' \in [Procs -> Memory] /\ at' \in [Procs -> Places]
               /\ \A q \in Procs \ {p} : mem'[q] = mem[q] /\ at'[q] = at[q]
               /\ \/ p \in Runs /\ at'[p] = "idle"
                  \/ p \in Syncs /\ at'[p] = "write" /\ mem'[p] = mem[p]
                  \/ p \in Enders /\ at'[p] = "cancel" /\ mem'[p] = mem[p]
    <3>1. CASE p \in Runs
      BY <2>1, <2>2, <3>1 DEF Proceed, Leave, Goto
    <3>2. CASE p \notin Runs
      BY <2>2, <3>2 DEF Proceed, Goto, Places, Memory
    <3> QED BY <3>1, <3>2
  <2>3. CASE ReadUsage(p)
    <3>1. CASE Proceed(p)
      BY <2>2, <2>3, <3>1 DEF ReadUsage, Memory, WorkInv, Fetched, AtWork
    <3>2. ASSUME NEW u \in Usage, NEW to \in Int, to > u.reported, NEW pc \in {"pin", "meter"},
                 mem' = [mem EXCEPT ![p].from = u.reported, ![p].to = to], Goto(p, pc)
          PROVE  Typed'
      <4>1. to \in Nat /\ u.reported \in Nat /\ u.reported < to
        BY <3>2 DEF Usage
      <4>2. /\ mem' \in [Procs -> Memory] /\ mem'[p].sub = mem[p].sub
            /\ mem'[p].from < mem'[p].to
            /\ \A q \in Procs \ {p} : mem'[q] = mem[q]
        BY <3>2, <4>1 DEF Memory
      <4>3. at' \in [Procs -> Places] /\ at'[p] = pc /\ \A q \in Procs \ {p} : at'[q] = at[q]
        BY <3>2 DEF Goto, Places
      <4> QED BY <2>3, <4>2, <4>3 DEF ReadUsage, Memory, WorkInv, Fetched, AtWork
    <3>3. Seen(p) \in Usage
      BY DEF Seen, Usage
    <3>4. Seen(p).pin \in Int /\ accepted - Included \in Int
      BY <3>3 DEF Usage
    <3> QED BY <2>3, <3>1, <3>2, <3>3, <3>4 DEF ReadUsage
  <2>4. ASSUME Locks(p), at[p] \in {"pin", "catch"}
        PROVE  before' \in Usage /\ held' \in {lock, Nobody}
    <3>1. p \in Syncs => lock = p
      BY <2>4 DEF Fetched
    <3>2. [reported |-> reported, pin |-> pin] \in Usage
      BY DEF Usage
    <3> QED BY <2>4, <3>1, <3>2 DEF Locks
  <2>5. CASE Pin(p)
    <3>1. CASE reported = mem[p].from /\ pin = 0
      <4>1. pin' = mem[p].to /\ Locks(p) /\ Goto(p, "meter") /\ mem' = mem
        BY <2>5, <3>1 DEF Pin
      <4>2. pin' \in Nat
        BY <4>1
      <4> QED BY <2>4, <2>5, <4>1, <4>2 DEF Pin, Goto, Places, Memory, WorkInv, Fetched, AtWork
    <3>2. CASE ~(reported = mem[p].from /\ pin = 0)
      BY <2>2, <2>5, <3>2 DEF Pin, Memory, WorkInv, Fetched, AtWork
    <3> QED BY <3>1, <3>2
  <2>6. CASE Meter(p)
    <3>1. metered' \subseteq Nat \X Nat /\ failures' \in Nat
      BY <2>6 DEF Meter, Fails, Memory
    <3>2. CASE mem' = mem /\ (Goto(p, "catch") \/ (p \in Syncs /\ Goto(p, "write")))
      BY <2>6, <3>1, <3>2 DEF Meter, Goto, Places, Memory, WorkInv, Fetched, AtWork
    <3>3. CASE p \notin Syncs /\ Leave(p)
      BY <2>1, <2>6, <3>1, <3>3 DEF Meter, Memory, WorkInv, Fetched, AtWork
    <3>4. \/ mem' = mem /\ (Goto(p, "catch") \/ (p \in Syncs /\ Goto(p, "write")))
          \/ p \notin Syncs /\ Leave(p)
      BY <2>6 DEF Meter
    <3> QED BY <3>2, <3>3, <3>4
  <2>7. CASE CatchUp(p)
    <3>1. reported' \in Nat /\ pin' \in Nat /\ before' \in Usage /\ held' \in {lock, Nobody}
      BY <2>4, <2>7 DEF CatchUp, Memory
    <3> QED BY <2>2, <2>7, <3>1 DEF CatchUp, Memory, WorkInv, Fetched, AtWork
  <2> QED BY <1>6, <2>3, <2>5, <2>6, <2>7 DEF Report
<1>7. ASSUME NEW p \in Enders, EndStep(p) \/ Die(p) PROVE Typed'
  <2>1. ASSUME Leave(p)
        PROVE  /\ mem' \in [Procs -> Memory] /\ at' \in [Procs -> Places]
               /\ at'[p] = "over" /\ \A q \in Procs \ {p} : mem'[q] = mem[q] /\ at'[q] = at[q]
    BY <2>1 DEF Leave, Goto, Forget, Memory, Blank, NoEvent, NoSub, Statuses, Places
  <2>2. ASSUME NEW fraud \in BOOLEAN, End(p, fraud) PROVE Typed'
    <3>1. team.sub \in Subs
      BY <2>2 DEF End
    <3>2. /\ mem' \in [Procs -> Memory] /\ mem'[p].sub \in Subs
          /\ \A q \in Procs \ {p} : mem'[q] = mem[q]
      BY <2>2, <3>1 DEF End, Memory, Blank, NoEvent, NoSub, Statuses
    <3>3. /\ at' \in [Procs -> Places] /\ at'[p] \in {"clear", "cancel", "usage"}
          /\ \A q \in Procs \ {p} : at'[q] = at[q]
      BY <2>2 DEF End, Goto, Places
    <3> QED BY <2>2, <3>2, <3>3 DEF End, Memory, WorkInv, Fetched, AtWork
  <2>3. CASE CancelSub(p)
    <3>1. CASE stripe[mem[p].sub] # "canceled"
      <4>1. mem[p].sub \in Subs /\ Becomes(mem[p].sub, "canceled") /\ "canceled" \in Statuses
        BY <2>3, <3>1 DEF CancelSub, WorkInv, AtWork, Statuses
      <4>2. /\ stripe' \in [Subs -> Statuses] /\ turn' \in [Subs -> Nat]
            /\ emitted' \subseteq Events /\ emitted \subseteq emitted'
        BY <1>1, <4>1
      <4>3. mem' \in [Procs -> Memory]' /\ mem' = mem
        BY <2>3, <3>1, <4>2 DEF CancelSub, Memory
      <4>4. at' \in [Procs -> Places] /\ at' = [at EXCEPT ![p] = "clear"]
        BY <2>3, <3>1 DEF CancelSub, Goto, Places
      <4> QED BY <2>3, <3>1, <4>1, <4>2, <4>3, <4>4 DEF CancelSub, Memory, WorkInv, Fetched, AtWork
    <3>2. CASE stripe[mem[p].sub] = "canceled"
      BY <2>1, <2>3, <3>2 DEF CancelSub, Memory, WorkInv, Fetched, AtWork
    <3> QED BY <3>1, <3>2
  <2>4. CASE Clear(p)
    <3>1. team' \in [plan : {"free", "paid"}, sub : Subs \cup {NoSub}, item : BOOLEAN]
          /\ clobbered' \in BOOLEAN
      BY <2>4 DEF Clear, Free
    <3> QED BY <2>1, <2>4, <3>1 DEF Clear, Memory, WorkInv, Fetched, AtWork
  <2>5. CASE Die(p)
    <3>1. failures' \in Nat
      BY <2>5 DEF Die, Fails
    <3> QED BY <2>1, <2>5, <3>1 DEF Die, Memory, WorkInv, Fetched, AtWork
  <2> QED BY <1>7, <2>2, <2>3, <2>4, <2>5 DEF EndStep
<1>8. CASE UNCHANGED vars
  BY <1>8 DEF vars, Memory, WorkInv
<1> QED
  BY <1>2, <1>3, <1>4, <1>5, <1>6, <1>7, <1>8 DEF Next, vars
(* Every variable has its type, and only the owner of the customer's lock   *)
(* is past its fetch.                                                       *)
THEOREM BillingTyping == Spec => []TypeOK
<1>1. Typed => TypeOK
  BY DEF Typed
<1> QED
  BY <1>1, InitTyped, NextTyped, BillingAssumption, PTL DEF Spec

-----------------------------------------------------------------------------
(* What the locking of Pin and CatchUp, and every other step, do to the     *)
(* others' memory.                                                          *)
LEMMA OthersStay ==
  ASSUME Typed, BillingAssumption, NEW p \in Procs,
         Report(p) \/ (p \in Syncs /\ SyncStep(p)) \/ (p \in Enders /\ (EndStep(p) \/ Die(p)))
  PROVE  \A q \in Procs \ {p} : mem'[q] = mem[q] /\ at'[q] = at[q]
<1> USE DEF Typed, TypeOK
<1>1. CASE Report(p)
  BY <1>1 DEF Report, ReadUsage, Pin, Meter, CatchUp, Proceed, Leave, Goto, Forget
<1>2. CASE p \in Syncs /\ SyncStep(p)
  BY <1>2, ZenonT(60) DEF SyncStep, Deliver, Reapply, Reconcile, Begin, Fetch, ReadTeam, Write, Skip, Done,
              Abort, Goto, Forget
<1>3. CASE p \in Enders /\ (EndStep(p) \/ Die(p))
  BY <1>3 DEF EndStep, End, CancelSub, Clear, Die, Leave, Goto, Forget
<1> QED BY <1>1, <1>2, <1>3

(* No sync is about to write a state older than one already written.        *)
LEMMA NextTurn == Typed /\ TurnInv /\ BillingAssumption /\ [Next]_vars => TurnInv'
<1> SUFFICES ASSUME Typed, TurnInv, BillingAssumption, [Next]_vars PROVE TurnInv'
  OBVIOUS
<1> USE DEF Typed, TypeOK, TurnInv, BillingAssumption, Procs, stripeSide, usage, observers
<1>1. ASSUME NEW s \in Subs, NEW status \in Statuses, Becomes(s, status)
      PROVE  \A r \in Subs : turn'[r] \in Nat /\ turn[r] <= turn'[r]
  BY <1>1 DEF Becomes
<1>2. ASSUME \A r \in Subs : turn'[r] \in Nat /\ turn[r] <= turn'[r],
             written' = written, \A x \in Syncs : mem'[x] = mem[x] /\ at'[x] = at[x]
      PROVE  TurnInv'
  <2>0. ASSUME NEW n \in Nat, NEW r \in Subs, n <= turn[r] PROVE n <= turn'[r]
    <3>1. turn[r] \in Nat /\ turn'[r] \in Nat /\ turn[r] <= turn'[r]
      BY <1>2
    <3> QED BY <2>0, <3>1
  <2>1. written.sub # NoSub => written.turn <= turn'[written.sub]
    <3>1. written.turn \in Nat /\ written.sub \in Subs \cup {NoSub}
      OBVIOUS
    <3> QED BY <2>0, <3>1
  <2>2. ASSUME NEW x \in Syncs, at[x] \in Fetched \ {"skip"} PROVE mem[x].turn <= turn'[mem[x].sub]
    <3>1. mem[x].turn \in Nat /\ mem[x].sub \in Subs
      BY <2>2
    <3> QED BY <2>0, <2>2, <3>1
  <2> QED BY <1>2, <2>1, <2>2
<1>3. ASSUME NEW s \in Subs, Subscribe(s) PROVE TurnInv'
  BY <1>1, <1>2, <1>3 DEF Subscribe, Statuses
<1>4. ASSUME NEW s \in Subs, NEW status \in {"active", "past_due", "canceled"}, Change(s, status)
      PROVE  TurnInv'
  BY <1>1, <1>2, <1>4 DEF Change, Statuses
<1>5. CASE Accept \/ Return \/ UNCHANGED vars
  BY <1>5 DEF Accept, Return, vars, Fetched
<1>6. ASSUME NEW p \in Enders, EndStep(p) \/ Die(p) PROVE TurnInv'
  <2>1. \A x \in Syncs : mem'[x] = mem[x] /\ at'[x] = at[x]
    BY <1>6, OthersStay
  <2>2. written' = written
    BY <1>6 DEF EndStep, End, CancelSub, Clear, Die
  <2>3. \A r \in Subs : turn'[r] \in Nat /\ turn[r] <= turn'[r]
    <3>1. CASE CancelSub(p) /\ turn' # turn
      <4>1. mem[p].sub \in Subs /\ Becomes(mem[p].sub, "canceled")
        BY <3>1 DEF CancelSub, WorkInv, AtWork
      <4> QED BY <1>1, <4>1 DEF Statuses
    <3> QED BY <1>6, <3>1 DEF EndStep, End, CancelSub, Clear, Die
  <2> QED BY <1>2, <2>1, <2>2, <2>3
<1>7. ASSUME NEW p \in Procs, Report(p) PROVE TurnInv'
  <2>1. UNCHANGED <<turn, written>>
    BY <1>7 DEF Report, ReadUsage, Pin, Meter, CatchUp
  <2>2. \A q \in Procs \ {p} : mem'[q] = mem[q] /\ at'[q] = at[q]
    BY <1>7, OthersStay
  <2>3. p \in Syncs => /\ at[p] \in Fetched \ {"skip"}
                       /\ mem'[p].turn = mem[p].turn /\ mem'[p].sub = mem[p].sub
    BY <1>7 DEF Report, ReadUsage, Pin, Meter, CatchUp, Proceed, Leave, Goto, Fetched
  <2> QED BY <2>1, <2>2, <2>3 DEF Fetched
<1>8. ASSUME NEW x \in Syncs, SyncStep(x) PROVE TurnInv'
  <2>1. \A q \in Procs \ {x} : mem'[q] = mem[q] /\ at'[q] = at[q]
    BY <1>8, OthersStay
  <2>2. turn' = turn
    BY <1>8 DEF SyncStep, Deliver, Reapply, Reconcile, Begin, Fetch, ReadTeam, Write, Skip, Done, Abort
  <2>3. CASE at'[x] \in {"idle", "fetch", "skip"} /\ written' = written
    BY <2>1, <2>2, <2>3 DEF Fetched
  <2>4. CASE Fetch(x) /\ at'[x] = "team"
    <3>1. mem'[x].sub \in Subs /\ mem'[x].turn = turn[mem'[x].sub] /\ written' = written
      <4>1. PICK s \in Subs :
              mem' = [mem EXCEPT ![x].sub = s, ![x].status = stripe[s], ![x].turn = turn[s]]
        BY <2>4 DEF Fetch, Goto, Existing
      <4>2. mem' = [mem EXCEPT ![x] = [mem[x] EXCEPT !.sub = s, !.status = stripe[s], !.turn = turn[s]]]
        BY <4>1
      <4>3. mem'[x].sub = s /\ mem'[x].turn = turn[s]
        BY <4>2
      <4> QED BY <2>4, <4>3 DEF Fetch
    <3>2. written.sub = mem'[x].sub => written.turn <= mem'[x].turn
      BY <3>1 DEF NoSub
    <3>3. turn[mem'[x].sub] \in Nat
      BY <3>1
    <3> QED BY <2>1, <2>2, <2>4, <3>1, <3>2, <3>3
  <2>5. CASE ReadTeam(x)
    BY <2>1, <2>2, <2>5 DEF ReadTeam, Fetched
  <2>6. CASE Write(x)
    <3>1. lock = x /\ at'[x] = "idle" /\ mem[x].sub \in Subs /\ mem[x].turn <= turn[mem[x].sub]
      BY <2>6 DEF Write, Done, Goto, Fetched
    <3>2. \A y \in Syncs \ {x} : at'[y] \notin Fetched
      BY <2>1, <3>1
    <3>3. written'.sub = mem[x].sub /\ written'.turn = mem[x].turn
      BY <2>6 DEF Write
    <3> QED BY <2>2, <3>1, <3>2, <3>3 DEF Fetched
  <2> QED
    <3>1. CASE Fetch(x)
      BY <2>3, <2>4, <3>1 DEF Fetch, Goto
    <3>2. CASE Skip(x) \/ Abort(x)
      BY <2>3, <3>2 DEF Skip, Abort, Done, Goto
    <3>3. ASSUME NEW e, NEW s, Begin(x, e, s) PROVE TurnInv'
      BY <2>3, <3>3 DEF Begin, Goto
    <3> QED BY <1>8, <2>5, <2>6, <3>1, <3>2, <3>3 DEF SyncStep, Deliver, Reapply, Reconcile
<1> QED
  BY <1>3, <1>4, <1>5, <1>6, <1>7, <1>8 DEF Next, vars

(* The row never receives a state older than one already applied.           *)
THEOREM RowNeverOlder == Spec => NeverOlder
<1>1. Init => TurnInv
  BY DEF Init, TurnInv, Fetched, Procs
<1>2. Typed /\ TurnInv /\ [Next]_vars => [written'.sub = written.sub => written'.turn >= written.turn]_vars
  <2> SUFFICES ASSUME Typed, TurnInv, Next, written'.sub = written.sub
               PROVE  written'.turn >= written.turn
    BY DEF vars, stripeSide, usage, observers, Typed, TypeOK
  <2>1. CASE written' = written
    BY <2>1 DEF Typed, TypeOK
  <2>2. ASSUME NEW x \in Syncs, Write(x) PROVE written'.turn >= written.turn
    BY <2>2 DEF Write, TurnInv, Fetched, Typed, TypeOK, Procs
  <2>3. written' = written \/ \E x \in Syncs : Write(x)
    <3> USE DEF observers
    <3>1. ASSUME NEW x \in Syncs, SyncStep(x), ~Write(x) PROVE written' = written
      BY <3>1 DEF SyncStep, Deliver, Reapply, Reconcile, Begin, Fetch, ReadTeam, Skip, Abort
    <3>2. ASSUME NEW p \in Procs, Report(p) PROVE written' = written
      BY <3>2 DEF Report, ReadUsage, Pin, Meter, CatchUp
    <3>3. ASSUME NEW p \in Enders, EndStep(p) \/ Die(p) PROVE written' = written
      BY <3>3 DEF EndStep, End, CancelSub, Clear, Die
    <3> QED BY <3>1, <3>2, <3>3 DEF Next, Subscribe, Change, Accept, Return
  <2> QED BY <2>1, <2>2, <2>3
<1>3. BillingAssumption
  BY BillingAssumption
<1> QED
  BY <1>1, <1>2, <1>3, InitTyped, NextTyped, NextTurn, PTL DEF Spec, NeverOlder

-----------------------------------------------------------------------------
(* Only a report and a rollback touch the row, the meter or a step.         *)
Rest(p) ==
  \/ /\ p \in Syncs
     /\ (\E e, s : Begin(p, e, s)) \/ Fetch(p) \/ ReadTeam(p) \/ Write(p) \/ Skip(p)
  \/ p \in Enders /\ (EndStep(p) \/ Die(p))

Outside ==
  \/ \E s \in Subs : Subscribe(s) \/ (\E status : Change(s, status))
  \/ Accept \/ Return \/ UNCHANGED vars

LEMMA Steps ==
  ASSUME Typed, BillingAssumption, [Next]_vars
  PROVE  \/ Outside
         \/ \E p \in Procs : Rest(p) \/ ReadUsage(p) \/ Pin(p) \/ Meter(p) \/ CatchUp(p)
         \/ \E x \in Syncs : Abort(x)
<1>1. ASSUME NEW x \in Syncs, SyncStep(x) PROVE Rest(x) \/ Abort(x)
  BY <1>1 DEF SyncStep, Deliver, Reapply, Reconcile, Rest
<1>2. ASSUME NEW p \in Enders, EndStep(p) \/ Die(p) PROVE Rest(p)
  BY <1>2 DEF Rest
<1>3. ASSUME NEW p \in Procs, Report(p)
      PROVE  ReadUsage(p) \/ Pin(p) \/ Meter(p) \/ CatchUp(p)
  BY <1>3 DEF Report
<1> QED BY <1>1, <1>2, <1>3 DEF Next, Outside, Procs

LEMMA RestIsQuiet ==
  ASSUME Typed, BillingAssumption, NEW p \in Procs, Rest(p)
  PROVE  /\ UNCHANGED <<reported, pin, metered, undone>>
         /\ UNCHANGED <<held, before>> \/ (held' = Nobody /\ before' = NoUsage)
         /\ at'[p] \notin {"meter", "catch"}
         /\ \A q \in Procs \ {p} : mem'[q] = mem[q] /\ at'[q] = at[q]
         /\ held' = p => at[p] \in {"fetch", "team"}
<1> USE DEF Typed, TypeOK, Procs, BillingAssumption, stripeSide, usage, observers, Goto, Forget
<1>1. ASSUME NEW e, NEW s, p \in Syncs, Begin(p, e, s) PROVE held' = Nobody
  BY <1>1 DEF Begin
<1>2. CASE p \in Syncs
  <2>1. ASSUME NEW e, NEW s, Begin(p, e, s)
        PROVE  /\ UNCHANGED <<reported, pin, metered, undone, held, before>>
               /\ at'[p] = "fetch" /\ held' # p
               /\ \A q \in Procs \ {p} : mem'[q] = mem[q] /\ at'[q] = at[q]
    <3>1. /\ UNCHANGED <<reported, pin, metered, undone, held, before>>
          /\ at' = [at EXCEPT ![p] = "fetch"] /\ lock = Nobody
      BY <2>1 DEF Begin
    <3>2. PICK r : mem' = [mem EXCEPT ![p] = r]
      BY <2>1 DEF Begin
    <3> QED BY <3>1, <3>2
  <2>2. CASE Fetch(p) \/ ReadTeam(p)
    BY <1>2, <2>2 DEF Fetch, ReadTeam
  <2>3. CASE Write(p) \/ Skip(p)
    BY <1>2, <2>3 DEF Write, Skip, Done
  <2> QED BY <1>2, <2>1, <2>2, <2>3 DEF Rest
<1>3. CASE p \notin Syncs
  <2>1. held # p
    BY <1>3
  <2> QED BY <1>3, <2>1 DEF Rest, EndStep, End, CancelSub, Clear, Die, Leave
<1> QED BY <1>2, <1>3

LEMMA OutsideIsQuiet ==
  ASSUME Outside
  PROVE  UNCHANGED <<reported, pin, metered, undone, held, before, at, mem>>
BY DEF Outside, Subscribe, Change, Accept, Return, vars, usage, observers

(* Wherever Proceed takes it, a process is past its step.                   *)
LEMMA ProceedLeaves ==
  ASSUME Typed, BillingAssumption, NEW p \in Procs, Proceed(p)
  PROVE  /\ at'[p] \in {"idle", "write", "cancel"}
         /\ p \in Syncs => at'[p] = "write" /\ mem' = mem
BY DEF Typed, TypeOK, Procs, BillingAssumption, Proceed, Leave, Goto, Forget

-----------------------------------------------------------------------------
(* What counts as reported was metered.                                     *)
LEMMA NextCovered == Typed /\ CoverInv /\ BillingAssumption /\ [Next]_vars => CoverInv'
<1> SUFFICES ASSUME Typed, CoverInv, BillingAssumption, [Next]_vars PROVE CoverInv'
  OBVIOUS
<1>1. ASSUME NEW n, Covered(n), metered \subseteq metered' PROVE Covered(n)'
  BY <1>1 DEF Covered
<1>2. Covered(NoUsage.reported)'
  BY DEF Covered, NoUsage
<1>3. ASSUME metered \subseteq metered', reported' \in {reported, before.reported},
             before'.reported \in {reported, before.reported, NoUsage.reported},
             \A p \in Procs : at'[p] = "catch" => at[p] = "catch" /\ mem'[p] = mem[p]
      PROVE  CoverInv'
  <2>1. Covered(reported)' /\ Covered(before.reported)'
    BY <1>1, <1>2, <1>3 DEF CoverInv, Covered
  <2> QED BY <1>3, <2>1 DEF CoverInv, MeterStep
<1>4. CASE Outside
  BY <1>3, <1>4, OutsideIsQuiet
<1>5. ASSUME NEW p \in Procs, Rest(p) PROVE CoverInv'
  BY <1>3, <1>5, RestIsQuiet
<1>6. ASSUME NEW x \in Syncs, Abort(x) PROVE CoverInv'
  <2>1. \A p \in Procs : at'[p] = "catch" => at[p] = "catch" /\ mem'[p] = mem[p]
    BY <1>6 DEF Abort, Goto, Forget, Typed, TypeOK
  <2> QED BY <1>3, <1>6, <2>1 DEF Abort, NoUsage
<1>7. ASSUME NEW p \in Procs, ReadUsage(p) \/ Pin(p) PROVE CoverInv'
  <2>1. /\ at'[p] # "catch" /\ metered' = metered /\ reported' = reported
        /\ before'.reported \in {reported, before.reported}
    BY <1>7, ProceedLeaves DEF ReadUsage, Pin, Locks, Goto, Typed, TypeOK, usage, observers
  <2> QED BY <1>3, <1>7, <2>1, OthersStay DEF Report
<1>8. ASSUME NEW p \in Procs, Meter(p) PROVE CoverInv'
  <2>1. \A q \in Procs \ {p} : mem'[q] = mem[q] /\ at'[q] = at[q]
    BY <1>8, OthersStay DEF Report
  <2>2. metered \subseteq metered' /\ reported' = reported /\ before' = before
    BY <1>8 DEF Meter, usage
  <2>3. at'[p] = "catch" => MeterStep(p)' \in metered'
    BY <1>8 DEF Meter, MeterStep, Leave, Goto, Typed, TypeOK
  <2> QED BY <1>1, <2>1, <2>2, <2>3 DEF CoverInv, MeterStep
<1>9. ASSUME NEW p \in Procs, CatchUp(p) PROVE CoverInv'
  <2>1. /\ at'[p] # "catch" /\ metered' = metered
        /\ before'.reported \in {reported, before.reported}
    BY <1>9, ProceedLeaves DEF CatchUp, Locks
  <2>2. CASE reported' = reported
    BY <1>3, <1>9, <2>1, <2>2, OthersStay DEF Report
  <2>3. CASE reported' # reported
    <3>1. /\ reported = mem[p].from /\ reported' = mem[p].to /\ MeterStep(p) \in metered
      BY <1>9, <2>3 DEF CatchUp, CoverInv
    <3>2. Covered(reported)'
      <4> SUFFICES ASSUME NEW k \in 1..reported' PROVE \E a \in metered : a[1] < k /\ k <= a[2]
        BY <2>1 DEF Covered
      <4>1. CASE k <= reported
        BY <4>1 DEF CoverInv, Covered, Typed, TypeOK
      <4>2. CASE reported < k
        BY <3>1, <4>2 DEF MeterStep
      <4> QED BY <4>1, <4>2, <3>1 DEF Typed, TypeOK
    <3>3. Covered(before.reported)'
      BY <2>1 DEF CoverInv, Covered
    <3> QED BY <1>9, <2>1, <3>2, <3>3, OthersStay DEF CoverInv, MeterStep, Report
  <2> QED BY <2>2, <2>3
<1> QED BY <1>4, <1>5, <1>6, <1>7, <1>8, <1>9, Steps

(* A unit that counts as reported was counted by Stripe's meter.            *)
THEOREM ReportsAreMetered == Spec => []ReportedIsMetered
<1>1. Init => CoverInv
  BY DEF Init, CoverInv, Covered, NoUsage, Procs
<1>2. CoverInv => ReportedIsMetered
  BY DEF CoverInv, Covered, ReportedIsMetered
<1> QED
  BY <1>1, <1>2, InitTyped, NextTyped, NextCovered, BillingAssumption, PTL DEF Spec

-----------------------------------------------------------------------------
(* A step that moves neither the row, nor the meter, nor a step.            *)
LEMMA QuietBilled ==
  ASSUME Typed, BilledInv, UNCHANGED <<reported, pin, metered, undone>>,
         held' \in {held, Nobody}, held' # Nobody => before' = before,
         held' # Nobody => at'[held] = at[held] /\ mem'[held] = mem[held],
         \A p \in Procs : at'[p] = "meter" => at[p] = "meter" /\ mem'[p] = mem[p]
  PROVE  BilledInv'
<1> SUFFICES ASSUME ~undone PROVE (Chain /\ BilledOnce /\ StepInv /\ HeldInv)'
  BY DEF BilledInv
<1>1. Chain' /\ BilledOnce'
  BY DEF BilledInv, Chain, BilledOnce
<1>2. StepInv'
  BY DEF BilledInv, StepInv, MeterStep
<1>3. HeldInv'
  BY DEF BilledInv, HeldInv, MeterStep
<1> QED BY <1>1, <1>2, <1>3

LEMMA NextBilled ==
  Typed /\ CoverInv /\ BilledInv /\ BillingAssumption /\ [Next]_vars => BilledInv'
<1> SUFFICES ASSUME Typed, CoverInv, BilledInv, BillingAssumption, [Next]_vars PROVE BilledInv'
  OBVIOUS
<1>u. undone => undone'
  <2>1. CASE Outside
    BY <2>1, OutsideIsQuiet
  <2>2. ASSUME NEW p \in Procs, Rest(p) PROVE undone' = undone
    BY <2>2, RestIsQuiet
  <2>3. ASSUME NEW p \in Procs, ReadUsage(p) \/ Pin(p) \/ Meter(p) \/ CatchUp(p)
        PROVE  undone' = undone
    BY <2>3 DEF ReadUsage, Pin, Meter, CatchUp, observers
  <2>4. ASSUME NEW x \in Syncs, Abort(x) PROVE undone => undone'
    BY <2>4 DEF Abort
  <2> QED BY <2>1, <2>2, <2>3, <2>4, Steps
<1> SUFFICES ASSUME ~undone, ~undone' PROVE (Chain /\ BilledOnce /\ StepInv /\ HeldInv)'
  BY <1>u DEF BilledInv
<1> DEFINE Inv == Chain /\ BilledOnce /\ StepInv /\ HeldInv
<1>0. Inv /\ held \in Syncs \cup {Nobody} /\ Nobody \notin Procs /\ Syncs \subseteq Procs
  BY DEF BilledInv, Typed, TypeOK, BillingAssumption, Procs
<1>a. ASSUME BilledInv' PROVE Inv'
  BY <1>a DEF BilledInv
<1>1. CASE Outside
  BY <1>1, <1>a, OutsideIsQuiet, QuietBilled
<1>2. ASSUME NEW p \in Procs, Rest(p) PROVE Inv'
  <2>1. held' # Nobody => held' = held /\ held \in Procs /\ held # p
    BY <1>0, <1>2, RestIsQuiet DEF HeldInv
  <2> QED BY <1>2, <1>a, <2>1, RestIsQuiet, QuietBilled
<1>3. ASSUME NEW x \in Syncs, Abort(x) PROVE Inv'
  <2>1. /\ \A q \in Procs \ {x} : mem'[q] = mem[q] /\ at'[q] = at[q]
        /\ at'[x] = "idle" /\ metered' = metered
    BY <1>0, <1>3 DEF Abort, Goto, Forget, Typed, TypeOK
  <2>2. CASE held # x
    <3>1. UNCHANGED <<held, before, reported, pin, undone>>
      BY <1>3, <2>2 DEF Abort
    <3>2. held # Nobody => held \in Procs \ {x}
      BY <1>0, <2>2
    <3> QED BY <1>a, <2>1, <3>1, <3>2, QuietBilled
  <2>3. CASE held = x
    <3>1. /\ held' = Nobody /\ reported' = before.reported /\ pin' = before.pin
          /\ MeterStep(x) \notin metered
      BY <1>3, <2>3 DEF Abort, MeterStep
    <3>2. /\ before.pin = 0 /\ before.reported = reported /\ pin # 0
          /\ MeterStep(x) = <<reported, pin>>
      BY <1>0, <2>3, <3>1 DEF HeldInv
    <3>3. Chain' /\ BilledOnce'
      BY <1>0, <2>1, <3>1, <3>2 DEF Chain, BilledOnce
    <3>4. StepInv'
      BY <1>0, <2>1, <2>3, <3>1, <3>2 DEF StepInv, MeterStep
    <3> QED BY <3>1, <3>3, <3>4 DEF HeldInv
  <2> QED BY <2>2, <2>3
<1>4. ASSUME NEW p \in Procs, ReadUsage(p) PROVE Inv'
  <2>1. /\ UNCHANGED <<reported, pin, metered, undone, held, before>>
        /\ at[p] \in {"idle", "usage"}
    BY <1>4 DEF ReadUsage, usage, observers
  <2>2. held # Nobody => held \in Procs \ {p}
    BY <1>0, <2>1 DEF HeldInv
  <2>3. \A q \in Procs \ {p} : mem'[q] = mem[q] /\ at'[q] = at[q]
    BY <1>4, OthersStay DEF Report
  <2>4. CASE at'[p] # "meter"
    BY <1>a, <2>1, <2>2, <2>3, <2>4, QuietBilled
  <2>5. CASE at'[p] = "meter"
    <3>1. Seen(p).pin # 0 /\ MeterStep(p)' = <<Seen(p).reported, Seen(p).pin>>
      <4>1. ~Proceed(p)
        BY <2>5, ProceedLeaves
      <4>2. /\ mem' = [mem EXCEPT ![p].from = Seen(p).reported,
                                ![p].to = IF Seen(p).pin # 0 THEN Seen(p).pin ELSE accepted - Included]
            /\ Goto(p, IF Seen(p).pin # 0 THEN "meter" ELSE "pin")
        BY <1>4, <4>1 DEF ReadUsage
      <4>3. Seen(p).pin # 0
        BY <2>5, <4>2 DEF Goto, Typed, TypeOK
      <4> QED BY <4>2, <4>3 DEF MeterStep, Typed, TypeOK
    <3>2. \/ MeterStep(p)' \in metered
          \/ pin # 0 /\ MeterStep(p)' = <<reported, pin>> /\ held \in {Nobody, p}
      <4>1. CASE Unlocked(p)
        BY <3>1, <4>1 DEF Seen, Unlocked
      <4>2. CASE ~Unlocked(p)
        BY <1>0, <3>1, <4>2 DEF Seen, Unlocked, HeldInv
      <4> QED BY <4>1, <4>2
    <3>3. StepInv'
      BY <1>0, <2>1, <2>3, <3>2 DEF StepInv, MeterStep
    <3>4. HeldInv'
      BY <1>0, <2>1, <2>2, <2>3 DEF HeldInv, MeterStep
    <3>5. Chain' /\ BilledOnce'
      BY <1>0, <2>1 DEF Chain, BilledOnce
    <3> QED BY <3>3, <3>4, <3>5
  <2> QED BY <2>4, <2>5
<1>5. ASSUME NEW p \in Procs, Pin(p) PROVE Inv'
  <2>1. /\ UNCHANGED <<reported, metered, undone>> /\ at[p] = "pin" /\ held \in {Nobody, p}
    BY <1>5 DEF Pin, Unlocked, observers
  <2>2. held = Nobody
    BY <1>0, <2>1 DEF HeldInv
  <2>3. \A q \in Procs \ {p} : mem'[q] = mem[q] /\ at'[q] = at[q]
    BY <1>5, OthersStay DEF Report
  <2>4. CASE ~(reported = mem[p].from /\ pin = 0)
    <3>1. UNCHANGED <<pin, held, before>> /\ Proceed(p)
      BY <1>5, <2>4 DEF Pin
    <3> QED BY <1>a, <2>1, <2>2, <2>3, <3>1, ProceedLeaves, QuietBilled
  <2>5. CASE reported = mem[p].from /\ pin = 0
    <3>1. /\ pin' = mem[p].to /\ mem' = mem /\ at'[p] = "meter" /\ Locks(p)
          /\ mem[p].from < mem[p].to /\ pin' \in Nat /\ reported \in Nat
      BY <1>5, <2>1, <2>5 DEF Pin, Goto, Typed, TypeOK, WorkInv
    <3>2. pin' # 0 /\ MeterStep(p)' = <<reported', pin'>> /\ reported' < pin'
      BY <2>1, <2>5, <3>1 DEF MeterStep
    <3>3. \/ held' = Nobody
          \/ held' = p /\ before' = [reported |-> reported, pin |-> pin]
      BY <2>2, <3>1 DEF Locks
    <3>4. Chain' /\ BilledOnce'
      BY <1>0, <2>1, <2>5, <3>2 DEF Chain, BilledOnce
    <3>5. \A q \in Procs \ {p} : at'[q] = "meter" => MeterStep(q)' \in metered'
      BY <1>0, <2>1, <2>3, <2>5 DEF StepInv, MeterStep
    <3>6. StepInv'
      BY <3>2, <3>3, <3>5 DEF StepInv
    <3>7. HeldInv'
      BY <2>1, <2>5, <3>1, <3>2, <3>3 DEF HeldInv
    <3> QED BY <3>4, <3>6, <3>7
  <2> QED BY <2>4, <2>5
<1>6. ASSUME NEW p \in Procs, Meter(p) PROVE Inv'
  <2>1. /\ UNCHANGED <<reported, pin, undone, held, before>> /\ at[p] = "meter"
        /\ metered' \in {metered, metered \cup {MeterStep(p)}} /\ at'[p] # "meter"
        /\ at'[p] = "catch" => mem' = mem
        /\ p \in Syncs => mem' = mem /\ at'[p] \in {"catch", "write"}
    BY <1>6 DEF Meter, MeterStep, Leave, Goto, usage, observers, Typed, TypeOK
  <2>2. \A q \in Procs \ {p} : mem'[q] = mem[q] /\ at'[q] = at[q]
    BY <1>6, OthersStay DEF Report
  <2>3. /\ mem[p].from < mem[p].to /\ mem[p].from \in Nat /\ mem[p].to \in Nat
        /\ MeterStep(p)[1] = mem[p].from /\ MeterStep(p)[2] = mem[p].to
    BY <2>1 DEF Typed, TypeOK, WorkInv, MeterStep
  <2>4. MeterStep(p) \in metered \/ (pin # 0 /\ MeterStep(p) = <<reported, pin>>)
    BY <1>0, <2>1 DEF StepInv
  <2>5. Chain'
    BY <1>0, <2>1, <2>3, <2>4 DEF Chain
  <2>6. BilledOnce'
    BY <1>0, <2>1, <2>3, <2>4 DEF Chain, BilledOnce, Typed, TypeOK
  <2>7. StepInv'
    BY <1>0, <2>1, <2>2 DEF StepInv, MeterStep
  <2>8. HeldInv'
    BY <1>0, <2>1, <2>2 DEF HeldInv, MeterStep
  <2> QED BY <2>5, <2>6, <2>7, <2>8
<1>7. ASSUME NEW p \in Procs, CatchUp(p) PROVE Inv'
  <2>1. /\ metered' = metered /\ undone' = undone /\ at[p] = "catch" /\ held \in {Nobody, p}
        /\ Proceed(p) /\ MeterStep(p) \in metered
    BY <1>7 DEF CatchUp, CoverInv, Unlocked, observers
  <2>2. \A q \in Procs \ {p} : mem'[q] = mem[q] /\ at'[q] = at[q]
    BY <1>7, OthersStay DEF Report
  <2>3. CASE reported # mem[p].from
    <3>1. UNCHANGED <<reported, pin, held, before>>
      BY <1>7, <2>3 DEF CatchUp
    <3>2. StepInv'
      BY <1>0, <2>1, <2>2, <3>1, ProceedLeaves DEF StepInv, MeterStep
    <3>3. HeldInv'
      BY <1>0, <2>1, <2>2, <3>1, ProceedLeaves DEF HeldInv, MeterStep
    <3>4. Chain' /\ BilledOnce'
      BY <1>0, <2>1, <3>1 DEF Chain, BilledOnce
    <3> QED BY <3>2, <3>3, <3>4
  <2>4. CASE reported = mem[p].from
    <3>1. reported' = mem[p].to /\ pin' = 0 /\ Locks(p)
      BY <1>7, <2>4 DEF CatchUp
    <3>2. /\ mem[p].from < mem[p].to /\ mem[p].from \in Nat /\ mem[p].to \in Nat
      BY <2>1 DEF Typed, TypeOK, WorkInv
    <3>3. pin # 0 /\ MeterStep(p) = <<reported, pin>> /\ pin = mem[p].to
      <4>1. MeterStep(p)[2] = mem[p].to
        BY DEF MeterStep
      <4> QED BY <1>0, <2>1, <2>4, <3>2, <4>1 DEF Chain, MeterStep
    <3>4. \A a \in metered : a[1] < a[2] /\ a[2] <= reported'
      <4> SUFFICES ASSUME NEW a \in metered PROVE a[1] < a[2] /\ a[2] <= reported'
        OBVIOUS
      <4>1. a[1] \in Nat /\ a[2] \in Nat
        BY DEF Typed, TypeOK
      <4>2. CASE a[2] <= reported
        BY <1>0, <2>4, <3>1, <3>2, <4>1, <4>2 DEF Chain
      <4>3. CASE a = <<reported, pin>>
        <5>1. a[1] = reported /\ a[2] = pin /\ reported' = pin
          BY <3>1, <3>3, <4>3
        <5> QED BY <1>0, <3>3, <4>1, <5>1 DEF Chain
      <4> QED BY <1>0, <4>2, <4>3 DEF Chain
    <3>5. Chain' /\ BilledOnce'
      BY <1>0, <2>1, <3>1, <3>4 DEF Chain, BilledOnce
    <3>6. StepInv'
      <4>1. \A q \in Procs : at[q] = "meter" => MeterStep(q) \in metered
        BY <1>0, <2>1, <3>3 DEF StepInv
      <4> QED BY <2>1, <2>2, <4>1, ProceedLeaves DEF StepInv, MeterStep
    <3>7. HeldInv'
      <4>1. CASE held' = Nobody
        BY <4>1 DEF HeldInv
      <4>2. CASE held' # Nobody
        <5>1. p \in Syncs /\ held' = p
          BY <1>0, <2>1, <3>1, <4>2 DEF Locks
        <5>2. at'[p] = "write" /\ MeterStep(p)' \in metered'
          BY <2>1, <5>1, ProceedLeaves DEF MeterStep
        <5>3. before'.pin # 0 => <<before'.reported, before'.pin>> \in metered
          BY <1>0, <2>1, <3>1, <3>3, <5>1 DEF Locks, HeldInv
        <5> QED BY <2>1, <5>1, <5>2, <5>3 DEF HeldInv
      <4> QED BY <4>1, <4>2
    <3> QED BY <3>5, <3>6, <3>7
  <2> QED BY <2>3, <2>4
<1> QED BY <1>1, <1>2, <1>3, <1>4, <1>5, <1>6, <1>7, Steps

(* No unit is billed twice, whichever reports overlapped, died or lost an   *)
(* answer, unless a transaction that reported was rolled back.              *)
THEOREM UnitsBilledOnce == Spec => []BilledOnce
<1>1. Init => CoverInv /\ BilledInv
  BY DEF Init, CoverInv, Covered, NoUsage, Procs, BilledInv, Chain, BilledOnce, StepInv, HeldInv
<1>2. BilledInv => BilledOnce
  BY DEF BilledInv, BilledOnce
<1> QED
  BY <1>1, <1>2, InitTyped, NextTyped, NextCovered, NextBilled, BillingAssumption, PTL DEF Spec

-----------------------------------------------------------------------------
(* Why the plan converges.  Every event tells of a subscription that        *)
(* Stripe has, in a state it has reached, its latest one among them, and a  *)
(* subscription is only created after the ones before it have ended.        *)
StripeInv ==
  /\ \A s \in Subs : stripe[s] # "none" => <<s, turn[s]>> \in emitted
  /\ \A e \in emitted : e[2] <= turn[e[1]] /\ stripe[e[1]] # "none"
  /\ \A r, s \in Subs : s < r /\ stripe[r] # "none" => stripe[s] = "canceled"

EndedInv ==
  \A p \in Enders : at[p] \in AtWork =>
    /\ stripe[mem[p].sub] # "none"
    /\ at[p] = "clear" => stripe[mem[p].sub] = "canceled"

Latest(s) == <<s, turn[s]>> \in ledger
PaidFor(s) == stripe[s] = "active" /\ Latest(s) /\ ~clobbered
Decided == {"usage", "pin", "meter", "catch", "write"}

(* What a sync has read of Stripe is no older than its event, nor than any  *)
(* event that was handled, of its subscription or of a later one.           *)
Read(m) ==
  /\ stripe[m.sub] # "none" /\ m.status # "none" /\ m.turn <= turn[m.sub]
  /\ m.turn = turn[m.sub] => m.status = stripe[m.sub]
  /\ m.event # NoEvent => m.event[2] <= m.turn
  /\ Latest(m.sub) => m.turn = turn[m.sub]
  /\ \A e \in ledger : m.sub < e[1] => m.status = "canceled"

(* What it is about to write is the plan of what it read, and the plan of a *)
(* subscription that is paid and whose news was handled.                    *)
Decision(m) ==
  /\ m.status = "active" => m.plan = "paid"
  /\ m.status = "canceled" => m.plan = "free"
  /\ \A s \in Subs : PaidFor(s) => m.sub = s /\ m.plan = "paid"

SyncInv ==
  \A x \in Syncs :
    LET m == mem[x] IN
    /\ at[x] \in Fetched \cup {"fetch"} /\ m.event # NoEvent => m.event[1] = m.sub
    /\ at[x] \in Fetched /\ m.sub # NoSub => Read(m)
    /\ at[x] \in Decided => Decision(m)
    /\ at[x] = "skip" /\ m.sub # NoSub => m.status # "active" /\ team.sub # m.sub

(* The team's row, once the latest event of a subscription was handled.     *)
PlanInv ==
  /\ team.sub = NoSub => team.plan = "free"
  /\ team.sub # NoSub => stripe[team.sub] # "none"
  /\ \A s \in Subs : PaidFor(s) => team.sub = s /\ team.plan = "paid"
  /\ \A s \in Subs :
       stripe[s] = "canceled" /\ Latest(s) /\ team.sub = s => team.plan = "free"

SettledInv == StripeInv /\ EndedInv /\ SyncInv /\ PlanInv

(* A sync holds what it has read until it writes, skips or aborts.          *)
Kept(x) ==
  \/ at'[x] = "idle"
  \/ at'[x] = at[x] /\ mem'[x] = mem[x]
  \/ /\ at[x] \in Decided /\ at'[x] \in Decided
     /\ mem'[x].event = mem[x].event /\ mem'[x].sub = mem[x].sub
     /\ mem'[x].status = mem[x].status /\ mem'[x].turn = mem[x].turn
     /\ mem'[x].plan = mem[x].plan

LEMMA OnlyOwnerFetched ==
  ASSUME Typed, BillingAssumption, NEW x \in Syncs, at[x] \in Fetched \cup {"fetch"},
         NEW y \in Syncs \ {x}
  PROVE  at[y] \notin Fetched \cup {"fetch"}
BY DEF Typed, TypeOK

LEMMA SyncTypes ==
  ASSUME Typed, BillingAssumption, NEW x \in Syncs
  PROVE  /\ mem[x] \in Memory /\ mem[x].turn \in Nat /\ mem[x].status \in Statuses
         /\ mem[x].event # NoEvent => mem[x].event \in emitted /\ mem[x].event[1] \in Subs
                                      /\ mem[x].event[2] \in Nat
         /\ mem[x].sub \in Subs \cup {NoSub} /\ NoSub \notin Subs
         /\ \A s \in Subs : turn[s] \in Nat /\ s \in Nat
         /\ \A e \in emitted : e[1] \in Subs /\ e[2] \in Nat /\ e = <<e[1], e[2]>>
         /\ ledger \subseteq emitted
         /\ at[x] \in Decided \cup {"team"} => mem[x].sub \in Subs
BY DEF Typed, TypeOK, Memory, Events, Procs, BillingAssumption, NoSub, Fetched, Decided

(* A state of Stripe that changes is news that nobody has handled yet.      *)
LEMMA StripeSettled ==
  ASSUME Typed, SettledInv, BillingAssumption,
         NEW s \in Subs, NEW status \in {"active", "past_due", "canceled"},
         Becomes(s, status), stripe[s] # "canceled",
         stripe[s] = "none" => \A r \in Subs : r < s => stripe[r] = "canceled",
         UNCHANGED <<ledger, team, clobbered>>,
         \A x \in Syncs : mem'[x] = mem[x] /\ at'[x] = at[x],
         \A p \in Enders : at'[p] \in AtWork =>
           /\ at[p] \in AtWork /\ mem'[p].sub = mem[p].sub
           /\ at'[p] = "clear" => at[p] = "clear" \/ (mem[p].sub = s /\ status = "canceled")
  PROVE  SettledInv'
<1>0. /\ ledger \subseteq emitted /\ emitted \subseteq Events
      /\ stripe' = [stripe EXCEPT ![s] = status] /\ turn' = [turn EXCEPT ![s] = turn[s] + 1]
      /\ emitted' = emitted \cup {<<s, turn[s] + 1>>}
      /\ stripe \in [Subs -> Statuses] /\ turn \in [Subs -> Nat] /\ Subs \subseteq Nat \ {0}
  BY DEF Becomes, Typed, TypeOK, BillingAssumption
<1>1. /\ stripe'[s] = status /\ status # "none" /\ turn'[s] = turn[s] + 1
      /\ \A r \in Subs \ {s} : stripe'[r] = stripe[r] /\ turn'[r] = turn[r]
  BY <1>0
<1>2. \A r \in Subs : /\ turn[r] \in Nat /\ turn'[r] \in Nat /\ turn[r] <= turn'[r]
                      /\ stripe[r] # "none" => stripe'[r] # "none"
                      /\ stripe[r] = "canceled" => stripe'[r] = "canceled"
                      /\ Latest(r)' => r # s /\ Latest(r)
  <2>1. <<s, turn[s] + 1>> \notin ledger
    <3>1. SUFFICES ASSUME <<s, turn[s] + 1>> \in emitted PROVE FALSE
      BY <1>0
    <3>2. turn[s] + 1 <= turn[s]
      BY <3>1 DEF SettledInv, StripeInv
    <3> QED BY <1>0, <3>2
  <2>2. ASSUME NEW r \in Subs, Latest(r)' PROVE r # s /\ Latest(r)
    BY <1>1, <2>1, <2>2 DEF Latest
  <2>3. ASSUME NEW r \in Subs
        PROVE  turn[r] \in Nat /\ turn'[r] \in Nat /\ turn[r] <= turn'[r]
    BY <1>0, <1>1
  <2> QED BY <1>1, <2>2, <2>3
<1>3. StripeInv'
  <2>1. \A r \in Subs : stripe'[r] # "none" => <<r, turn'[r]>> \in emitted'
    BY <1>0, <1>1 DEF SettledInv, StripeInv
  <2>2. ASSUME NEW e \in emitted' PROVE e[2] <= turn'[e[1]] /\ stripe'[e[1]] # "none"
    <3>1. CASE e \in emitted
      <4>1. e[1] \in Subs /\ e[2] \in Nat /\ e[2] <= turn[e[1]] /\ stripe[e[1]] # "none"
        BY <1>0, <3>1 DEF SettledInv, StripeInv, Events
      <4>2. turn[e[1]] \in Nat /\ turn'[e[1]] \in Nat /\ turn[e[1]] <= turn'[e[1]]
            /\ stripe'[e[1]] # "none"
        BY <1>2, <4>1
      <4> QED BY <4>1, <4>2
    <3>2. CASE e = <<s, turn[s] + 1>>
      BY <1>0, <1>1, <3>2
    <3> QED BY <1>0, <2>2, <3>1, <3>2
  <2>3. ASSUME NEW r \in Subs, NEW q \in Subs, q < r, stripe'[r] # "none"
        PROVE  stripe'[q] = "canceled"
    <3>1. stripe[q] = "canceled"
      BY <1>1, <2>3 DEF SettledInv, StripeInv
    <3> QED BY <1>2, <3>1
  <2> QED BY <2>1, <2>2, <2>3 DEF StripeInv
<1>4. EndedInv'
  <2> SUFFICES ASSUME NEW p \in Enders, at'[p] \in AtWork
               PROVE  /\ stripe'[mem'[p].sub] # "none"
                      /\ at'[p] = "clear" => stripe'[mem'[p].sub] = "canceled"
    BY DEF EndedInv
  <2>1. mem[p].sub \in Subs /\ stripe[mem[p].sub] # "none" /\ mem'[p].sub = mem[p].sub
    BY DEF SettledInv, EndedInv, Typed, WorkInv
  <2>2. at[p] = "clear" => stripe[mem[p].sub] = "canceled"
    BY DEF SettledInv, EndedInv, AtWork
  <2> QED BY <1>1, <1>2, <2>1, <2>2
<1>5. \A r \in Subs : PaidFor(r)' => PaidFor(r)
  BY <1>1, <1>2 DEF PaidFor
<1>6. ASSUME NEW x \in Syncs, mem[x].sub \in Subs, Read(mem[x]) PROVE Read(mem[x])'
  <2>1. mem'[x] = mem[x] /\ mem[x].turn \in Nat
    BY SyncTypes
  <2>2. mem[x].turn <= turn'[mem[x].sub]
    <3>1. PICK r \in Subs : r = mem[x].sub
      BY <1>6
    <3>2. mem[x].turn <= turn[r]
      BY <1>6, <3>1 DEF Read
    <3>3. turn[r] \in Nat /\ turn'[r] \in Nat /\ turn[r] <= turn'[r]
      BY <1>2
    <3>4. mem[x].turn <= turn'[r]
      BY <2>1, <3>2, <3>3
    <3> QED BY <3>1, <3>4
  <2>3. mem[x].turn = turn'[mem[x].sub] => mem[x].status = stripe'[mem[x].sub]
    BY <1>0, <1>1, <1>6, <2>1 DEF Read
  <2>4. Latest(mem[x].sub)' => mem[x].turn = turn'[mem[x].sub]
    <3> SUFFICES ASSUME Latest(mem[x].sub)' PROVE mem[x].turn = turn'[mem[x].sub]
      OBVIOUS
    <3>1. Latest(mem[x].sub)' = (<<mem[x].sub, turn'[mem[x].sub]>> \in ledger)
      BY <2>1 DEF Latest
    <3>2. mem[x].sub # s
      <4>1. PICK r \in Subs : r = mem[x].sub
        BY <1>6
      <4>2. <<r, turn'[r]>> \in ledger
        BY <3>1, <4>1
      <4>3. Latest(r)'
        BY <4>2 DEF Latest
      <4> QED BY <1>2, <4>1, <4>3
    <3>3. turn'[mem[x].sub] = turn[mem[x].sub]
      BY <1>1, <1>6, <3>2
    <3>4. Latest(mem[x].sub)
      BY <3>1, <3>3 DEF Latest
    <3> QED BY <1>6, <3>3, <3>4 DEF Read
  <2> QED BY <1>2, <1>6, <2>1, <2>2, <2>3, <2>4 DEF Read
<1>7. SyncInv'
  <2> SUFFICES ASSUME NEW x \in Syncs
               PROVE  /\ at[x] \in Fetched \cup {"fetch"} /\ mem[x].event # NoEvent
                           => mem[x].event[1] = mem[x].sub
                      /\ at[x] \in Fetched /\ mem[x].sub # NoSub => Read(mem[x])'
                      /\ at[x] \in Decided => Decision(mem[x])'
                      /\ at[x] = "skip" /\ mem[x].sub # NoSub
                           => mem[x].status # "active" /\ team.sub # mem[x].sub
    BY DEF SyncInv
  <2>1. at[x] \in Fetched /\ mem[x].sub # NoSub => Read(mem[x])'
    BY <1>6, SyncTypes DEF SettledInv, SyncInv
  <2>2. at[x] \in Decided => Decision(mem[x])'
    BY <1>5 DEF SettledInv, SyncInv, Decision
  <2> QED BY <2>1, <2>2 DEF SettledInv, SyncInv
<1>8. PlanInv'
  <2>1. ASSUME NEW r \in Subs, stripe'[r] = "canceled", Latest(r)'
        PROVE  stripe[r] = "canceled" /\ Latest(r)
    BY <1>1, <1>2, <2>1
  <2>2. team.sub # NoSub => stripe'[team.sub] # "none"
    BY <1>2 DEF SettledInv, PlanInv, Typed, TypeOK
  <2>3. /\ team.sub = NoSub => team.plan = "free"
        /\ \A r \in Subs : PaidFor(r)' => team.sub = r /\ team.plan = "paid"
    BY <1>5 DEF SettledInv, PlanInv
  <2>4. \A r \in Subs : stripe'[r] = "canceled" /\ Latest(r)' /\ team.sub = r
                         => team.plan = "free"
    BY <2>1 DEF SettledInv, PlanInv
  <2> QED BY <2>2, <2>3, <2>4 DEF PlanInv
<1> QED BY <1>3, <1>4, <1>7, <1>8 DEF SettledInv

(* A step that changes neither Stripe, nor the row, nor the ledger.         *)
LEMMA QuietSettled ==
  ASSUME Typed, SettledInv, BillingAssumption,
         UNCHANGED <<stripe, turn, emitted, ledger, team, clobbered>>,
         \A x \in Syncs : Kept(x),
         \A p \in Enders : at'[p] \in AtWork =>
           \/ mem'[p].sub = team.sub /\ team.sub # NoSub
              /\ (at'[p] = "clear" => stripe[team.sub] = "canceled")
           \/ at[p] \in AtWork /\ mem'[p].sub = mem[p].sub
              /\ (at'[p] = "clear" => at[p] = "clear")
  PROVE  SettledInv'
<1>1. StripeInv' /\ PlanInv'
  BY DEF SettledInv, StripeInv, PlanInv, PaidFor, Latest
<1>2. EndedInv'
  BY DEF SettledInv, EndedInv, PlanInv, AtWork
<1>3. SyncInv'
  <2> SUFFICES ASSUME NEW x \in Syncs
               PROVE  /\ at'[x] \in Fetched \cup {"fetch"} /\ mem'[x].event # NoEvent
                           => mem'[x].event[1] = mem'[x].sub
                      /\ at'[x] \in Fetched /\ mem'[x].sub # NoSub => Read(mem[x])'
                      /\ at'[x] \in Decided => Decision(mem[x])'
                      /\ at'[x] = "skip" /\ mem'[x].sub # NoSub
                           => mem'[x].status # "active" /\ team'.sub # mem'[x].sub
    BY DEF SyncInv
  <2>1. /\ at[x] \in Fetched \cup {"fetch"} /\ mem[x].event # NoEvent
             => mem[x].event[1] = mem[x].sub
        /\ at[x] \in Fetched /\ mem[x].sub # NoSub => Read(mem[x])
        /\ at[x] \in Decided => Decision(mem[x])
        /\ at[x] = "skip" /\ mem[x].sub # NoSub
             => mem[x].status # "active" /\ team.sub # mem[x].sub
    BY DEF SettledInv, SyncInv
  <2>2. CASE at'[x] = "idle"
    BY <2>2 DEF Fetched, Decided
  <2>3. ASSUME at'[x] # "idle"
        PROVE  /\ mem'[x].event = mem[x].event /\ mem'[x].sub = mem[x].sub
               /\ mem'[x].status = mem[x].status /\ mem'[x].turn = mem[x].turn
               /\ mem'[x].plan = mem[x].plan
               /\ at'[x] = at[x] \/ (at[x] \in Decided /\ at'[x] \in Decided)
    BY <2>3 DEF Kept
  <2>4. Read(mem[x]) /\ at'[x] # "idle" => Read(mem[x])'
    BY <2>3 DEF Read, Latest
  <2>5. Decision(mem[x]) /\ at'[x] # "idle" => Decision(mem[x])'
    BY <2>3 DEF Decision, PaidFor, Latest
  <2>6. "idle" \notin Fetched \cup {"fetch"} /\ Decided \subseteq Fetched /\ "skip" \notin Decided
    BY DEF Fetched, Decided
  <2>7. CASE at'[x] = at[x] /\ at'[x] # "idle"
    BY <2>1, <2>3, <2>4, <2>5, <2>7
  <2>8. CASE at[x] \in Decided /\ at'[x] \in Decided
    BY <2>1, <2>3, <2>4, <2>5, <2>6, <2>8
  <2> QED BY <2>2, <2>3, <2>7, <2>8
<1> QED BY <1>1, <1>2, <1>3 DEF SettledInv

(* A step of one sync, which alone has the lock.                            *)
LEMMA SyncSettled ==
  ASSUME Typed, SettledInv, BillingAssumption, NEW x \in Syncs,
         UNCHANGED <<stripe, turn, emitted, ledger, team, clobbered>>,
         \A q \in Procs \ {x} : mem'[q] = mem[q] /\ at'[q] = at[q],
         at'[x] \in Fetched \cup {"fetch"} /\ mem'[x].event # NoEvent
           => mem'[x].event[1] = mem'[x].sub,
         at'[x] \in Fetched /\ mem'[x].sub # NoSub => Read(mem[x])',
         at'[x] \in Decided => Decision(mem[x])',
         at'[x] = "skip" /\ mem'[x].sub # NoSub
           => mem'[x].status # "active" /\ team.sub # mem'[x].sub
  PROVE  SettledInv'
<1>1. StripeInv' /\ PlanInv'
  BY DEF SettledInv, StripeInv, PlanInv, PaidFor, Latest
<1>2. EndedInv'
  BY DEF SettledInv, EndedInv, BillingAssumption, Procs
<1>3. ASSUME NEW y \in Syncs \ {x}
      PROVE  /\ at'[y] = at[y] /\ mem'[y] = mem[y]
             /\ Read(mem[y]) => Read(mem[y])'
             /\ Decision(mem[y]) => Decision(mem[y])'
  BY <1>3 DEF Procs, Read, Decision, PaidFor, Latest
<1>4. SyncInv'
  BY <1>3 DEF SettledInv, SyncInv
<1> QED BY <1>1, <1>2, <1>4 DEF SettledInv

LEMMA FetchSettled ==
  ASSUME Typed, SettledInv, BillingAssumption, NEW x \in Syncs, Fetch(x)
  PROVE  SettledInv'
<1>1. /\ UNCHANGED <<stripe, turn, emitted, ledger, team, clobbered>>
      /\ \A q \in Procs \ {x} : mem'[q] = mem[q] /\ at'[q] = at[q]
      /\ at[x] = "fetch" /\ (mem[x].event # NoEvent => mem[x].event[1] = mem[x].sub)
  <2>1. \A q \in Procs \ {x} : mem'[q] = mem[q] /\ at'[q] = at[q]
    BY OthersStay DEF SyncStep, Procs
  <2> QED BY <2>1 DEF Fetch, stripeSide, observers, SettledInv, SyncInv
<1>2. CASE mem' = mem /\ mem[x].sub = NoSub /\ at'[x] = "skip"
  BY <1>1, <1>2, SyncSettled DEF Decided
<1>3. CASE at'[x] = "team" /\ \E s \in Existing :
             /\ s = mem[x].sub \/ mem[x].sub = NoSub
             /\ mem' = [mem EXCEPT ![x].sub = s, ![x].status = stripe[s], ![x].turn = turn[s]]
  <2>1. PICK s \in Existing :
             /\ s = mem[x].sub \/ mem[x].sub = NoSub
             /\ mem' = [mem EXCEPT ![x].sub = s, ![x].status = stripe[s], ![x].turn = turn[s]]
    BY <1>3
  <2>2. mem' = [mem EXCEPT ![x] = [mem[x] EXCEPT !.sub = s, !.status = stripe[s], !.turn = turn[s]]]
        /\ mem[x] \in Memory /\ mem \in [Procs -> Memory] /\ x \in Procs
    BY <2>1 DEF Typed, TypeOK, Memory, Procs
  <2>3. /\ mem'[x].sub = s /\ mem'[x].status = stripe[s] /\ mem'[x].turn = turn[s]
        /\ mem'[x].event = mem[x].event
    BY <2>2 DEF Memory
  <2>4. mem[x].event # NoEvent => mem[x].event[1] = s
    <3> SUFFICES ASSUME mem[x].event # NoEvent PROVE mem[x].event[1] = s
      OBVIOUS
    <3>1. mem[x].event[1] = mem[x].sub /\ mem[x].event[1] \in Subs /\ NoSub \notin Subs
      BY <1>1, SyncTypes
    <3> QED BY <2>1, <3>1
  <2>5. Read(mem[x])'
    <3>1. s \in Subs /\ stripe[s] # "none" /\ turn[s] \in Nat
      BY SyncTypes DEF Existing
    <3>2. mem[x].event # NoEvent => mem[x].event[2] <= turn[s]
      BY <2>4, SyncTypes DEF SettledInv, StripeInv
    <3>3. \A e \in ledger : s < e[1] => stripe[s] = "canceled"
      BY <3>1, SyncTypes DEF SettledInv, StripeInv
    <3> QED BY <1>1, <2>3, <3>1, <3>2, <3>3 DEF Read, Latest
  <2> QED BY <1>1, <1>3, <2>3, <2>4, <2>5, SyncSettled DEF Decided
<1>4. (mem' = mem /\ mem[x].sub = NoSub /\ Goto(x, "skip"))
      \/ (Goto(x, "team") /\ \E s \in Existing :
             /\ s = mem[x].sub \/ mem[x].sub = NoSub
             /\ mem' = [mem EXCEPT ![x].sub = s, ![x].status = stripe[s], ![x].turn = turn[s]])
  BY DEF Fetch
<1> QED BY <1>2, <1>3, <1>4 DEF Goto, Typed, TypeOK, Procs

LEMMA ReadTeamSettled ==
  ASSUME Typed, SettledInv, BillingAssumption, NEW x \in Syncs, ReadTeam(x)
  PROVE  SettledInv'
<1>1. /\ UNCHANGED <<stripe, turn, emitted, ledger, team, clobbered>>
      /\ \A q \in Procs \ {x} : mem'[q] = mem[q] /\ at'[q] = at[q]
  <2>1. \A q \in Procs \ {x} : mem'[q] = mem[q] /\ at'[q] = at[q]
    BY OthersStay DEF SyncStep, Procs
  <2> QED BY <2>1 DEF ReadTeam, stripeSide, observers
<1>2. /\ mem'[x].event = mem[x].event /\ mem'[x].sub = mem[x].sub
      /\ mem'[x].status = mem[x].status /\ mem'[x].turn = mem[x].turn
      /\ mem'[x].plan = Plan(mem[x].status)
  BY DEF ReadTeam, Typed, TypeOK, Procs
<1>3. /\ at[x] = "team" /\ mem[x].sub \in Subs /\ NoSub \notin Subs /\ Read(mem[x])
      /\ mem[x].event # NoEvent => mem[x].event[1] = mem[x].sub
  BY SyncTypes DEF ReadTeam, SettledInv, SyncInv, Fetched, Decided
<1>4. Read(mem[x])'
  BY <1>1, <1>2, <1>3 DEF Read, Latest
<1>5. \/ at'[x] = "skip" /\ mem[x].status # "active" /\ team.sub \notin {NoSub, mem[x].sub}
      \/ at'[x] \in Decided /\ ~(mem[x].status # "active" /\ team.sub \notin {NoSub, mem[x].sub})
  BY DEF ReadTeam, Goto, Decided, Typed, TypeOK, Procs
<1>6. at'[x] \in Decided => Decision(mem[x])'
  <2> SUFFICES ASSUME at'[x] \in Decided PROVE Decision(mem[x])'
    OBVIOUS
  <2>1. /\ mem[x].status = "active" => Plan(mem[x].status) = "paid"
        /\ mem[x].status = "canceled" => Plan(mem[x].status) = "free"
    BY DEF Plan
  <2>2. ASSUME NEW s \in Subs, PaidFor(s)
        PROVE  mem[x].sub = s /\ Plan(mem[x].status) = "paid"
    <3>1. stripe[s] = "active" /\ <<s, turn[s]>> \in ledger /\ team.sub = s /\ s \in Nat
          /\ mem[x].sub \in Nat
      BY <1>3, <2>2, SyncTypes DEF PaidFor, Latest, SettledInv, PlanInv
    <3>2. CASE mem[x].sub = s
      BY <1>3, <2>1, <3>1, <3>2 DEF Read, Latest
    <3>3. CASE mem[x].sub < s
      <4>1. mem[x].status = "canceled"
        BY <1>3, <3>1, <3>3 DEF Read
      <4>2. at'[x] = "skip"
        BY <1>3, <1>5, <3>1, <3>3, <4>1
      <4> QED BY <4>2 DEF Decided
    <3>4. CASE s < mem[x].sub
      <4>1. stripe[s] = "canceled"
        BY <1>3, <3>4 DEF Read, SettledInv, StripeInv
      <4> QED BY <3>1, <4>1
    <3> QED BY <3>1, <3>2, <3>3, <3>4
  <2> QED BY <1>1, <1>2, <2>1, <2>2 DEF Decision, PaidFor, Latest
<1> QED BY <1>1, <1>2, <1>3, <1>4, <1>5, <1>6, SyncSettled DEF Decided

(* The transaction of a sync ends: what it says is handled, is written.     *)
LEMMA DoneSettled ==
  ASSUME Typed, SettledInv, BillingAssumption, NEW x \in Syncs, Write(x) \/ Skip(x)
  PROVE  SettledInv'
<1>1. /\ UNCHANGED <<stripe, turn, emitted, clobbered>>
      /\ ledger' = ledger \cup ({mem[x].event} \ {NoEvent})
      /\ \A q \in Procs \ {x} : mem'[q] = mem[q] /\ at'[q] = at[q]
      /\ at'[x] = "idle" /\ at[x] \in {"write", "skip"}
  <2>1. \A q \in Procs \ {x} : mem'[q] = mem[q] /\ at'[q] = at[q]
    BY OthersStay DEF SyncStep, Procs
  <2> QED BY <2>1 DEF Write, Skip, Done, Goto, stripeSide, Typed, TypeOK, Procs
<1>2. \A y \in Syncs : at'[y] \notin Fetched \cup {"fetch"}
  <2>1. at[x] \in Fetched
    BY <1>1 DEF Fetched
  <2>2. \A y \in Syncs \ {x} : at[y] \notin Fetched \cup {"fetch"}
    BY <2>1, OnlyOwnerFetched
  <2>3. \A y \in Syncs \ {x} : at'[y] = at[y]
    BY <1>1 DEF Procs
  <2>4. "idle" \notin Fetched \cup {"fetch"}
    BY DEF Fetched
  <2> QED BY <1>1, <2>2, <2>3, <2>4
<1>3. SyncInv'
  BY <1>2 DEF SyncInv, Fetched, Decided
<1>4. StripeInv'
  BY <1>1 DEF SettledInv, StripeInv
<1>5. EndedInv'
  BY <1>1 DEF SettledInv, EndedInv, BillingAssumption, Procs
<1>6. /\ mem[x].event # NoEvent => mem[x].event[1] = mem[x].sub /\ mem[x].sub \in Subs
      /\ mem[x].sub # NoSub => Read(mem[x])
      /\ at[x] = "write" => Decision(mem[x]) /\ mem[x].sub \in Subs
      /\ at[x] = "skip" /\ mem[x].sub # NoSub => mem[x].status # "active" /\ team.sub # mem[x].sub
      /\ NoSub \notin Subs
  BY <1>1, SyncTypes DEF SettledInv, SyncInv, Fetched, Decided
(* What is handled now was handled before, or is what the sync has read.    *)
<1>7. ASSUME NEW s \in Subs, Latest(s)'
      PROVE  \/ Latest(s)
             \/ /\ mem[x].sub = s /\ mem[x].turn = turn[s] /\ mem[x].status = stripe[s]
                /\ mem[x].event # NoEvent
  <2>1. <<s, turn[s]>> \in ledger \/ (mem[x].event = <<s, turn[s]>> /\ mem[x].event # NoEvent)
    BY <1>1, <1>7 DEF Latest
  <2>2. CASE mem[x].event = <<s, turn[s]>> /\ mem[x].event # NoEvent
    <3>1. mem[x].sub = s /\ mem[x].event[2] = turn[s] /\ Read(mem[x]) /\ turn[s] \in Nat
          /\ mem[x].turn \in Nat
      BY <1>6, <2>2, SyncTypes
    <3>2. mem[x].turn = turn[s]
      BY <2>2, <3>1 DEF Read
    <3> QED BY <2>2, <3>1, <3>2 DEF Read
  <2> QED BY <2>1, <2>2 DEF Latest
<1>8. CASE Skip(x)
  <2>1. team' = team /\ at[x] = "skip"
    BY <1>8 DEF Skip
  <2>2. ASSUME NEW s \in Subs, PaidFor(s)' PROVE team.sub = s /\ team.plan = "paid"
    <3>1. stripe[s] = "active" /\ Latest(s)' /\ ~clobbered
      BY <1>1, <2>2 DEF PaidFor
    <3>2. Latest(s)
      BY <1>6, <1>7, <2>1, <3>1
    <3> QED BY <3>1, <3>2 DEF SettledInv, PlanInv, PaidFor
  <2>3. ASSUME NEW s \in Subs, stripe[s] = "canceled", Latest(s)', team.sub = s
        PROVE  team.plan = "free"
    <3>1. Latest(s)
      BY <1>6, <1>7, <2>1, <2>3
    <3> QED BY <2>3, <3>1 DEF SettledInv, PlanInv
  <2>4. /\ team.sub = NoSub => team.plan = "free"
        /\ team.sub # NoSub => stripe[team.sub] # "none"
    BY DEF SettledInv, PlanInv
  <2>5. PlanInv'
    BY <1>1, <2>1, <2>2, <2>3, <2>4 DEF PlanInv
  <2> QED BY <1>3, <1>4, <1>5, <2>5 DEF SettledInv
<1>9. CASE Write(x)
  <2>1. /\ at[x] = "write" /\ team'.sub = mem[x].sub /\ team'.plan = mem[x].plan
        /\ mem[x].sub \in Subs /\ NoSub \notin Subs /\ Read(mem[x]) /\ Decision(mem[x])
    BY <1>6, <1>9 DEF Write
  <2>2. ASSUME NEW s \in Subs, PaidFor(s)' PROVE mem[x].sub = s /\ mem[x].plan = "paid"
    <3>1. stripe[s] = "active" /\ Latest(s)' /\ ~clobbered
      BY <1>1, <2>2 DEF PaidFor
    <3>2. CASE Latest(s)
      BY <2>1, <3>1, <3>2 DEF Decision, PaidFor
    <3>3. CASE mem[x].sub = s /\ mem[x].status = stripe[s]
      BY <2>1, <3>1, <3>3 DEF Decision
    <3> QED BY <1>7, <3>1, <3>2, <3>3
  <2>3. ASSUME NEW s \in Subs, stripe[s] = "canceled", Latest(s)', mem[x].sub = s
        PROVE  mem[x].plan = "free"
    <3>1. mem[x].status = "canceled"
      BY <1>7, <2>1, <2>3 DEF Read
    <3> QED BY <2>1, <3>1 DEF Decision
  <2>4. team'.sub # NoSub /\ stripe[team'.sub] # "none"
    BY <2>1 DEF Read
  <2>5. PlanInv'
    BY <1>1, <2>1, <2>2, <2>3, <2>4 DEF PlanInv
  <2> QED BY <1>3, <1>4, <1>5, <2>5 DEF SettledInv
<1> QED BY <1>8, <1>9

(* A caller clears the row of a subscription that has ended; if the row has *)
(* moved on to a newer one, that is remembered.                             *)
LEMMA ClearSettled ==
  ASSUME Typed, SettledInv, BillingAssumption, NEW p \in Enders, Clear(p)
  PROVE  SettledInv'
<1>1. /\ UNCHANGED <<stripe, turn, emitted, ledger>> /\ team' = Free
      /\ clobbered' = (clobbered \/ team.sub \notin {NoSub, mem[p].sub})
      /\ at[p] = "clear" /\ at'[p] = "over"
      /\ \A q \in Procs \ {p} : mem'[q] = mem[q] /\ at'[q] = at[q]
  <2>1. \A q \in Procs \ {p} : mem'[q] = mem[q] /\ at'[q] = at[q]
    BY OthersStay DEF EndStep, Procs
  <2> QED BY <2>1 DEF Clear, Leave, Goto, stripeSide, Typed, TypeOK, Procs
<1>2. stripe[mem[p].sub] = "canceled"
  BY <1>1 DEF SettledInv, EndedInv, AtWork
<1>3. \A s \in Subs : ~PaidFor(s)'
  <2> SUFFICES ASSUME NEW s \in Subs, PaidFor(s)' PROVE FALSE
    OBVIOUS
  <2>1. PaidFor(s) /\ stripe[s] = "active" /\ ~clobbered'
    BY <1>1 DEF PaidFor, Latest
  <2>2. team.sub = s /\ NoSub \notin Subs
    BY <2>1, BillingAssumption DEF SettledInv, PlanInv, NoSub
  <2> QED BY <1>1, <1>2, <2>1, <2>2
<1>4. PlanInv'
  BY <1>1, <1>3 DEF PlanInv, Free
<1>5. StripeInv'
  BY <1>1 DEF SettledInv, StripeInv
<1>6. EndedInv'
  BY <1>1 DEF SettledInv, EndedInv, AtWork, Procs
<1>7. ASSUME NEW y \in Syncs
      PROVE  /\ at'[y] = at[y] /\ mem'[y] = mem[y]
             /\ Read(mem[y]) => Read(mem[y])'
             /\ Decision(mem[y]) => Decision(mem[y])'
             /\ team'.sub = NoSub
  BY <1>1, <1>3 DEF Procs, BillingAssumption, Read, Decision, Latest, Free
<1>8. SyncInv'
  BY <1>7 DEF SettledInv, SyncInv
<1> QED BY <1>4, <1>5, <1>6, <1>8 DEF SettledInv

LEMMA NextSettled == Typed /\ SettledInv /\ BillingAssumption /\ [Next]_vars => SettledInv'
<1> SUFFICES ASSUME Typed, SettledInv, BillingAssumption, [Next]_vars PROVE SettledInv'
  OBVIOUS
<1> USE DEF stripeSide, observers
<1>1. ASSUME NEW s \in Subs, Subscribe(s) PROVE SettledInv'
  <2>1. /\ Becomes(s, "active") /\ stripe[s] = "none" /\ \A r \in Subs : r < s => stripe[r] = "canceled"
        /\ UNCHANGED <<ledger, team, clobbered, mem, at>>
    BY <1>1 DEF Subscribe
  <2> QED BY <2>1, StripeSettled
<1>2. ASSUME NEW s \in Subs, NEW status \in {"active", "past_due", "canceled"}, Change(s, status)
      PROVE  SettledInv'
  <2>1. Becomes(s, status) /\ stripe[s] \in {"active", "past_due"}
        /\ UNCHANGED <<ledger, team, clobbered, mem, at>>
    BY <1>2 DEF Change
  <2> QED BY <2>1, StripeSettled
<1>3. CASE Accept \/ Return \/ UNCHANGED vars
  <2>1. UNCHANGED <<stripe, turn, emitted, ledger, team, clobbered, mem, at>>
    BY <1>3 DEF Accept, Return, vars
  <2> QED BY <2>1, QuietSettled DEF Kept
<1>4. ASSUME NEW x \in Syncs, SyncStep(x) PROVE SettledInv'
  <2>1. \A q \in Procs \ {x} : mem'[q] = mem[q] /\ at'[q] = at[q]
    BY <1>4, OthersStay DEF Procs
  <2>2. ASSUME NEW event, NEW s, event # NoEvent => event[1] = s, Begin(x, event, s)
        PROVE  SettledInv'
    <3>1. UNCHANGED <<stripe, turn, emitted, ledger, team, clobbered>> /\ at'[x] = "fetch"
          /\ mem'[x] = [Blank EXCEPT !.event = event, !.sub = s]
      BY <2>2 DEF Begin, Goto, Typed, TypeOK, Procs
    <3>2. mem'[x].event = event /\ mem'[x].sub = s
      BY <3>1 DEF Blank
    <3> QED BY <2>1, <2>2, <3>1, <3>2, SyncSettled DEF Fetched, Decided
  <2>3. ASSUME NEW e \in emitted, Deliver(x, e) PROVE SettledInv'
    BY <2>2, <2>3 DEF Deliver
  <2>4. (\E s \in Subs : Reapply(x, s)) \/ Reconcile(x) => SettledInv'
    BY <2>2 DEF Reapply, Reconcile
  <2>5. CASE Abort(x)
    <3>1. UNCHANGED <<stripe, turn, emitted, ledger, team, clobbered>> /\ at'[x] = "idle"
      BY <2>5 DEF Abort, Goto, Typed, TypeOK, Procs
    <3>2. \A p \in Enders : at'[p] = at[p] /\ mem'[p] = mem[p]
      BY <2>1 DEF BillingAssumption, Procs
    <3>3. \A y \in Syncs : Kept(y)
      BY <2>1, <3>1 DEF Kept, Procs
    <3> QED BY <3>1, <3>2, <3>3, QuietSettled
  <2> QED BY <1>4, <2>3, <2>4, <2>5, FetchSettled, ReadTeamSettled, DoneSettled DEF SyncStep
<1>5. ASSUME NEW p \in Procs, Report(p) PROVE SettledInv'
  <2>1. \A q \in Procs \ {p} : mem'[q] = mem[q] /\ at'[q] = at[q]
    BY <1>5, OthersStay
  <2>2. UNCHANGED <<stripe, turn, emitted, ledger, team, clobbered>>
    BY <1>5 DEF Report, ReadUsage, Pin, Meter, CatchUp
  <2>3. p \in Syncs => Kept(p)
    BY <1>5 DEF Report, ReadUsage, Pin, Meter, CatchUp, Proceed, Goto, Leave, Kept, Decided,
                Typed, TypeOK, Procs, BillingAssumption
  <2>4. p \in Enders /\ at'[p] \in AtWork =>
          at[p] \in AtWork /\ mem'[p].sub = mem[p].sub /\ at'[p] # "clear"
    BY <1>5 DEF Report, ReadUsage, Pin, Meter, CatchUp, Proceed, Goto, Leave, AtWork,
                Typed, TypeOK, Procs, BillingAssumption
  <2>5. \A y \in Syncs : Kept(y)
    BY <2>1, <2>3 DEF Kept, Procs
  <2> QED BY <2>1, <2>2, <2>4, <2>5, QuietSettled DEF Procs
<1>6. ASSUME NEW p \in Enders, EndStep(p) \/ Die(p) PROVE SettledInv'
  <2>1. \A q \in Procs \ {p} : mem'[q] = mem[q] /\ at'[q] = at[q]
    BY <1>6, OthersStay DEF Procs
  <2>2. \A x \in Syncs : mem'[x] = mem[x] /\ at'[x] = at[x] /\ x # p
    BY <2>1 DEF BillingAssumption, Procs
  <2>3. \A x \in Syncs : Kept(x)
    BY <2>2 DEF Kept
  <2>4. ASSUME NEW fraud \in BOOLEAN, End(p, fraud) PROVE SettledInv'
    <3>1. UNCHANGED <<stripe, turn, emitted, ledger, team, clobbered>> /\ team.sub # NoSub
          /\ mem'[p].sub = team.sub /\ (at'[p] = "clear" => stripe[team.sub] = "canceled")
      BY <2>4 DEF End, Goto, Blank, Typed, TypeOK, Procs
    <3> QED BY <2>1, <2>3, <3>1, QuietSettled DEF Procs
  <2>5. ASSUME UNCHANGED <<stripe, turn, emitted, ledger, team, clobbered>>, at'[p] = "over"
        PROVE  SettledInv'
    BY <2>1, <2>3, <2>5, QuietSettled DEF Procs, AtWork
  <2>6. CASE CancelSub(p)
    <3>1. CASE stripe[mem[p].sub] # "canceled"
      <4>1. PICK s \in Subs : s = mem[p].sub
        BY <2>6 DEF CancelSub, Typed, WorkInv, AtWork
      <4>2. stripe[s] # "none" /\ stripe[s] # "canceled" /\ at[p] \in AtWork
        BY <2>6, <3>1, <4>1 DEF CancelSub, SettledInv, EndedInv, AtWork
      <4>3. Becomes(s, "canceled") /\ UNCHANGED <<ledger, team, clobbered, mem>> /\ at'[p] = "clear"
        BY <2>6, <3>1, <4>1 DEF CancelSub, Goto, Typed, TypeOK, Procs
      <4> QED BY <2>1, <2>2, <4>1, <4>2, <4>3, StripeSettled DEF Procs
    <3>2. CASE stripe[mem[p].sub] = "canceled"
      BY <2>5, <2>6, <3>2 DEF CancelSub, Leave, Goto, Typed, TypeOK, Procs
    <3> QED BY <3>1, <3>2
  <2>7. CASE Die(p)
    BY <2>5, <2>7 DEF Die, Leave, Goto, Typed, TypeOK, Procs
  <2> QED BY <1>6, <2>4, <2>6, <2>7, ClearSettled DEF EndStep
<1> QED
  BY <1>1, <1>2, <1>3, <1>4, <1>5, <1>6 DEF Next, vars

(* Events arrive in any order, twice, and after a rollback; once the last   *)
(* is handled the team has the plan it pays for, and no other.              *)
THEOREM PlanConverges == Spec => []Converges
<1>1. Init /\ BillingAssumption => SettledInv
  <2> SUFFICES ASSUME Init, BillingAssumption PROVE SettledInv
    OBVIOUS
  <2>1. /\ \A s \in Subs : stripe[s] = "none"
        /\ \A p \in Procs : at[p] = "idle"
        /\ emitted = {} /\ ledger = {} /\ team.sub = NoSub /\ team.plan = "free"
    BY DEF Init, Free
  <2> QED
    BY <2>1 DEF SettledInv, StripeInv, EndedInv, SyncInv, PlanInv, PaidFor, AtWork, Fetched,
                Decided, Procs
<1>2. Typed /\ SettledInv /\ BillingAssumption => Converges
  <2> SUFFICES ASSUME Typed, SettledInv, BillingAssumption, emitted \subseteq ledger, ~clobbered
               PROVE  /\ (\E s \in Subs : stripe[s] = "active") => team.plan = "paid"
                      /\ (\A s \in Subs : ~Lives(stripe[s])) => team.plan = "free"
    BY DEF Converges
  <2>1. \A s \in Subs : stripe[s] # "none" => Latest(s)
    BY DEF SettledInv, StripeInv, Latest
  <2>2. ASSUME NEW s \in Subs, stripe[s] = "active" PROVE team.plan = "paid"
    BY <2>1, <2>2 DEF SettledInv, PlanInv, PaidFor
  <2>3. ASSUME \A s \in Subs : ~Lives(stripe[s]) PROVE team.plan = "free"
    <3>1. CASE team.sub = NoSub
      BY <3>1 DEF SettledInv, PlanInv
    <3>2. CASE team.sub # NoSub
      <4>1. PICK s \in Subs : s = team.sub
        BY <3>2 DEF Typed, TypeOK
      <4>2. stripe[s] \in Statuses /\ stripe[s] # "none" /\ ~Lives(stripe[s])
        BY <2>3, <3>2, <4>1 DEF SettledInv, PlanInv, Typed, TypeOK
      <4>3. stripe[s] = "canceled" /\ Latest(s)
        BY <2>1, <4>2 DEF Statuses, Lives
      <4> QED BY <4>1, <4>3 DEF SettledInv, PlanInv
    <3> QED BY <3>1, <3>2
  <2> QED BY <2>2, <2>3
<1> QED
  BY <1>1, <1>2, InitTyped, NextTyped, NextSettled, BillingAssumption, PTL DEF Spec

=============================================================================
