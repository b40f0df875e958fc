---------------------------- MODULE WebhookDrain ----------------------------
(***************************************************************************)
(* The webhook deliveries of one endpoint.  A drain pass claims due rows   *)
(* by page under a lease, posts several at a time, settles or reschedules  *)
(* each, hands back what it did not post, and arms its successor.  Passes  *)
(* can overlap; nothing but the lease keeps them apart.  The reconcile     *)
(* sweep, the API that disables an endpoint and the fan-out that writes    *)
(* rows work beside them.                                                  *)
(*                                                                         *)
(* There is no clock: every instant is kept as the ticks left until it     *)
(* comes (of a row's next_attempt_at, a job's start, a pass's Retry-After) *)
(* or passed since (of a pass or a post under way).  A row grows a day old *)
(* when it likes: a day is long against everything else.                   *)
(***************************************************************************)
EXTENDS Integers, FiniteSets, FiniteSetsExt

CONSTANTS
  Deliveries,        \* the rows, numbered in the order of their creation
  Passes,            \* drain passes that can overlap
  Lease,             \* LEASE_MS
  Budget,            \* DRAIN_BUDGET_MS
  PassTime,          \* the longest a living pass lasts: its budget and one last post
  IdlePoll,          \* DRAIN_IDLE_POLL_MS
  StaleAfter,        \* the sweep's fifteen minutes
  Concurrency,       \* WEBHOOK_POST_CONCURRENCY
  MaxAttempts,       \* WEBHOOK_MAX_ATTEMPTS
  RetryDelay,        \* WEBHOOK_RETRY_SCHEDULE_MS: ticks to wait, per attempt
  RetryAfters,       \* what a 429 asks for
  AutoDisableAfter,  \* WEBHOOK_AUTO_DISABLE_AFTER
  MaxFailures,       \* bound: passes or posts cut short
  MaxToggles         \* bound: changes of the endpoint by its owner

ASSUME DrainAssumption ==
  /\ Deliveries \subseteq Nat /\ IsFiniteSet(Deliveries)
  /\ Lease \in Nat /\ Budget \in Nat /\ PassTime \in Nat
  /\ Lease > PassTime
  /\ IdlePoll \in Nat /\ StaleAfter \in Nat
  /\ Concurrency \in Nat \ {0} /\ MaxAttempts \in Nat \ {0}
  /\ RetryDelay \in [1..MaxAttempts -> Nat]
  /\ RetryAfters \subseteq Nat \ {0} /\ IsFiniteSet(RetryAfters)
  /\ AutoDisableAfter \in Nat \ {0}
  /\ MaxFailures \in Nat /\ MaxToggles \in Nat

VARIABLES
  endpoint,   \* webhook_endpoints.status
  delivery,   \* webhook_deliveries
  job,        \* the created webhook.drain job: ticks until its start, or Null
  retry,      \* whether a failed pass waits in state retry
  pass,       \* what each pass holds in memory
  failures, toggles,
  answered,   \* observer: answers other than 429 that passes wrote to a row
  asked       \* observer: the longest wait a 429 asked of a pass's page

vars == <<endpoint, delivery, job, retry, pass, failures, toggles, answered, asked>>

Null == -1000
Ticks == Int

AbsentDelivery == [status |-> "absent", attempts |-> 0, wait |-> Null, old |-> FALSE,
                   throttled |-> FALSE]
IdlePass == [pc |-> "idle", spent |-> 0, page |-> {}, read |-> [d \in Deliveries |-> 0],
             hand |-> [d \in Deliveries |-> "none"], since |-> [d \in Deliveries |-> 0],
             back |-> {}, stop |-> "none", until |-> 0, failed |-> 0, aborted |-> FALSE]

Hands == {"none", "bucket", "posting", "count", "disable"}

(* Rows, jobs and passes have their types.                                  *)
TypeOK ==
  /\ endpoint \in {"enabled", "disabled", "auto_disabled"}
  /\ delivery \in [Deliveries -> [status : {"absent", "matched", "pending", "failed",
                                            "success", "exhausted"},
                                  attempts : 0..MaxAttempts, wait : Ticks, old : BOOLEAN,
                                  throttled : BOOLEAN]]
  /\ job \in Ticks /\ retry \in BOOLEAN
  /\ pass \in [Passes -> [pc : {"idle", "start", "claim", "check", "work", "park", "rearm"},
                          spent : 0..PassTime, page : SUBSET Deliveries,
                          read : [Deliveries -> 0..MaxAttempts],
                          hand : [Deliveries -> Hands],
                          since : [Deliveries -> 0..PassTime],
                          back : SUBSET Deliveries,
                          stop : {"none", "budget", "throttled", "disabled"},
                          until : Ticks, failed : 0..Concurrency, aborted : BOOLEAN]]
  /\ failures \in Nat /\ toggles \in Nat
  /\ answered \in [Deliveries -> Nat] /\ asked \in [Passes -> Ticks]

Init ==
  /\ endpoint = "enabled"
  /\ delivery = [d \in Deliveries |-> AbsentDelivery]
  /\ job = Null /\ retry = FALSE
  /\ pass = [p \in Passes |-> IdlePass]
  /\ failures = 0 /\ toggles = 0
  /\ answered = [d \in Deliveries |-> 0]
  /\ asked = [p \in Passes |-> 0]

-----------------------------------------------------------------------------

Open(d) == delivery[d].status \in {"pending", "failed"} /\ delivery[d].wait # Null

(* Mutant: the claim looks at the status alone.                             *)
DueLeased(d) == Open(d)

Due(d) == Open(d) /\ delivery[d].wait <= 0

Settle(r, status) == [r EXCEPT !.status = status, !.wait = Null]

(* exhaustOpenDeliveries, of the rows in D.                                 *)
Exhaust(D) == delivery' = [d \in Deliveries |-> IF d \in D /\ Open(d)
                                                THEN Settle(delivery[d], "exhausted")
                                                ELSE delivery[d]]

(* The short policy: an insert collapses onto a created job.                *)
Arm(at) == job' = IF job = Null THEN at ELSE job

Put(p, r) == pass' = [pass EXCEPT ![p] = r]
Goto(p, pc) == pass' = [pass EXCEPT ![p].pc = pc]
Finish(p) == Put(p, IdlePass) /\ asked' = [asked EXCEPT ![p] = 0]

Busy(p) == {d \in Deliveries : pass[p].hand[d] # "none"}
FreeWorker(p) == Cardinality(Busy(p)) + pass[p].failed < Concurrency
OverBudget(p) == pass[p].aborted \/ pass[p].spent >= Budget
Resting(p, pc) == [IdlePass EXCEPT !.pc = pc, !.spent = pass[p].spent,
                                   !.aborted = pass[p].aborted]
Letting(p, d, doing) == [pass[p] EXCEPT !.hand[d] = doing, !.since[d] = 0]

-----------------------------------------------------------------------------
(* Rows and jobs. *)

(* A fan-out reads the enabled endpoints, then writes its rows, due at      *)
(* once, and arms the drain; the arming may be lost.                        *)
FanoutRead(d) ==
  /\ delivery[d].status = "absent" /\ endpoint = "enabled"
  /\ delivery' = [delivery EXCEPT ![d].status = "matched"]
  /\ UNCHANGED <<endpoint, job, retry, pass, failures, toggles, answered, asked>>

FanoutInsert(d) ==
  /\ delivery[d].status = "matched"
  /\ \A c \in Deliveries : c < d => delivery[c].status \notin {"absent", "matched"}
  /\ delivery' = [delivery EXCEPT ![d] = [@ EXCEPT !.status = "pending", !.wait = 0]]
  /\ Arm(0) \/ UNCHANGED job
  /\ UNCHANGED <<endpoint, retry, pass, failures, toggles, answered, asked>>

Toggle ==
  /\ toggles < MaxToggles /\ toggles' = toggles + 1
  /\ endpoint' \in {"enabled", "disabled"} \ {endpoint}
  /\ UNCHANGED <<delivery, job, retry, pass, failures, answered, asked>>

GrowOld(d) ==
  /\ delivery[d].status \in {"pending", "failed"} /\ ~delivery[d].old
  /\ delivery' = [delivery EXCEPT ![d].old = TRUE]
  /\ UNCHANGED <<endpoint, job, retry, pass, failures, toggles, answered, asked>>

(* webhooks.reconcile: day-old open rows are exhausted, leased or not; then *)
(* rows long due arm a drain.                                               *)
SweepOld ==
  /\ \E d \in Deliveries : Open(d) /\ delivery[d].old
  /\ Exhaust({d \in Deliveries : delivery[d].old})
  /\ UNCHANGED <<endpoint, job, retry, pass, failures, toggles, answered, asked>>

(* Mutant: a sweep that looks at rows never posted only.                    *)
SweepStalePending ==
  /\ \E d \in Deliveries : delivery[d].status = "pending" /\ delivery[d].wait = -StaleAfter
  /\ job = Null /\ Arm(0)
  /\ UNCHANGED <<endpoint, delivery, retry, pass, failures, toggles, answered, asked>>

SweepStale ==
  /\ \E d \in Deliveries : Open(d) /\ delivery[d].wait = -StaleAfter
  /\ job = Null /\ Arm(0)
  /\ UNCHANGED <<endpoint, delivery, retry, pass, failures, toggles, answered, asked>>

-----------------------------------------------------------------------------
(* A pass. *)

Fetch(p) ==
  /\ pass[p].pc = "idle"
  /\ \/ job # Null /\ job <= 0 /\ job' = Null /\ UNCHANGED retry
     \/ retry /\ retry' = FALSE /\ UNCHANGED job
  /\ Goto(p, "start")
  /\ UNCHANGED <<endpoint, delivery, failures, toggles, answered, asked>>

(* An endpoint that is not enabled has its backlog exhausted.               *)
Start(p) ==
  /\ pass[p].pc = "start"
  /\ \/ /\ endpoint # "enabled"
        /\ Exhaust(Deliveries) /\ Finish(p)
     \/ /\ endpoint = "enabled"
        /\ Put(p, [IdlePass EXCEPT !.pc = "claim"])
        /\ UNCHANGED <<delivery, asked>>
  /\ UNCHANGED <<endpoint, job, retry, failures, toggles, answered>>

(* claimDue, unless the pass is out of budget.                              *)
Claim(p) ==
  LET due == {d \in Deliveries : Due(d)} IN
  /\ pass[p].pc = "claim"
  /\ \/ /\ due # {} /\ ~OverBudget(p)
        /\ delivery' = [d \in Deliveries |-> IF d \in due THEN [delivery[d] EXCEPT !.wait = Lease]
                                             ELSE delivery[d]]
        /\ Put(p, [Resting(p, "check") EXCEPT
                      !.page = due,
                      !.read = [d \in Deliveries |-> IF d \in due
                                                     THEN delivery[d].attempts ELSE 0]])
     \/ /\ due = {} \/ OverBudget(p)
        /\ Goto(p, "rearm") /\ UNCHANGED delivery
  /\ asked' = [asked EXCEPT ![p] = 0]
  /\ UNCHANGED <<endpoint, job, retry, failures, toggles, answered>>

(* release: by id, whatever became of the row.                              *)
Released(D, at) == [d \in Deliveries |-> IF d \in D THEN [delivery[d] EXCEPT !.wait = at]
                                         ELSE delivery[d]]

Check(p) ==
  /\ pass[p].pc = "check"
  /\ \/ endpoint = "enabled" /\ Goto(p, "work") /\ UNCHANGED delivery
     \/ /\ endpoint # "enabled"
        /\ delivery' = Released(pass[p].page, 0)
        /\ Put(p, [pass[p] EXCEPT !.pc = "rearm", !.page = {}])
  /\ UNCHANGED <<endpoint, job, retry, failures, toggles, answered, asked>>

(* A free worker takes the next row, or exhausts it when it is a day old.   *)
Take(p, d) ==
  LET rest == [pass[p] EXCEPT !.page = @ \ {d}] IN
  /\ pass[p].pc = "work" /\ pass[p].stop = "none" /\ FreeWorker(p)
  /\ ~OverBudget(p) /\ d \in pass[p].page
  /\ \/ /\ delivery[d].old
        /\ delivery' = [delivery EXCEPT ![d] = Settle(@, "exhausted")]
        /\ Put(p, rest)
     \/ /\ ~delivery[d].old
        /\ Put(p, [rest EXCEPT !.hand[d] = "bucket"])
        /\ UNCHANGED delivery
  /\ UNCHANGED <<endpoint, job, retry, failures, toggles, answered, asked>>

(* The queue shuts down, or the job expires: its signal ends the budget.    *)
Abort(p) ==
  /\ pass[p].pc # "idle" /\ ~pass[p].aborted /\ failures < MaxFailures
  /\ failures' = failures + 1
  /\ Put(p, [pass[p] EXCEPT !.aborted = TRUE])
  /\ UNCHANGED <<endpoint, delivery, job, retry, toggles, answered, asked>>

(* A worker looks for its next row and finds the budget spent.              *)
StopEarly(p) ==
  /\ pass[p].pc = "work" /\ pass[p].stop = "none" /\ FreeWorker(p) /\ OverBudget(p)
  /\ Put(p, [pass[p] EXCEPT !.stop = "budget", !.until = 0])
  /\ UNCHANGED <<endpoint, delivery, job, retry, failures, toggles, answered, asked>>

(* After its wait for the rate, the worker posts the row, or hands it back. *)
Post(p, d) ==
  /\ pass[p].pc = "work" /\ pass[p].hand[d] = "bucket"
  /\ \/ /\ pass[p].stop = "none" /\ ~OverBudget(p)
        /\ Put(p, Letting(p, d, "posting"))
     \/ /\ pass[p].stop = "none" /\ OverBudget(p)
        /\ Put(p, [Letting(p, d, "none") EXCEPT !.stop = "budget", !.until = 0, !.back = @ \cup {d}])
     \/ /\ pass[p].stop # "none"
        /\ Put(p, [Letting(p, d, "none") EXCEPT !.back = @ \cup {d}])
  /\ UNCHANGED <<endpoint, delivery, job, retry, failures, toggles, answered, asked>>

(* Mutant: the last 429 of a page decides.                                  *)
StopThrottledLast(r, until) == [r EXCEPT !.stop = "throttled", !.until = until]

(* Of several stops the breaker wins, then the longest Retry-After.         *)
StopThrottled(r, until) ==
  IF r.stop = "none" \/ (r.stop # "disabled" /\ r.until < until)
  THEN [r EXCEPT !.stop = "throttled", !.until = until] ELSE r

(* Mutant: a 429 is charged as an attempt.                                  *)
ThrottledCharged(p, d) ==
  \E w \in RetryAfters :
    LET until == w - pass[p].since[d] IN
    /\ pass[p].pc = "work" /\ pass[p].hand[d] = "posting"
    /\ delivery' = [delivery EXCEPT ![d].wait = until, ![d].throttled = TRUE,
                                    ![d].attempts = pass[p].read[d] + 1]
    /\ Put(p, StopThrottled(Letting(p, d, "none"), until))
    /\ asked' = [asked EXCEPT ![p] = IF until > @ THEN until ELSE @]
    /\ UNCHANGED <<endpoint, job, retry, failures, toggles, answered>>

(* A 429 charges no attempt.                                                *)
Throttled(p, d) ==
  \E w \in RetryAfters :
    LET until == w - pass[p].since[d] IN
    /\ pass[p].pc = "work" /\ pass[p].hand[d] = "posting"
    /\ delivery' = [delivery EXCEPT ![d] = [@ EXCEPT !.wait = until, !.throttled = TRUE]]
    /\ Put(p, StopThrottled(Letting(p, d, "none"), until))
    /\ asked' = [asked EXCEPT ![p] = IF until > @ THEN until ELSE @]
    /\ UNCHANGED <<endpoint, job, retry, failures, toggles, answered>>

Accepted(p, d) ==
  /\ pass[p].pc = "work" /\ pass[p].hand[d] = "posting"
  /\ delivery' = [delivery EXCEPT ![d] = [Settle(@, "success") EXCEPT
                    !.attempts = pass[p].read[d] + 1, !.throttled = FALSE]]
  /\ Put(p, Letting(p, d, "none"))
  /\ answered' = [answered EXCEPT ![d] = @ + 1]
  /\ UNCHANGED <<endpoint, job, retry, failures, toggles, asked>>

(* Mutant: one attempt more than the schedule has rungs.                    *)
RefusedOnceMore(p, d) ==
  LET n == pass[p].read[d] + 1
      row == [delivery[d] EXCEPT !.attempts = n, !.throttled = FALSE]
  IN
  /\ pass[p].pc = "work" /\ pass[p].hand[d] = "posting"
  /\ delivery' = [delivery EXCEPT ![d] =
       IF n > MaxAttempts THEN Settle(row, "exhausted")
       ELSE [row EXCEPT !.status = "failed", !.wait = RetryDelay[n] - pass[p].since[d]]]
  /\ Put(p, Letting(p, d, "none"))
  /\ answered' = [answered EXCEPT ![d] = @ + 1]
  /\ UNCHANGED <<endpoint, job, retry, failures, toggles, asked>>

(* Refused, or no answer: the next rung of the schedule, or exhausted.      *)
Refused(p, d) ==
  LET n == pass[p].read[d] + 1
      row == [delivery[d] EXCEPT !.attempts = n, !.throttled = FALSE]
  IN
  /\ pass[p].pc = "work" /\ pass[p].hand[d] = "posting"
  /\ \/ /\ n >= MaxAttempts
        /\ delivery' = [delivery EXCEPT ![d] = Settle(row, "exhausted")]
        /\ Put(p, Letting(p, d, "count"))
     \/ /\ n < MaxAttempts
        /\ delivery' = [delivery EXCEPT ![d] = [row EXCEPT
                          !.status = "failed", !.wait = RetryDelay[n] - pass[p].since[d]]]
        /\ Put(p, Letting(p, d, "none"))
  /\ answered' = [answered EXCEPT ![d] = @ + 1]
  /\ UNCHANGED <<endpoint, job, retry, failures, toggles, asked>>

(* autoDisableIfDead: the latest settled rows that say something of the     *)
(* receiver are counted, and then the endpoint is disabled.                 *)
Counted == {d \in Deliveries :
              \/ delivery[d].status = "success"
              \/ /\ delivery[d].status = "exhausted"
                 /\ delivery[d].attempts >= MaxAttempts \/ delivery[d].throttled}

Dead ==
  LET later(d) == {c \in Counted : c >= d}
      recent == {d \in Counted : Cardinality(later(d)) <= AutoDisableAfter}
  IN /\ Cardinality(recent) = AutoDisableAfter
     /\ \A d \in recent : delivery[d].status = "exhausted"

CountSettled(p, d) ==
  /\ pass[p].pc = "work" /\ pass[p].hand[d] = "count"
  /\ Put(p, Letting(p, d, IF Dead THEN "disable" ELSE "none"))
  /\ UNCHANGED <<endpoint, delivery, job, retry, failures, toggles, answered, asked>>

AutoDisable(p, d) ==
  LET free == Letting(p, d, "none") IN
  /\ pass[p].pc = "work" /\ pass[p].hand[d] = "disable"
  /\ \/ /\ endpoint = "enabled" /\ endpoint' = "auto_disabled"
        /\ Put(p, IF free.stop = "disabled" THEN free
                  ELSE [free EXCEPT !.stop = "disabled", !.until = 0])
     \/ endpoint # "enabled" /\ Put(p, free) /\ UNCHANGED endpoint
  /\ UNCHANGED <<delivery, job, retry, failures, toggles, answered, asked>>

(* A worker's call fails; its siblings go on.                               *)
WorkerFails(p, d) ==
  /\ pass[p].pc = "work" /\ pass[p].hand[d] # "none" /\ failures < MaxFailures
  /\ failures' = failures + 1
  /\ Put(p, [Letting(p, d, "none") EXCEPT !.failed = @ + 1])
  /\ UNCHANGED <<endpoint, delivery, job, retry, toggles, answered, asked>>

(* The pass throws: its job waits for a retry, or was the last one.         *)
GiveUp(p) == retry' \in {TRUE, retry} /\ Finish(p)

(* Every worker is back.                                                    *)
PageEnd(p) ==
  LET r == pass[p] IN
  /\ r.pc = "work" /\ Busy(p) = {}
  /\ r.page = {} \/ r.stop # "none" \/ r.failed = Concurrency
  /\ \/ r.failed > 0 /\ GiveUp(p) /\ UNCHANGED delivery
     \/ /\ r.failed = 0 /\ r.stop = "none"
        /\ Goto(p, "claim") /\ UNCHANGED <<delivery, retry, asked>>
     \/ /\ r.failed = 0 /\ r.stop # "none"
        /\ delivery' = Released(r.page \cup r.back, r.until)
        /\ Put(p, [Resting(p, IF r.stop = "throttled" THEN "park" ELSE "rearm") EXCEPT
                      !.until = r.until])
        /\ UNCHANGED <<retry, asked>>
  /\ UNCHANGED <<endpoint, job, failures, toggles, answered>>

(* A throttled pass parks its successor until the receiver asked for it.    *)
Park(p) ==
  /\ pass[p].pc = "park"
  /\ Arm(pass[p].until) /\ Finish(p)
  /\ UNCHANGED <<endpoint, delivery, retry, failures, toggles, answered>>

(* Any other arms it for the next due row, within the idle poll.            *)
Rearm(p) ==
  LET waits == {delivery[d].wait : d \in {c \in Deliveries : Open(c)}} IN
  /\ pass[p].pc = "rearm"
  /\ \/ waits = {} /\ UNCHANGED job
     \/ \E next \in waits :
          /\ \A w \in waits : next <= w
          /\ Arm(IF next <= IdlePoll THEN next ELSE IdlePoll)
  /\ Finish(p)
  /\ UNCHANGED <<endpoint, delivery, retry, failures, toggles, answered>>

(* The worker process dies, or a call outside of the page fails.            *)
Die(p) ==
  /\ pass[p].pc # "idle" /\ failures < MaxFailures
  /\ failures' = failures + 1
  /\ GiveUp(p)
  /\ UNCHANGED <<endpoint, delivery, job, toggles, answered>>

(* A living pass keeps its time box.                                        *)
Tick ==
  LET fall(t) == Max({t - 1, -StaleAfter})
      down(t) == IF t = Null THEN Null ELSE fall(t) IN
  /\ \A p \in Passes : pass[p].pc # "idle" => pass[p].spent < PassTime
  /\ delivery' = [d \in Deliveries |-> [delivery[d] EXCEPT !.wait = down(@)]]
  /\ job' = IF job = Null THEN Null ELSE Max({job - 1, 0})
  /\ pass' = [p \in Passes |->
       IF pass[p].pc = "idle" THEN pass[p]
       ELSE [pass[p] EXCEPT !.spent = @ + 1, !.until = fall(@),
                            !.since = [d \in Deliveries |-> IF pass[p].hand[d] = "posting"
                                                            THEN @[d] + 1 ELSE 0]]]
  /\ asked' = [p \in Passes |-> fall(asked[p])]
  /\ UNCHANGED <<endpoint, retry, failures, toggles, answered>>

-----------------------------------------------------------------------------

PassWork(p) ==
  \/ Start(p) \/ Claim(p) \/ Check(p) \/ PageEnd(p) \/ Park(p) \/ Rearm(p)
  \/ StopEarly(p)
  \/ \E d \in Deliveries :
       \/ Take(p, d) \/ Post(p, d) \/ Throttled(p, d) \/ Accepted(p, d) \/ Refused(p, d)
       \/ CountSettled(p, d) \/ AutoDisable(p, d)

PassStep(p) ==
  \/ PassWork(p) \/ Fetch(p) \/ Abort(p) \/ Die(p)
  \/ \E d \in Deliveries : WorkerFails(p, d)

Next ==
  \/ \E p \in Passes : PassStep(p)
  \/ \E d \in Deliveries : FanoutRead(d) \/ FanoutInsert(d) \/ GrowOld(d)
  \/ Toggle \/ SweepOld \/ SweepStale \/ Tick

Spec == Init /\ [][Next]_vars

(* A living pass goes on, jobs are fetched, the sweep runs every fifteen    *)
(* minutes and time passes.  A pass has a budget of twenty seconds: not     *)
(* every one of them spends it before its first post, and rows are taken    *)
(* in due order, so that none is passed over for ever.                      *)
Fairness ==
  /\ \A p \in Passes :
       /\ WF_vars(PassWork(p)) /\ WF_vars(Fetch(p))
       /\ SF_vars(Claim(p) /\ ~OverBudget(p)) /\ SF_vars(Check(p) /\ ~OverBudget(p))
       /\ \A d \in Deliveries : /\ SF_vars(Take(p, d))
                               /\ SF_vars(Post(p, d) /\ pass'[p].hand[d] = "posting")
  /\ WF_vars(SweepStale) /\ WF_vars(Tick)

FairSpec == Spec /\ Fairness

-----------------------------------------------------------------------------
(* Properties *)

Holds(p) == pass[p].page \cup pass[p].back \cup Busy(p)

(* No two passes hold a row at once: the lease outlives the pass that took  *)
(* it, whatever is released, throttled, re-armed, swept or retried meanwhile*)
(* (queue/index.ts "the row lease keeps them on disjoint rows").            *)
LeaseExclusive == \A p, q \in Passes : p # q => Holds(p) \cap Holds(q) = {}

(* Every answer but a 429 that a pass writes down is counted as an attempt, *)
(* and nothing else is: no stale copy of a row's count, read with the claim,*)
(* overwrites what another pass wrote.                                      *)
CountsEveryAnswer == \A d \in Deliveries : delivery[d].attempts = answered[d]

(* deliver-webhook.ts:264-266: a pass a 429 ended parks its successor at    *)
(* the longest wait a 429 of that page asked for, and hands no row back     *)
(* before it, unless the wait is over or the breaker tripped, however its   *)
(* workers' answers and the budget come in.                                 *)
WaitsRespected ==
  [][\A p \in Passes :
       /\ pass[p].pc = "work" /\ pass'[p].pc \in {"park", "rearm"}
       /\ pass[p].stop # "disabled" /\ asked[p] > 0
       => /\ pass'[p].pc = "park" /\ pass'[p].until >= asked[p]
          /\ \A d \in pass[p].page \cup pass[p].back : delivery'[d].wait >= asked[p]]_vars

(* An open row of an endpoint that stays enabled is posted, and posted      *)
(* again after each refusal, though jobs are lost and passes die holding it.*)
NextPost ==
  \A d \in Deliveries :
    Open(d) ~> \/ \E p \in Passes : pass[p].hand[d] = "posting"
               \/ ~Open(d) \/ delivery[d].old \/ endpoint # "enabled"
=============================================================================
