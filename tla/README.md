# MillionSend in TLA+

MillionSend is an email platform on Amazon SES: an HTTP and SMTP API in front of
Postgres, and workers that take jobs off a Postgres queue (pg-boss), hand mail to
SES and apply the events SES sends back.  This directory specifies the parts of it
where processes meet: the life of an email from the accept to its last event, the
idempotency keys that guard the accept, the fan-out and the stop of a broadcast, the
counters every send is charged to, the webhook deliveries that report on it, and the
plan a team pays for.

TLC checks the specifications on small instances; TLAPS proves the central
properties for every value of the constants.

    tlc -config EmailSend_lanes.cfg MCEmailSend      # one of the runs below
    tlapm EmailSendProofs.tla                        # the proofs

Contents: 1. Inventory.  2. Modules.  3. What the runs check.  4. What is proved.
5. Known disagreements.  6. Not modelled, and what comes next.

## 1. Inventory

Paths are relative to the repository; `core` is `packages/core/src`, `worker` is
`apps/worker/src`, `api` is `apps/api/src`.

| Component | State | Operations | What must hold |
|---|---|---|---|
| **Email row** (`core/status.ts`, `packages/db/src/schema/emails.ts`) | status, `sent_at` (the claim), `scheduled_at`, `ses_message_id`, recipients | `applyStatusCas`, `transitionQueueState`, `endQueuedEmails` | a status never goes back; an ended row never leaves |
| **Send lanes** (`worker/handlers/send-email.ts`, `worker/ses-sender.ts`) | a copy of the row, per lane | read, check, strip, claim, submit, record, count; park, fail, come back, throw | SES takes a message at most once, whoever crashes when; what the customer is told agrees with what SES has |
| **Job queue** (`packages/queue`, pg-boss) | jobs `created`, `retry`, `active`, dead letters | send with a singleton key, fetch, retry with back-off, expire, dead-letter | a queued email is never without someone to take it up again |
| **Accept, cancel, reschedule** (`core/accept-email.ts`, `api/app.ts`) | – | accept transaction, enqueue after the commit, cancel, PATCH | mail answered "canceled" does not go out; a move is exact and is charged |
| **Quota counters** (`core/quota.ts`) | `usage_counters` per team and UTC day; `free_pool_usage` of a Free owner; `usage_periods` of a billing period | reserve, release, charge ahead | rows let into the queue never exceed what was counted; a send is charged to all of its counters or to none; no counter is past its ceiling |
| **Parked mail** (`drainQuotaParked` in `worker/handlers/cron.ts`) | pages in the memory of a run | page, reserve and move, enqueue, re-park and refund | a row is charged once, and to its day |
| **Stalled-send sweep** (`reconcileStalledSends`) | – | fail old claims, re-enqueue due rows | every queued row settles; nothing is sent twice for it |
| **SES events** (`worker/handlers/process-ses-event.ts`, `sqs-poller.ts`) | `email_events`, counters, suppressions | look up by message id or tag, gate, join, climb, count | events duplicated, reordered or early change nothing they should not |
| **Idempotency keys** (`core/idempotency.ts`) | `idempotency_keys` | begin, complete, release, purge | one email per record; a replay answers with the request's own email |
| **Broadcasts** (`worker/handlers/send-broadcast.ts`, `core/broadcast-pacing.ts`) | broadcast status, cursor, recipient count; the row of each contact | fan out by pages, pace, stop, finalize, reconcile | a walk cut off and resumed misses nobody and writes nobody twice; after a stop nothing goes out; a broadcast ends |
| **Webhooks** (`worker/handlers/deliver-webhook.ts`, `core/webhooks.ts`) | deliveries with a lease, endpoint status | claim due rows, post, settle, release, re-arm, disable | a delivery settles once, is retried on its schedule, and never lost to a pass that died |
| **Screening and judge** (`core/screening.ts`, `worker/handlers/abuse-judge.ts`) | verdicts, holds, fuse counters | screen, hold, release, cancel held | held mail goes out only on a verdict |
| **Warm-up** (`core/domain-warmup.ts`, `core/warmup-ramp.ts`) | `team_warmup_usage`, `domain_warmup_usage` per day | reserve, release | no cap of the ramp is exceeded; the two counters take a send together; transactions do not deadlock on them |
| **Free burst** (`core/quota.ts`: `bookFreeBurst`, `freeBurstSlot` in `worker/handlers/send-email.ts`) | `free_pool_bursts.tat`, a virtual clock per owner; `free_burst_at` of each row | book a slot, read it back, wait for it | a pool's mail goes at the pace of its allowance; a row is booked once a window |
| **Platform breaker, SES quota** (`core/platform-breaker.ts`, `worker/handlers/ses-quota.ts`) | breaker state, throttle | trip, recover | hysteresis; a tripped breaker holds every send |
| **Standing, pauses, suspension** (`core/team-standing.ts`, `core/pause-lift.ts`) | team status | pause, lift, suspend | a pause parks and a lift releases |
| **Suppressions, topics** (`core/suppressions.ts`, `core/topics.ts`) | the list, opt-outs | add, remove | mail to a suppressed recipient is refused or stripped up to the claim |
| **Domains and tenants** (`core/domain-lifecycle.ts`, `worker/handlers/tenants.ts`) | domain status, SES identities | verify, delete | deleting a domain fails the mail that waits on it |
| **Received mail** (`apps/mx`, `core/receiving`) | stored messages, deliveries | accept, store, deliver, screen | accepted mail is delivered once |
| **Inboxes** (`core/inboxes`) | threads, drafts | send (with an idempotency key), label | as the accept |
| **Billing** (`packages/billing`) | the team's plan and subscription, `stripe_events`, reported overage and its pin | apply Stripe's events, reconcile, meter overage, end a subscription | events out of order, twice or rolled back leave the plan that is paid; a unit of overage is billed once |
| Rate limits, notifications, tracking, keys, SMTP, dashboard, CLI, docs | single tables, or nothing | request/response | see `PROJECT.json` |

**How they interact.**  The row is the only thing the API, the lanes, the event
consumer and the crons share.  Each works on its own copy and writes through one
guarded `UPDATE`; a guard that misses is a silent "someone else did it".  The queue
connects them: the accept enqueues after its commit, a lane puts a job back for
later, the drain enqueues the rows it released, the sweep enqueues what nobody has
taken up.  The quota is a counter beside the rows: it moves in the same transaction
as the row on the way in (accept, PATCH, drain) and when a lane parks, but in a
statement of its own when the drain takes a release back.

**What is hard here.**  Two lanes on one email; a worker that dies around the SES
call; an answer after the deadline; the sweep failing a claim whose lane is only
slow; an SES event before the lane has written the message id; a cancel or a PATCH
between a lane's read and its claim; a stale page in the drain; a job lost between
the commit and the enqueue; an insert swallowed by the queue's short policy; a
counter across midnight; a taken-over idempotency claim whose first owner wakes up;
two drain passes on one webhook endpoint, and a sweep beside both; a walk over an
audience that dies, resumes and overlaps with its successor while contacts leave and
a stop races its pages; a reservation over five counters refused at the fourth;
Stripe's events against the reconcile, the overage report and a rollback.
`PROJECT.json` lists them under `hazards`, each at the line where it bites.

## 2. Modules

| Module | Models | Role |
|---|---|---|
| `EmailRow` | `core/status.ts` and the row | the ladder and the guards of every `UPDATE`; no variables |
| `EmailSend` | lanes, queue, accept/cancel/PATCH, daily counter, drain, sweep, events | the detailed specification |
| `EmailPromise` | what a customer may rely on | the abstract specification of `EmailSend` |
| `Idempotency` | `core/idempotency.ts` and the request protocol of `POST /emails` | a specification of its own |
| `BroadcastFanout` | `worker/handlers/send-broadcast.ts`, `core/broadcast-pacing.ts`, and lanes, drain and sweeps over the rows of a broadcast | a specification of its own |
| `QuotaCounters` | `core/quota.ts`, `core/domain-warmup.ts`: the statements and the locks of a reservation | a specification of its own |
| `WebhookDrain` | `worker/handlers/deliver-webhook.ts`, its fan-out, its sweep and the switch of an endpoint | a specification of its own |
| `Billing` | `packages/billing`: `handleWebhook`, the reconcile, `reportOverage`, `endSubscription` | a specification of its own |
| `FreeBurst` | `bookFreeBurst`, `freeBurstSlot` and the gate of `sendQueued` | a specification of its own |
| `EmailSendProofs`, `IdempotencyProofs`, `BroadcastFanoutProofs`, `QuotaCountersProofs`, `QuotaChargesProofs`, `WebhookDrainProofs`, `BillingProofs`, `FreeBurstProofs` | – | theorems |
| `MCEmailSend`, `MCIdempotency`, `MCBroadcastFanout`, `MCQuotaCounters`, `MCWebhookDrain`, `MCBilling`, `MCFreeBurst` | – | the sets the configurations use |

The specifications meet at the row and the counter.  `EmailSend` has the whole life
of a transactional row and one counter; `BroadcastFanout` has many rows with a
coarser lane, and what is particular to them; `QuotaCounters` opens the one step by
which both charge a row into its statements.  They are separate because each is near
the limit of what TLC explores.

### EmailSend

An action is one database statement or transaction, one queue call or one SES call.
Between two actions of a lane anything else may happen; that is the whole point.

| Variables | In the code |
|---|---|
| `row` | the `emails` table; `sentAt` is the claim, `sesId` the joined message (0: null), `why` the recorded failure reason |
| `unqueued` | rows committed by a request that has not reached its `enqueue` yet |
| `waiting`, `retrying`, `dead` | pg-boss jobs in `created` (at most one per email: the short policy with the email as singleton key), in `retry`, and in `email.send.dead` |
| `lane` | the locals of `sendEmail`/`sendQueued`: program counter, the email, the recipients it read, the attempt (`NoTime` once the job expired under it) |
| `drain` | the locals of one `drainQuotaParked` run: the page as read, the rows moved, the units to hand back |
| `event` | `processSesEvent` between its look-up and its transaction |
| `accepted` | `usage_counters.accepted`, per UTC day |
| `took`, `told`, `charge` | observers: copies SES took, announcements made, the reservation a row holds |

| Actions | In the code |
|---|---|
| `Accept`, `RecordSuppressed`, `Enqueue`, `LoseEnqueue` | `acceptEmail`: its transaction; the row kept of a send to suppressed recipients only; the job after the commit, or the process dying first |
| `Cancel`, `Move`, `DeleteDomain`, `CancelHeld`, `Suppress` | the API routes and operator actions that write the row or the list |
| `FetchNew`, `FetchRetry`, `Throw`, `Expire`, `DeadLetter` | what pg-boss does with a job; `Throw` is any error and the death of the worker, at every step |
| `ReadRow`, `CheckEligible`, `Render`, `Recheck`, `Claim` | `sendEmail` up to the claim; reads of other tables (standing, quota of SES, verdicts) are choices |
| `SesTakes`, `SesRefuses`, `SesDeadline`, `SesTakesUnnamed` | the SES call: an accept, a refusal, the send deadline (`AbortError`: the outcome is unknown), an accept without a `MessageId` |
| `ReleaseClaim`, `Fail`, `Park`, `Record`, `FlipSent`, `CountSent` | what follows, each with its own guard |
| `LookUp`, `ApplyEvent` | SNS delivers any event of a message SES took, any number of times, in any order |
| `FailStalled`, `Requeue` | `reconcileStalledSends` |
| `DrainPage`, `DrainRelease`, `DrainEnqueue`, `DrainRepark`, `DrainRefund`, `DrainStop` | `quota.drain`: its transactions and its error path |

Definitions whose comment begins with "Mutant" are the model with a plausible bug in
one definition; no specification uses them.  They are there to show that each
property can fail.

**Abstractions.**  One team on a plan with a daily ceiling (no Free pool, month or
warm-up counter: those are in `QuotaCounters`; a warm-up that refuses is a choice to
stay parked).  Transactional rows: those of a broadcast go through the same lane and
add their stop, which is in `BroadcastFanout`.
Suppressions and opt-outs are one set that only grows.  Units are the number of
recipients.  `Render` collapses everything between the two eligibility checks into
its outcomes.  A job's back-off is dropped: a retry may start at once.  The two
statements of PATCH (a read, then a transaction guarded by what was read) are one
step.  The counters, the event row and the webhook written after `FlipSent` are one
step, `CountSent`.  Duplicates of one SNS message are stopped by the unique event
row, so a duplicate in the model is a repeated application, which is more.  A
socket error after SES accepted and before the deadline is left out: it would look
like `SesTakesUnnamed`.  A re-enqueue by the sweep does not wait for a booked burst
slot: the burst allowance is in `FreeBurst`, which asks nothing of when a job is fetched.

### Idempotency

One key of one team; keys share nothing.  `record` is its row, `req` the requests
that carry it, `now` their clock.  `Begin` is the upsert, `Look` the read after a
refused one, `Accept` the accept transaction with `completeIdempotent` in it,
`Abort`/`Release` the error path, `BeginAgain`/`LookAgain` the second
`beginIdempotent` of a superseded request, `Die` a crash, `Purge` the cron.  The
owner of a claim and the set `sent` are observers: the code stores neither.
`POST /emails/batch` and the inbox sends follow the same protocol with several
emails per response; a batch whose permissive validation leaves nothing is not
modelled.

### BroadcastFanout

One broadcast from its draft to its end.  An action is one statement or transaction,
or one queue call.

| Variables | In the code |
|---|---|
| `status`, `cursor`, `walked` | `broadcasts`: status, `fan_out_cursor`, and whether `recipient_count` is set |
| `created`, `retries` | `broadcast.send` jobs in `created` and in `retry` |
| `row`, `mail` | the email row of each contact (one, by the unique key of broadcast and contact), and whether it has an `email.send` job |
| `at`, `walk` | the program counter of a walk, a drain, a cron or the stop; the cursor, the page, the rest of it and the batch of a walk |
| `lane`, `page`, `moved`, `owed` | the locals of a send lane and of a drain; the units a process has yet to give back |
| `accepted`, `out` | the team's counter; the contacts unsubscribed, suppressed or opted out |
| `everOut`, `stopped` | observers: who was ever out of the audience, and that a stop has answered |

| Actions | In the code |
|---|---|
| `Schedule`, `Change` | `POST /broadcasts/{id}/send`, whose enqueue may be lost; a contact leaving or coming back |
| `Fetch`, `ReadBroadcast`, `ClaimBroadcast` | a job is taken; the read at the head, which may put the job back; the claim, after which screening may end the walk |
| `ReadPage`, `Heartbeat`, `InsertRow`, `EnqueuePage`, `EndWalk` | the loop of `sendBroadcast`: a keyset page, the heartbeat that persists the cursor and learns of a stop, one transaction per contact, the jobs of the page (the failure is only logged), the recipient count |
| `Probe`, `Finish` | `finalizeBroadcast`, by a walk, a drain or a cron |
| `Rekick`, `CronFinalize` | `reconcileStalledBroadcasts` |
| `Stop`, `FlipParked`, `FlipQueued`, `Refund` | `POST /broadcasts/{id}/cancel` and `cancelBroadcastRows`; a walk that finds its broadcast stopped sweeps the same way |
| `FetchMail`, `ReadRow`, `Look`, `Claim`, `Submit`, `Unclaim`, `Park` | a lane on such a row, with the standing checks before and after the stop is looked at |
| `Requeue`, `FailStalled` | the stalled-send sweep |
| `DrainPick`, `DrainRelease`, `DrainEnqueue`, `DrainFails`, `DrainRepark`, `DrainGive`, `DrainReparked` | the second pass of `quota.drain` |
| `Die`, `LaneDies` | a process dies or throws at any step; a walk's job may retry |

**Abstractions.**  Contacts are numbers in the order of the pages, so that the keyset
is `<`.  One day, one counter, one unit per row.  Whatever parks a row (plan, warm-up,
the region's share, a hold for review) is one choice.  How long a quiet walk must be
quiet before it is queued again is left open, which is more than the code allows.  A
lane's submit and its bookkeeping are one step: that they are not one is the subject
of `EmailSend`.

### QuotaCounters

The counters of the teams of one creator, and the transactions that move them.  An
action is one statement of a transaction; what it added is in `tx[x].delta` until the
commit, and its row is in `tx[x].held`, locked to the others whether its guard held
or not, as a guarded upsert of Postgres does.

| Variables | In the code |
|---|---|
| `count` | the committed rows of `usage_counters`, `free_pool_usage`, `usage_periods`, `team_warmup_usage`, `domain_warmup_usage` |
| `plan` | the team's plan: on Free, in a pool, or paid with a period |
| `tx` | what each connection runs: the statement it is at, the items and the days left, what parked, what it added and locks |
| `out` | the units charged and not given back: what the rows in the database stand for |
| `lapsed` | observer |

| Actions | In the code |
|---|---|
| `Begin` | `acceptEmail`/`acceptBatch`, or the drain's `releaseParked`: the plan is the one read before the transaction |
| `TakePeriod`, `TakeTeam`, `TakePool` | `reserveQuota`, in this order, with what a refusal takes back by hand; a refused day is tried once more for the run of items that fits |
| `HandBack` | a review hold charges like any other mail and gives back |
| `TakeWarm`, `TakeDomain` | `reserveWarmup`; the drain rolls back on a refusal, an accept parks the item |
| `BeginRelease`, `ReleasePeriod`, `ReleaseTeam`, `ReleasePool` | `releaseQuota`, against the plan its team has by then |
| `Commit`, `Abort` | the end of a transaction, or a failure or death anywhere |
| `Upgrade`, `Lapse` | a subscription starts or ends |

**Abstractions.**  An item is one unit of mail.  `Today` does not move: the days of a
batch are what the order of locks depends on.  The early refusal of a counter that is
already past its ceiling takes no lock in the code and takes it here, which can only
show more waiting.  Releases outside a transaction are a transaction of their own.
A plan of days without a pool or a period, and the operator's ceiling of one team,
are values of `TeamCeiling`.  Not modelled: the hourly mirror of the
counters, the filling of a pool by `backfillPoolOwners`, the reservation of a PATCH, and the ramp itself (a cap is a
constant).

### WebhookDrain

The deliveries of one endpoint; endpoints share nothing but lanes.  `delivery` is the
table (`wait` is `next_attempt_at`, `throttled` a last response of 429), `endpoint`
its status, `job` and `retry` the `webhook.drain` jobs in `created` (one at most) and
in `retry`, `pass` the locals of `drainWebhookEndpoint`: the rows of the page nobody
took, what each worker does with its row, what goes back, and the stop.  `answered`
and `asked` are observers.

| Actions | In the code |
|---|---|
| `FanoutRead`, `FanoutInsert` | the read of the enabled endpoints, the insert of the row, and the arming of the drain, which may be lost |
| `Toggle` | the owner disables or enables the endpoint |
| `Fetch`, `Start`, `Claim`, `Check` | a job is fetched; the endpoint is read, and the backlog of a disabled one exhausted; a page is leased; the endpoint is read again |
| `Take`, `StopEarly`, `Post`, `Throttled`, `Accepted`, `Refused`, `CountSettled`, `AutoDisable` | a worker: its next row, the budget, the post, the answer, the breaker's count and its `UPDATE` |
| `PageEnd`, `Park`, `Rearm` | all workers are back: the next page, the hand-back, the successor at Retry-After or for the next due row |
| `WorkerFails`, `Die`, `Abort` | a call of a worker throws (its siblings go on); the pass throws or its process dies, with a retry or without; the queue's signal |
| `SweepOld`, `SweepStale`, `GrowOld` | `webhooks.reconcile`, and a row becoming a day old |
| `Tick` | time |

Instants are kept as differences to now, so that time needs no horizon.  `PassTime`
is the assumption that a living pass ends, at the latest, one post after its budget:
the code's budget of 20 s and a post's time-out stay below the lease of 60 s, and
`DrainAssumption` says `Lease > PassTime`.  All passes may overlap (the queue's group
keeps most of them apart, and the code does not rely on it).  A release, a 429 and an
answer name their row by its id alone, and so do the actions: a row the sweep
exhausted under a pass may get a due instant again, or be reopened by a late refusal.
Not modelled: test deliveries, the limit of a page, the deletion of an endpoint, the
folding of tracking events into waiting rows, retention, the secrets and the mails
about a failing endpoint.

### Billing

One customer, one team, one period.  `stripe`, `turn`, `emitted` and `metered` are
Stripe's side, modelled from how the code uses it; the rest is the database.

| Variables | In the code |
|---|---|
| `stripe`, `turn`, `emitted` | the status of each subscription, the states it went through, and the events of them, delivered until acknowledged, in any order |
| `metered` | the steps the meter counted, by the identifier of the event |
| `ledger`, `team`, `lock` | `stripe_events`; the billing columns of `teams`; the advisory lock of the customer |
| `accepted`, `reported`, `pin` | `usage_periods`: `accepted`, `reported_overage`, `pending_overage` |
| `held`, `before` | the transaction that has written the usage row, and the row as others still read it |
| `at`, `mem` | the locals of a sync, an overage run, a caller that ends the subscription |
| `written`, `undone`, `clobbered` | observers |

| Actions | In the code |
|---|---|
| `Subscribe`, `Change` | Stripe: a checkout is paid, a payment fails, is made good, or the subscription ends |
| `Begin` (by `Deliver`, `Reconcile`, `Reapply`), `Fetch`, `ReadTeam`, `Write`, `Skip`, `Abort` | `handleWebhook`, `reconcileTeamPlan` and `applyLocked`: one transaction under the customer's lock, which fetches what Stripe says now and applies it |
| `ReadUsage`, `Pin`, `Meter`, `CatchUp` | `reportOverage`: by the cron, by whoever ends the subscription, or inside the transaction of a sync |
| `Accept`, `Return` | mail counted in the period, or given back |
| `End`, `CancelSub`, `Clear`, `Die` | `endSubscription`, which takes no lock |

**Abstractions.**  The list and the retrieve of the reconcile are one call.  Stripe
drops an event with an identifier it has counted.  A run that dies is one whose event
was refused or answered too late, which leaves the row the same.  Not modelled: the
rungs of a plan and their changes, the wait of a move up, `assertOverageCounted`,
`setOverage`, checkout and portal sessions, provisioning, prices, refunds, a hard
cap, several periods, statuses other than active, past due and ended, and
subscriptions without an item.

### FreeBurst

The mail of one Free pool at the gate that spreads its bursts.  An action is one
statement, or one commit with what its locks keep others from seeing.

| Variables | In the code |
|---|---|
| `now` | the clock of the workers; a unit is what one recipient takes to refill |
| `tat` | `free_pool_bursts.tat`; 0 stands for no row, as the first booking inserts `now` plus its cost, which is what a clock in the past gives |
| `row` | of each email, whether it is queued, away (parked, held, claimed and released, ended) or sent, and its `free_burst_at` |
| `lane` | the locals of `freeBurstSlot`: the slot as read, when it asked (`spentBefore` plus a window), the date it books with; and when it passed |
| `booked`, `gone` | observers: the bookings, and when an email that was sent passed on a slot |

| Actions | In the code |
|---|---|
| `ReadRow` | a job of the row is fetched: at its wake-up, before it, by the sweep or after the drain |
| `CheckSlot` | the slot as read decides at once, unless there is none or it is a window old |
| `LockRow` | `select ... for update` of the row and the second look at its slot |
| `Book` | `bookFreeBurst` and the update of the row, up to the commit |
| `Gate` | a slot ahead puts the row back, else the mail goes on to the claim |
| `Claim` | the claim and SES, or any of the ways a lane leaves a row alone |
| `Leave`, `Return`, `Die`, `Tick` | a park or a hold and the way back; the death of a worker, which rolls a booking back; time |

**Abstractions.**  `Cost` of an email is the number of its recipients that can report a
complaint, which a later strip of recipients would only lower.  A message without such
a recipient, mail of a paid team and system mail are not booked and not in the model.
A wake-up is at its slot or, at a slot further ahead than a window, earlier; as
`ReadRow` may come at any time, neither is told apart.  `Slack` is an assumption about
the environment: no booking waits longer than that for its locks and its commit.

## 3. What the runs check

| Run | Instance | Shows |
|---|---|---|
| `lanes` | one email, two lanes, one retry, one expiry, one postponed check, two kinds of event, no clock (every time guard is open) | `TypeOK`, `ClaimInv`, `AtMostOneSend`, `ToldOnce`, `EndedUnsent`, `FailedUnsent`, `NeverBack`, and the refinement `KeepsPromise` |
| `quota` | one email to two mailboxes, one lane, one drain, two days, two reschedules, one accept that SES does not name | `ReservationsCovered`, of a message that shrinks while it is charged |
| `settles` | one email, one lane, two days, one retry, one expiry, one reschedule, no drain, with fairness | `ChargedAhead`, and `Settles` |
| `key` | four requests, two bodies, a lease of one, a life of three, six instants | `TypeOK`, `OneEmailPerRecord`, `SentStands`, `AnswersExist` |
| `leases` | two passes of two workers on two deliveries, one attempt, one failure, waits of one and two; a refusal trips the breaker | `TypeOK`, `LeaseExclusive`, `CountsEveryAnswer`, `WaitsRespected` |
| `retries` | one pass at a time, one delivery, two attempts, two failures, one toggle, with fairness | `NextPost` |
| `fanout` | two contacts on two pages, one worker, one lane, one cron, the stop; one death of any of them, one contact that leaves or comes back | `TypeOK`, `EveryoneReached`, `StopHolds` |
| `stops` | one contact, two workers, two lanes, one drain, the stop | `ChargesCovered`, `StopHolds` |
| `ends` | one contact, one worker, lane, drain and cron, nobody stops, with fairness | `Finishes` |
| `pools` | two teams on any plans, two days, two young domains, two connections, four transactions, one change of plan; batches over both days and domains | `TypeOK`, `ChargedOnce`, `PoolCovers`, `WarmTogether`, `WithinCaps`, `NoDeadlock` |
| `billing` | two subscriptions, two syncs, one overage run, one caller that ends the subscription, two units of overage, one failure | `TypeOK`, `Converges`, `BilledOnce`, `ReportedIsMetered`, `NeverOlder` |
| `burst` | a window of two, messages that cost one, three and three, two lanes, a slack of one, five instants | `TypeOK`, `BookedOnce`, `PassesPaced` |

Every run passes.  Where the program and something it says of itself disagree, the
property is defined and not run; section 5 has these.

The largest runs (`fanout`, `billing`, `quota`, `leases`) explore two to four million
states in half a minute to two minutes on two cores.

**Bounds of `EmailSend`.**  Two lanes are the fewest that can disagree, and a third
adds nothing that the first two do not do to each other: `SendsOnce` is proved for any
number.  One retry and one expiry let a job be handed out twice, run twice at once,
and reach the dead-letter queue.  `lanes` has no clock: with a horizon of 0 every "old
enough" and "due" guard is open, so the sweep may run at any moment, which is more
than the code allows.  In runs with a clock the last instant stands for all later
ones, so nothing is cut off by the end of time.  Two mailboxes on one message make one
that loses a unit while it is charged.  `quota` has one email because with two
`ReservationsCovered` fails across midnight, for the reason of `RefundsItsDay`, and
one drain because with two it fails within a day (both in section 5).

**Bounds of the others.**  In `WebhookDrain` the lease is one tick longer than a pass,
the tightest the assumption allows; the sweep's fifteen minutes are one tick, which is
sooner than the code and so meets more rows in mid-pass.  In `BroadcastFanout` a page
of one contact makes two pages of two contacts; with one death, a walk resumes from a
cursor it stored one page ago while the audience has changed, and a stop falls between
two pages; `stops` has one row, with everyone who may hold a copy of it, twice.  It has
no death: a process that dies with a debt leaves its units on the counter, the safe
side, and a lane that dies leaves the row claimed.  In
`QuotaCounters` ceilings of one and two are met by batches of one and two, so each
statement is refused after each of the others was granted; four transactions let two
that overlap leave a state in which two more do.  In `Billing` an allowance of 0 makes
each unit one of overage; `MaxTurns` bounds what Stripe does by itself, which with
`Subscribe` and the end is a payment that fails and is made good, or a subscription
that ends and is replaced; each caller that ends a subscription does so once.  One
failure is a rollback at any step or an answer that is refused or lost.  In `FreeBurst`
two messages are larger than a burst and one is smaller, so a slot lies at its date,
behind the clock and ahead of it; with a window of two and five instants a row is held
past its slot, booked again and passes together with the next.  The bound of
`PassesPaced` is tight: with one less, `burst` refutes it.

Symmetry is used for identical lanes, mailboxes, messages, requests, passes,
connections and syncs, never with liveness.  Deadlock is not checked where the system may stop: every
email is settled, the broadcast has ended, or the bound of transactions is reached.
`billing`, `leases` and `retries` check it.

**Fairness** (`settles`).  Each lane takes its steps, because an async function
that is alive continues.  pg-boss hands out a due job in turn (strong fairness of
the fetches: a lane may be busy in between).  A dead letter is handled at some
moment at which no lane holds the claim (strong fairness): it is the one assumption
about luck, and it is what the dead-letter queue's own retries make likely.
`sends.reconcile` runs every fifteen minutes (weak fairness of its two actions,
which stay enabled).  SES publishes the events of what it took, and they are
consumed: a row whose lane died between the join key and the status flip has no one
else, as the sweep leaves joined rows alone.  Nothing is assumed of the API's
enqueue, of the drain, or of SES answering: a job may be lost and a send never
return.  Expiries are bounded, since a job that expires under every handler for ever
settles nothing.

**Fairness** (`retries`).  A pass that is alive goes on, a job that is due is fetched,
time passes and the sweep runs.  Strong fairness of a claim, a check, a take and a
post *within the budget* says that not every pass loses its twenty seconds before its
first post.  The bound on failures is part of it: passes that die for ever deliver
nothing.  A refused row comes back because its pass re-arms; a row whose pass died
because its lease ends and the sweep finds it.

**Fairness** (`ends`).  Walks, lanes and drains that are alive go on and the crons run
(weak fairness).  Strong fairness says that a pause, a hold, a screening and a refusal
do not come back every time: a process that tries again and again gets past each
check.  Nothing is assumed of the enqueues: the job of `Schedule` and those of a page
may be lost, and it is `Rekick` and `Requeue` that save the broadcast.

## 4. What is proved

Every theorem is for any values of the constants that satisfy the module's
assumption.

| Theorem | States | For |
|---|---|---|
| `EmailSendProofs.Typing` | `TypeOK` | any emails, lanes, drains, schedule and bounds |
| `Claims`, `SendsOnce`, `TellsOnce`, `EndsUnsent`, `FailsUnsent` | `ClaimInv` and the four safety properties | the same, when SES names what it takes (`MaxUnnamed = 0`: when an answer names no message, `sendRaw` throws, the claim is released and the retry sends again) |
| `Implements` | `KeepsPromise`: `EmailSend` implements `EmailPromise` | the same |
| `ReportsStand` | `NeverBack` | any emails and actors, also when SES names nothing |
| `ReservationsStay` | `ReservationsCovered` | any emails, recipients, lanes and moves, within one UTC day (`Day(Horizon) = 0`) and with one drain at a time (`SoleDrain`) |
| `ChargesAhead` | `ChargedAhead` | any emails, days, lanes and moves without a drain, or with any drains and no PATCH of `scheduled_at` (`NoMoveUnderDrain`) |
| `IdempotencyProofs.KeyTyping`, `OneEmail`, `Stands`, `Answers` | `TypeOK`, `OneEmailPerRecord`, `SentStands`, `AnswersExist` | any requests, bodies, lease and life |
| `WebhookDrainProofs.DrainTyping`, `RowsApart`, `EveryAnswerCounts`, `WaitsKept` | `TypeOK`, `LeaseExclusive`, `CountsEveryAnswer`, `WaitsRespected` | any deliveries, passes, workers and waits, a lease longer than a pass |
| `BroadcastFanoutProofs.FanoutTyping`, `EveryoneIsReached`, `ChargesStay` | `TypeOK`, `EveryoneReached`, `ChargesCovered` | any audience, page size, walks, lanes, drains, deaths and stops |
| `StopsHold` | `StopHolds` | the same, with one drain at a time (`SoleDrain`), and without deaths (`MaxDeaths = 0`) or with one lane (`SoleLane`) |
| `QuotaCountersProofs.CounterTyping`, `CapsHold` | `TypeOK`, `WithinCaps` | any teams, days, domains, batches, connections and ceilings |
| `NoRingWaits` | `NoDeadlock` | the same, where no team leaves its Free pool (`OnePool`), or where the batches name their days and domains in one order (`InOrder`; the batches of `pools` do) |
| `QuotaChargesProofs.WarmsTogether`, `ChargesOnce`, `PoolCoversMail` | `WarmTogether`, `ChargedOnce`, `PoolCovers` | the same, finitely many teams and domains |
| `BillingProofs.BillingTyping`, `RowNeverOlder`, `ReportsAreMetered`, `UnitsBilledOnce`, `PlanConverges` | `TypeOK`, `NeverOlder`, `ReportedIsMetered`, `BilledOnce`, `Converges` | any subscriptions, syncs, runs and failures |
| `FreeBurstProofs.BurstTyping`, `SlotsBookedOnce`, `MailIsPaced` | `TypeOK`, `BookedOnce`, `PassesPaced` | any messages, costs, window, lanes and slack |

**One send per email** (`ClaimInv`).  That SES takes an email once is not inductive:
one must know that a lane about to submit is the only one, and that nobody has
submitted before.  `ClaimInv` says so in four parts.  `OneOwner`: of two lanes between
their claim and the end of their bookkeeping, no two hold the same email.
`OwnerKnows`: while a lane holds a claim before SES answered, SES has nothing and the
row is claimed, or was written off by the sweep.  `TakenStays`: a row SES took is
claimed or failed, and is never back in a state in which another lane, a drain, a
cancel or a refusal would act on it; the message SES took is number one, which is what
ties an event to it.  `EventTaken`: the event being applied is of a message SES took.
Each step is one of two kinds.  Steps that only touch rows nobody owns (`Quiet` in the
proofs) keep it because their guard, the exact status without a claim, excludes owned
and taken rows.  The steps of an owner keep it because it is the only one.
`ReportsStand` needs none of this: every update of a row a customer was told about is
guarded by the ladder or by an exact status of the queue, so it follows from the type
of the row alone.

**Reservations are covered** (`SpentInv`).  The counter is at least the sum, over the
emails, of a load `h`, and of what the drain is about to refund (`Counts`); the load of
an email is no less than what its row holds, nor than what the drain would give back
for it (`Bears`).  Both are needed: `parkQueued` gives back the units of the row as it
is now, and a re-park those of the page as it was read, which may be more, since a lane
strips suppressed recipients in between.  So the load may stay above the charge, and
the invariant says that *some* load does: a reservation adds to an email's load, a
park, a held cancel or a re-park sets it to zero and takes no more than it off the
counter, and every other step leaves it (`CalmSpent`).  `HoldInv` says that a queued
row holds its units and that a page is no older than the rows are large; `CopyInv` that
a lane's copy differs from the row by suppressed recipients only, so that what a lane
writes back never grows a row.  The sum is the size of the set `Pairs(h)`, which
`Recount` moves with one load.  With two drains the page of the second run can be larger
than the load (section 5); across midnight a refund goes to another day.

**Charged ahead** (`AheadInv`).  Most steps are calm (`CalmStep`, which the two proofs
share): nothing enters the queue, no row changes its date, and recipients are only
lost, so a charge for a day to come stays one; time makes fewer days lie ahead.  An
accept charges the day it asks for, and a PATCH either finds the row charged for that
same day or charges it anew.  A drain charges today, which is right because what it has
read is due (`PagesDue`) and stays due: that is the part a PATCH between the read and
the release takes away, and why the theorem has no drains or no PATCH.

**One email per record** (`SentStands`).  `OneEmailPerRecord` speaks of emails
accepted long ago; what carries it is that a record that was completed stands, with
its expiry, until it has expired.  Taking over, releasing and completing all ask for
an incomplete record, so none of them touches it; only expiry and the purge do.

**One pass per delivery** (`DrainInv`).  A pass that has spent `s` of its time holds
rows whose lease has `Lease - s` left at least (`Leased`), and no pass outlives
`PassTime < Lease`: so a row that is due again is in nobody's hands, and a claim takes
rows from no living pass.  That needs each pass to hold a row in one way only
(`Orderly`).  Because a row has one holder, the count its holder read is still the
row's count when the answer is written (`Knows`), and no answer is lost; `RungLeft`
says that a row that may be posted has a rung of the schedule.  `WaitsKept` adds, of
each pass, how far its longest throttle and its time have come.

**Everyone is reached** (`ReachInv`).  No cursor is ever ahead of the rows: neither the
stored one, nor that of any walk, whichever walk wrote it (`ReachedTo`).  A page leaves
out nobody below its end who has no row (`PageClosed`), what was dealt with in a page
has its row or left the audience (`PageWritten`), so a walk may move its cursor to the
page's end, and store it with the next heartbeat.  Two walks that overlap may set the
cursor back; that costs a page, not a contact.

**Every queued row is charged** (`DebtInv`).  The counter is at least the number of
rows that went out or may go out (`Covered`) and of the units the processes have yet to
give back (`Debt`, one pair for each unit, so that a sum over processes is the size of a
set).  The debts are what makes it inductive: a stop collects its own flip by flip and
releases it in one statement at the end, a drain gives back what it parked again, and a
row that leaves the queue without a release in the same step puts its unit on a debt.
A process that dies with a debt leaves its units on the counter, the safe side.

**The stop holds** (`StopInv`).  Once the broadcast is canceled no lane passes its look,
so only the lanes already past it matter, and only rows that are queued behind the last
flip.  A walk or a lane that put such a row down found it before (`HeldInv`), and a
drain cannot: what it has yet to release was parked when it was picked, and the first
flip of a round sweeps it off (`PageInv`).  What is left is a claim given back, whose
lane is about to park it (`LateClaims`), the exception the property makes.  With two
drains a row in one's page may be re-parked by the other behind the flips, and a lane
that dies before it parks leaves a queued row behind; both break the property (section
5), hence the hypotheses.

**No counter past its ceiling** (`CapsInv`).  A transaction's sum of committed and own
units is within each ceiling and not negative (`Sound`), and it holds each row it has
changed, so that nobody else's commit can move that sum; the locks of two transactions
are disjoint.  What is taken back by hand, without a floor, was taken in the same
transaction (`Taken`), and an item that still goes out has its rows locked (`Backed`),
so that its return does not let go of a row.  `Giving` bounds the releases in flight by
the units that are out.

**No ring waits** (`OrderInv`).  While a day is reserved, what a transaction holds is of
the ledger and no later than that day, with the team's row of the day before the pool's
(`ByDay`): one that waits for a row of the ledger is blocked by one that is at a domain,
or is further on in the order of these rows (`Rank`), and a finite ring has one that is
furthest (`Highest`).  Nobody waits for a warm-up row of its own team, since whoever
holds it holds the team's row of that day too (`Guarded`).  The rows of the domains are
what the code does not order.  Transactions of one pool hold the pool's row of the day
before they come to a domain, so no two are there on one day; otherwise the rows a
transaction holds are those of items before the one it is at (`Upto`), and a common
order of the items does for the domains what `Rank` does for the ledger.

**Charged once** (`ChargeInv`, `WarmInv`).  A sum over teams or keys is the size of a
set of copies (`Total`), which moves with one term.  The committed counters equal the
mail that is out (`Counted`), since each transaction's own additions are, at every
statement, the items it will let go out: those of the days that are settled, and of the
day at hand as much as the statements before its place have added (`Booked`); a release
takes one unit from each of its rows (`Given`).  `Links` ties a transaction to the plan
its team had when it began: until a team changes plan the pool and the periods are
exact too, and until one falls back to Free no unit is given back to a pool that never
counted it.  For the warm-up, a transaction's addition to the teams' counter is the sum
of its additions to the domains, and one more between the two statements (`WarmBooks`).

**Metered once** (`CoverInv`, `BilledInv`).  What the row counts as reported was
metered, in the row as written and in the row a rollback would bring back
(`CoverInv`).  A metered step ends where the row has caught up, or is the pinned step
(`Chain`); a step on its way to Stripe was metered, or is the pinned one, and no
transaction can take that pin back under it (`StepInv`); a sync that has written the
usage row did so with a step of its own, or with one that had been metered
(`HeldInv`).  A rollback that takes back the pin of a step Stripe had counted ends this
argument, as it ends the property (section 5); `BilledOnce` is stated up to then.
`RowNeverOlder` rests on `TurnInv`: only the owner of the lock is between its fetch and
its write.

**The plan converges** (`SettledInv`).  A subscription is created after those before it
have ended, and every event tells of a state Stripe has reached (`StripeInv`).  What a
sync has read of Stripe is no older than its own event, nor than any event that was
handled (`Read`), because it reads under the customer's lock and after the event came;
so what it decides is the plan of every subscription that is paid and whose latest event
was handled (`Decision`), and what it writes keeps `PlanInv`, the statement about the
row.  A sync that skips has found another subscription than the row's, no longer
active.  Writers without the lock end this argument and the property with it
(`clobbered`, section 5).

**Paced mail** (`PaceInv`).  A booking takes a stretch of the virtual clock as long as
its cost, and no two stretches overlap, since each begins where the clock stands
(`ClockInv`).  Its slot is where that stretch comes into reach (`Placed`), and who
passes does so with a booking of its own that is good: not before the slot, and less
than a window and the slack after (`Backed`).  So what passes between two instants fits,
message after message, in the stretch of the clock that is in reach between them, whose
length is the bound: the proof maps each unit of cost to its place on the clock and
counts.  A row is not booked twice because it keeps its newest slot (`Newest`) and the
lane that books holds its lock since it saw that slot spent (`LaneOk`, `OneLock`).

**Only model-checked.**  The liveness properties `Settles`, `NextPost` and `Finishes`:
liveness is beyond this prover.  Every invariant and every action property of a passing
run is a theorem, some under the hypotheses the table names.

## 5. Known disagreements

Places where the program does something else than a comment, a document or a name of
it says.  Each is a definition of the module, with the property it would be; the way
to see it is to add the definition to a configuration changed as said.  Each takes
seconds.

1. **A reschedule loses to a lane** (`EmailSend.NeverEarly`).  `send-email.ts:588` looks
   at `scheduled_at` once, and the claim guards only the status and `sent_at`: a PATCH
   to a later time in between answers 200, and the mail goes out at once.  `app.ts:4602`
   says "a reschedule racing the send loses cleanly" and `app.ts:4678` "a LATER time is
   exact".  As `settles`, as a `PROPERTY`, with `Spec`, a day of two and a ceiling of two.
2. **A park gives back today's units** (`EmailSend.RefundsItsDay`).  `parkQueued`
   (`send-email.ts:398`) releases today's counter, whatever day was charged, though it
   says "the same counter accept charged".  As `settles`, as a `PROPERTY`, with two
   unscheduled emails.
3. **The drain charges today for mail of a later day** (`EmailSend.ChargedAhead`).
   `releaseParked` (`cron.ts:711`) charges the day of its run for a row that a PATCH
   moved to a later day after the page was read.  As `settles`, with a drain.
4. **A 200 for another body** (`Idempotency.AnswersOwnBody`).  `completeIdempotent`
   and `releaseIdempotent` (`idempotency.ts:81`, `:93`) name a record by its key: a
   stale owner's release frees its successor's claim, and the successor then completes
   the claim of another body.  As `key`.
5. **A key nobody releases** (`Idempotency.NeverBricked`).  A superseded request claims
   the key again (`app.ts:4021`) and, when it gets it, answers 409 without releasing
   it: until the lease is over the key is in use by nobody.  As `key`, with three
   requests and one body.
6. **A stop that leaves a parked row** (`BroadcastFanout.StopReachesAll`).  A standing
   hold parks a row (`send-email.ts:598`) before the stop is looked at (`:658`); when it
   does so between the two flips of a last round of `cancelBroadcastRows`
   (`broadcast-pacing.ts:290`: "until a pass moves nothing"), the row stays parked, and
   the drain visits broadcasts that are sending or sent only (`cron.ts:336`).  As
   `stops`, with one contact.
7. **Sent with rows still waiting** (`BroadcastFanout.SentIsDone`).  Between the probe
   of one finalizer and its update, a walk may write its last rows and end.  As
   `stops`, with a cron.  The rows still go out.
8. **Two teams may deadlock on two domains** (`QuotaCounters.NoDeadlock`).
   `domain-warmup.ts:294` counts on an order of the counters; items of a batch reserve
   their domains in the order of the request.  Teams of one Free pool meet at the pool
   first; teams without a common pool that warm up the same two domains
   (subdomains of one registrable domain: `routes/domains.ts:557` refuses the same name
   only) and send to them in opposite order wait for each other, and Postgres ends one.
   As `pools`, both teams paid, with ceilings of two and batches of two items of one day
   in opposite orders.  No two batches need share two domains: with three connections,
   the batches `<<a, b>>`, `<<b, c>>` and `<<c, a>>` of three paid teams make a ring.
9. **Billing's row and its lock.**  (a) A report inside the transaction of
   `applySubscription` pins its step there, so that a rollback takes the pin back whose
   step Stripe counted, and the next report may name the unit otherwise
   (`overage.ts:121`): `BilledOnce` without `~undone`.  (b) `endSubscription`,
   `endMoveUpWait` and `setOverage` write billing columns without `lockCustomer`, which
   `subscription.ts:36` says every writer takes: `Converges` without `~clobbered`; the
   daily reconcile heals it.  (c) `applySubscription` goes on when its report failed to
   send (`subscription.ts:131`), and mail may be accepted between the report and the
   write, so that overage is left behind when the item goes: `NothingForgotten`.  All
   as `billing`.
10. **A lapse back to Free** (`QuotaCounters.PoolCovers` without `~lapsed`).  A release
    goes by the plan a team has now (`plans.ts:234`): mail charged to a period is given
    back to a pool that never counted it.  The next day's counter starts at zero.
11. **A stop is not quite the end** (the exception in `BroadcastFanout.StopHolds`).
    `app.ts:3557` says that what a walk already wrote is stopped.  A lane that has looked
    at the stop and not yet claimed its row still claims it when a second lane, which
    held the row during the stop, has its mail refused by SES and gives the claim back.
    And nothing keeps two runs of `quota.drain`, fifteen minutes apart, from overlapping:
    one puts a row, whose enqueue failed, back to parked, and the other releases it again
    behind the stop's two flips, with a lane past its look.  As `stops`, with two drains.
    The same comes of a lane that dies before it parks a row another lane holds: as
    `stops`, with one death.
12. **Mail without a slot** (`FreeBurst.NoneUnbooked`).  A row that is read queued, is
    parked when `freeBurstSlot` locks it and is back before the claim goes out without a
    slot: `if (!row) return null` (`send-email.ts:466`) reads to the caller as "no
    recipient can report one", which is what the comment says of null (`:437`).  As
    `burst`.  `PassesPaced` leaves such mail out of its count.
13. **A refund of a stale page** (`EmailSend.ReservationsCovered` with two drains).  The
    re-park after a failed enqueue gives back the units of the page (`cron.ts:546`), not
    those of the row.  Of two overlapping runs that read a row before it lost a
    recipient, the second may re-park it after it was charged again for less, and gives
    back what another row still holds.  As `quota`, with two drains and a day of two.

## 6. Not modelled, and what comes next

The contents of messages, templates, tracking and the open classifier; AWS calls
other than the send; the judge, a language model behind an API, of which only the
verdict matters; single-table request/response routes; cryptography; the dashboard,
command line, configuration and documentation.  `PROJECT.json` gives the reason for
each part.  They are by far most of the repository's lines: what the modules stand for
is the small part in which several processes share state.

What is worth modelling next, the most important first:

1. `SesEvents`: the event gate, the counters, bounce classes and the parking of
   unmatched events, composed with the fan-out to webhooks; SES repeats a Reject under
   a new id (`process-ses-event.ts:250`).
2. An abstract specification of `WebhookDrain` (at least once, settled once) and the
   refinement, with test deliveries and the folding of tracking events.
3. `PlatformBreaker` (its hysteresis) and `InboundDelivery` (accept and deliver once).
4. The rungs of a plan and the wait of a move up, in `Billing`.

Worth proving next: the refinement of (2).
