# Verification of the incident-response hub

TLA+ modules that model the services of this repository, TLC configurations that
check them on small instances, and theorems that the TLA+ proof system (TLAPS)
checks for every instance. Paths below are relative to the repository.

## 1. Inventory

| Component | State it keeps | Operations | Hard behaviour | What makes it correct |
|---|---|---|---|---|
| **incident-engine, write endpoints** (`services/incident-engine/src/routes/{incidents,status,severity,responders,timeline,postmortem}.ts`, `events.ts`, `db.ts`) | PostgreSQL `incidents`, `timeline_entries`, `post_mortems`; the pod's pool; transactions with an advisory lock or a row lock | declare, change status, escalate severity, assign responders, post an entry, write a post-mortem | two pods, many requests, three kinds of lock, statements that fail, COMMITs nobody hears of, pods that die | the timeline is a true history of the row; what a client was told stays; nothing leaks; every request ends |
| **incident-engine, read endpoints** (list, get, timeline, post-mortem, suggested runbooks) | none | queries | two statements without a transaction; order by `created_at` | a timeline is listed in the order of the changes |
| **runbook catalogue and trigger** (`routes/runbooks.ts`) | `runbooks`, `runbook_executions`, the stream it writes | create, list, execute | row inserted, then XADD fails; the names of the two streams | a triggered execution is run |
| **runbook-worker** (`services/runbook-worker/src`) | `runbook_executions`, consumer group of `stream:runbook-executions`, `stream:execution-progress`; the executor's results in memory | read a batch, run steps with retries and timeouts, save, report, roll back, settle, acknowledge; the watchdog | replicas, a watchdog that races the executor, crashes, rejected calls | commands run in order and once; the final status is the one the results call for; nothing stays running |
| **escalation timers** (`services/notification-service/src/escalation/timer-manager.ts`) | Redis hash `escalation:{id}`, sorted set `escalation-timers` | consume incident events, poll expired timers, notify, advance a level | overlapping polls, two replicas, state written back after several awaits, events out of order | levels in order and when due; none after a status change; re-armed by it |
| **notification delivery** (`stream-consumer.ts`, `routes/notifications.ts`, `delivery/`) | Redis hash per notification, sorted set per incident | consume, send with retries, list | crash between the record and the delivery | every notification reaches a final status |
| **escalation policies** (`routes/escalation-policies.ts`) | Redis string per policy | create, list, get | boundaries of the levels | levels strictly increase |
| **analytics-service** (`routes/metrics.ts`) | Redis cache of computed metrics | four queries through the cache | a metric cached after the data changed; calendar arithmetic | stale for one TTL at most; buckets contiguous |
| shared types and utilities, test helpers, k8s, compose, scripts | none | | | |

**How they interact.** The engine commits to PostgreSQL, answers, and then appends an
event to the Redis stream `incident-events`, which the escalation timers read; they call
the engine back over HTTP to post an `escalation` entry. Executions are rows of
`runbook_executions` plus one message each, which a worker reads as a member of one
consumer group. Workers and engine share the database; the analytics service only reads
it. Each deployment runs two replicas (`k8s/*-deployment.yaml`).

The hazards of this code, each at its line and with the properties that guard it, are
listed in `PROJECT.json`; those without a property say why.

Three joints of this repository do not fit, and the models treat each explicitly:

- the engine appends executions to `runbook-executions` (`runbooks.ts:423`), the worker
  reads `stream:runbook-executions` (`consumer.ts:5`). `RunbookWorker` has the engine's
  name as the constant `EngineStream`. `worker_all` checks the system with both ends on one
  stream, since nothing of the worker could be said otherwise; `stream_mismatch` checks the
  names of the code and finds that no accepted execution is ever read;
- `publishNotificationRequest` appends one field `data`, the consumer of notifications
  reads one field per value. Nothing calls that function; such a message is the kind
  `"incomplete"` of `NotificationDelivery`;
- the deployment does not set `INCIDENT_ENGINE_URL`, so the notification-service posts its
  timeline entries to itself. `PostEntry` of `EscalationTimers` has a post that is lost.

## 2. Plan

1. `IncidentLifecycle` against `IncidentContract`: every safety property and the
   refinement proved.
2. `RunbookWorker`, with the trigger handler, against `ExecutionContract`: every safety
   property and the refinement proved.
3. `EscalationTimers`, with the creation of policies, against `EscalationContract`: every
   safety property and the refinement proved.
4. `NotificationDelivery`: every safety property proved.
5. `MetricsCalendar` and `AnalyticsMetrics`: every safety property proved.

What is left is out of the prover's reach (section 5), or not modelled (section 6).

## 3. Modules

| Module | Role |
|---|---|
| `IncidentData` | rows, timeline entries, the transition table, the severity order; the operators that say what each UPDATE and INSERT writes |
| `IncidentContract` | abstract specification: each change of an incident and the entry that records it happen in one step |
| `IncidentLifecycle` | the six write handlers, one statement (one `await`) per action, over replicas with pools, two kinds of locks, and faults |
| `MCIncidentLifecycle` | instances for TLC |
| `IncidentLifecycle_proofs` | proofs: what the writes do to rows and timelines; the inductive invariant |
| `IncidentHistory_proofs` | proofs: the refinement, the histories in the timelines, answers, events, locks and clients |
| `RunbookData` | steps, sorting, results, what a step may record |
| `ExecutionContract` | abstract specification of the row of an execution |
| `RunbookWorker` | consumer loop, executor and watchdog of the replicas, with faults |
| `MCRunbookWorker` | instances for TLC |
| `RunbookData_proofs` | proofs: sorted steps are a permutation in order, results follow their steps |
| `RunbookWorker_proofs` | proofs: the inductive invariant, the properties, the refinement |
| `EscalationContract` | abstract specification: the levels of an escalation begin one after the other while it is live, and none after it has stopped |
| `EscalationTimers` | the incident events, the policies, the hash and the timer of each incident, both polls of the timer manager, with faults |
| `MCEscalationTimers` | instances for TLC |
| `EscalationTimers_proofs` | proofs: the inductive invariant, the properties, the refinement |
| `NotificationDelivery` | the consumer of notifications and `POST /notifications`, with faults; its own configuration instantiates it |
| `NotificationDelivery_proofs` | proofs: the inductive invariant and the properties |
| `Queues_proofs` | lemmas on XADD, XREADGROUP and the loop over a batch, for the three consumers |
| `MetricsCalendar` | pure: the calendar, valid ranges, the buckets, ISO weeks |
| `AnalyticsMetrics` | the four metrics and the handlers that compute and cache them, beside a changing table, with faults |
| `MCAnalyticsMetrics` | instances for TLC |
| `AnalyticsMetrics_proofs` | proofs: the calendar, the buckets and the ISO weeks, the inductive invariant, the properties |

### IncidentLifecycle

A *request* is a handler in flight on a replica; `pc[r]` names the statement it is about to
run and `seen[r]` the row it read. The actions follow the handlers:

| Code | Actions |
|---|---|
| `pool.connect()`, `BEGIN` | `Connect`, waits while the pod's pool is out (`ClientFree`) |
| status: `pg_advisory_xact_lock`, SELECT, COUNT of resolutions | `AcquireAdvisory`, `ReadStatus`, `CheckResolution` |
| severity, responders: `SELECT ... FOR UPDATE` and the checks | `SelectForUpdate` |
| the UPDATE and INSERT of the transaction | `Write`, which takes the row lock for status and waits for it |
| `COMMIT`, answer | `Commit` (the writes become visible, locks are dropped), `Reselect` for the handlers that read again |
| `publishIncidentEvent` | `Publish` |
| the 400 and 404 returns | `Rollback` |
| timeline, post-mortem: their single statements | `Find`, `FindExisting`, `TakeClient`, `InsertEntry`, `InsertPostMortem`, `FetchTimeline` |
| catch blocks, unhandled rejections, lost acknowledgements | `StatementFails`, `Crash`, `CommitUnacknowledged`, `InsertUnacknowledged`, `PublishFails` |

PostgreSQL runs at its default READ COMMITTED. The model has what that gives: statements
see committed rows only, writes become visible at COMMIT, `FOR UPDATE` and `UPDATE`
exclude each other on a row, an INSERT that refers to an incident waits for `FOR UPDATE`
(key-share) and not for a plain `UPDATE`. The key of the advisory lock is a function of
the id that need not be injective (`LockOf`). Texts, authors, timestamps and identifiers
are left out; of `resolved_at` and `closed_at` the row keeps whether they are set.

### RunbookWorker

`Trigger` is the INSERT of `POST /runbooks/:id/execute`, `Accept` its XADD and 202,
`AppendFails` an XADD that is rejected - with or without having reached Redis - or an engine
that dies in between: the row stays pending. The two lookups before it are the assumption
that the incident and the runbook exist.

A worker's `batch` is what it has read and not finished, its `pc` the statement it is at.
`Poll` is XREADGROUP with `>`; `Start` is `fetchRunbookSteps` and `markExecutionRunning`;
`SkipManual` and `Attempt` are one step of a list, `Attempt` one run of its command;
`Save` is the UPDATE of `step_results` and `last_progress_at`; `Report` the XADD;
`FetchRollback`, `Settle` and `Ack` the rest. The same actions run the rollback list once
a result is bad, as `executeRollback` shares `executeStepWithRetries`; rollback results are
reported and not saved until `Settle`. `Watchdog` is the UPDATE of `watchdog.ts` on all
stalled rows at once; `progress` is what it looks at: NULL, recent or stale, made stale by
`TimeoutPasses`. `Throw` is any rejected query or XADD (caught by `processMessage`, which
acknowledges anyway), `AckFails` an XACK that is rejected (the rest of the batch is
dropped), `Crash` a pod that dies or gets SIGTERM, which here also closes its connections
under the running execution. A pending message is never read again: nothing claims it.
The length of the backoff and the output of a command are left out. An execution whose
UPDATE was applied before a rejected reply is the step followed by the end of the message.

### EscalationTimers

Both polls of `timer-manager.ts` are callbacks of `setInterval` that nothing keeps from
overlapping, and both replicas use one consumer name, so the processes are *runs*: a
`Consumers` element is a run of `consumeIncidentEvents`, a `Pollers` element one of
`checkExpiredTimers`. Time counts in minutes.

| Code | Actions |
|---|---|
| the engine commits, and publishes un-awaited | `Declare`, `ChangeStatus`, then `Publish` in any order or `PublishFails` |
| `POST /escalation-policies` | `StorePolicy`, guarded by the validation, `Accepts` |
| XREADGROUP, `getFirstEscalationPolicy`, HSET, ZADD | `Consume`, `FindPolicy`, `StoreState`, `Arm` |
| `handleStatusChanged`: DEL, ZREM | `DropState`, `Disarm` |
| XACK and the next event | `Ack` |
| ZRANGEBYSCORE, HGETALL, GET and deliveries, HTTP post | `Poll`, `ReadState`, `Notify`, `PostEntry` |
| HSET and ZADD of the next level, or HSET and ZREM after the last | `Advance`, `Schedule`, `DropTimer` |
| a policy that is not found | `LookupFails`, `Expire`, `DropTimer` |
| a rejected call or a dead pod | `ConsumerStops`, `PollerStops` |

Redis keeps a sorted set in the order of its scores and settles ties by the member's name;
a poll here lists incidents that are due together in any order, which is every order the
names can give. The levels of all policies are numbered by `Levels`, 0 to 9, as the
validation admits ten at most.

The refinement maps an incident to a phase: live while its hash has a policy and an active
timer, new while its declaration may still arrive, stopped otherwise. That a slow poller
which writes back to a deleted hash does not make it live again is what the code owes to
HSET writing single fields and to the check of `policyId`; the mutant that writes the whole
state back breaks it. The contract's `Stop` takes a set of incidents: one pod that dies takes
every declaration of its batch with it, and each of those escalations is over at once. With
one incident, which is what TLC checks, a `Stop` of one incident was enough; the proof for
any number of them was not to be had until the contract said so.

### NotificationDelivery

A notification comes over HTTP or as one of four kinds of messages. `Store`, `Index`,
`Send`, `Settle`, `SaveRetries`, `SaveError` and `Finish` are the awaits of both handlers;
`Count` and `Recount` are the two HSETs that only the HTTP handler has in its loop.
`Rejected` is a rejected call of Redis: the consumer catches it message by message and
leaves the message unacknowledged, which nothing reads again; express 4 does not catch the
rejection of an async handler, so over HTTP it ends the process, with its other handlers and
its batch. The only channel that fails is one that does not exist, as the handlers are stubs.

### AnalyticsMetrics and MetricsCalendar

A day is its number since 1970, a moment a number of half days (the least with which a
range may begin at noon). The calendar itself stands for JavaScript's `Date` and
PostgreSQL's `date_trunc`; the buckets, the ISO weeks and the validation of the ranges are
the code's. Days before 1970 count too: a range may begin there. `getISOWeekNumber` reads the local time and `date_trunc` the time zone of the
session; neither image sets one, so both are taken to be UTC. Means are in whole minutes and
percentages in whole percent.

A handler is `Ask`, `Lookup`, `Connect`, `Query`, `Store`; the four handlers differ in what
they validate and compute. What they find is kept with the table and the day it was
computed from, so the properties can say what the answer should be. `Tick` moves the clock,
at one tick past midnight, and lets keys expire.

## 4. What the runs check

| Run | Instance | Shows |
|---|---|---|
| `lifecycle_all` | 2 requests of all 6 endpoints, 1 incident, 2 severities | type and inductive invariant, audit trail, evidence before resolution, nothing after resolution, everything published, refinement of `IncidentContract` |
| `lifecycle_rows` | 3 concurrent escalations and assignments, 3 severities, 2 people | severities rise in one chain, acknowledged changes are kept |
| `lifecycle_faults` | 2 pods with pools of 1, one fault of any kind | no leak of locks or clients; only committed changes are published |
| `lifecycle_live` | as above without faults, fair | every request ends |
| `worker_all` | 2 workers, 2 executions (3 steps in stored disorder with 2 rollback steps; 1 manual step), batches of 2, one fault, one stream, fair | type and inductive invariant, commands in order and never again, honest final status, row before stream, finished rows untouched, refinement of `ExecutionContract`; without a fault every execution settles; a stalled execution that recorded a step fails |
| `stream_mismatch` | the stream names of the code, no fault, fair | **finding**: an accepted execution is never read; `README.md:54` names one stream |
| `stalled_unseen` | one crash, fair | **finding**: an execution lost before its first recorded step stays running; `design.md:694` says the watchdog fails it |
| `escalation_all` | 1 incident with a status change, two requested policies of 2 levels, the first of which the validation refuses, 2 consumers and 2 pollers, one fault, fair | inductive invariant (with the types), order of the levels, nothing told before the first threshold, refinement of `EscalationContract`; an armed escalation tells and records every level; the timer of a stopped one goes |
| `escalation_early` | the same with 1 consumer and no fault, one minute longer | **finding**: the slower of two polls tells the next level before its time; requirement 12.2 |
| `escalation_standstill` | 1 consumer and 1 poller, no fault, fair | **finding**: after a status change nothing is escalated again; requirements 12.1 and 12.4 |
| `notifications_all` | 2 notifications, 2 replicas, batches of 2, one fault, fair | type and inductive invariant, true outcomes, at most one delivery, what is sent is listed, full records, every notification settles |
| `metrics_all` | 2 requests on one or two replicas with pools of 1, 6 pairs of queries, TTL of 2 ticks, one midnight, one write, one fault, fair | every metric is true of the table it was read from, nothing is served past its time, every request is answered; the inductive invariant (with the types) |

**Bounds.** `MaxTrail` stops new posts and assignments on a long timeline (the lifecycle
itself is finite); `MaxFaults` is one: each fault ends a request or an execution, so one
fault beside a second actor meets every pair of a failed and a healthy run. Two requests
are enough for the check-then-act races, which are between two transactions; three are
used where a chain of updates matters. One incident is enough because requests to
different incidents share only the pool and, at worst, the advisory key, which all
incidents share here. Pools of one client per pod are the tightest the pool can be. The
runbooks have one step of each kind, a retry, a stored order that differs from the run
order, and rollbacks with and without commands. Two pollers are enough for one to overtake
the other at every await; a second incident would only lengthen a poller's list.
`MaxTime` leaves room for a whole escalation after the last change. Of the metrics, both
requests are of one kind or of two that share a range: two of unrelated kinds share only the
pool, which a pair of one kind shares too. Their ranges begin at noon in the middle of a
week, span a year to the day, half a day more, and a new year whose first ISO week begins in
the old one. `CHECK_DEADLOCK` is off for the runs other than those of the lifecycle: when
every execution, escalation, notification or request is done, the system rests.

**Fairness.** `lifecycle_live` assumes strong fairness of each request's next statement:
PostgreSQL queues waiters for a lock and pg-pool queues waiters for a client, both first
come first served, so a request whose turn can come again and again gets it. The
others assume weak fairness: Node's event loop resumes an answered await, a command ends at
its timeout at the latest, time passes, an event whose XADD is sent arrives and the intervals
of the watchdog and of the polls fire. In `metrics_all` weak fairness of a waiting `Connect`
is enough: no more than two requests share a pool. Nothing forces a
client to call, or a fault to happen.

Each property has a mutant: a definition of the model replaced by a slip a programmer could
make there (the operators commented "Slip"), under which TLC finds the property violated.

## 5. What is proved

Each inductive invariant is a definition of its module, `IInv`, that a run checks before
the proofs use it; the theorems hold for every value of the constants that the named
assumptions allow.

**Incident lifecycle** - any number of requests, pods, incidents, people and lock keys, any
pool size and number of faults, every `LockOf` (`NoRowAssumption`, `LockAssumption`,
`OpsAssumption`, `BoundAssumption`).

- `InductiveInvariant`: `IInv` is `TypeOK`, `OneDeclaration` and, for each request, `Sound`:
  the endpoint fits the statement, a transaction past its lock statement still holds its
  lock (`LocksHeld`), and **what the handler read still holds** until its COMMIT
  (`ReadHolds`). The last part is the argument of the whole service: a transition is
  protected from other transitions by the advisory lock and from escalations by the row
  lock its UPDATE waits for; an escalation is protected from everybody by `FOR UPDATE`. The
  audit trail alone is not inductive: it needs to know that the status about to be written
  is still a successor of the one in the row. `TypeCorrect` follows.
- `Implements`: the refinement. COMMIT maps to the contract's step, by `IInv`; every other
  action, faults included, stutters or posts.
- `AuditTrailHolds`, `SeverityTrailHolds`, `EvidenceFirstHolds`, `FrozenOnceResolvedHolds`:
  proved over the contract's steps from `History(i)`, a strengthening that ties the end of
  each chain in the timeline to the row, and carried down by the refinement.
- `AcknowledgedKeptHolds`: rows and timelines only move forward (`Grows`: the rank of the
  status and the severity never fall, responders and entries are never removed), so an
  answer that is true when it is given stays true. `Acknowledged` adds to the property the
  answers that are about to be given: severity and responders tell the client in a
  statement after the COMMIT, and the post-mortem after its INSERT.
- `PublishedIsCommittedHolds` and `EverythingPublishedHolds`: `Committed` says that what a
  handler at its publication is going to append is in the timeline, `Announced` that while
  nothing has failed an entry is on the stream or such a handler carries it.
- `NothingLeaksHolds`: `Tidy` says that the clients lent are those of the requests at a
  statement of a transaction, neither more nor fewer, and that their set is finite, though
  `Requests` need not be: each pod lends `PoolMax` at most.

**Runbook worker** - any number of executions, workers, steps and retries, any batch size,
faults of any kind (`WorkerAssumption`; `PlanAssumption`: the stored steps are what the
catalogue's validation lets through, with distinct orders). `EngineStream` is any name: with
the one the code has, no worker ever starts.

- `InductiveInvariant`: `Owned` - a message is unread, in one worker's batch, or gone, and
  what nobody has started is pending - and, for each worker, `Collecting` and `Running`: its
  memory, the row, the progress stream and the commands that have run agree at every await.
  The properties are not inductive without it: that no command runs twice needs that no
  other worker has the execution, and that a final status is honest needs that the row which
  the watchdog may have failed meanwhile is still the one the memory was collected for.
- `HonestStatusHolds`, `CommandsInOrderHolds`, `RowLeadsStreamHolds`, `OutcomeStaysHolds` (an
  action property), `TypeCorrect`, and `WorkerImplementsContract`, the refinement, with the
  watchdog that fails many rows at once and the faults.
- They rest on `AscendingSorts` and `DescendingSorts` of `RunbookData_proofs`: sorting returns
  the same steps in their order, for every stored list (each position has the step with as
  many steps before it, and by the pigeonhole principle no place is empty).

**Escalation timers** - any number of incidents (finitely many, as a sorted set of
Redis is finite: `EscalationAssumption`), policies, consumers, pollers, minutes,
changes and faults.

- `InductiveInvariant`: `Placed` - a declaration is unsent, unread, in one batch, or over -,
  `Untouched` - nothing is known of an incident whose declaration has not arrived -, and
  `Grounded`, `Ripe`, `Reading`: each hash, timer and poller's snapshot is borne out by a
  stored policy, by the levels told so far and by the time. A poll works on what it read some
  awaits ago; `Reading` says which of it still holds: a live snapshot has the policy of the
  hash, or the hash was deleted.
- `LevelsIncreaseHolds`: the validation compares neighbours; the theorem is about any two
  levels. `FirstLevelWhenDueHolds`: whatever overlaps, nothing is told before a stored policy
  has it due. (The later levels are told too early: `escalation_early`.)
- `TimersImplementContract`: the refinement. No level is skipped and a stopped escalation
  begins none, though a slow poller writes to a deleted hash.

**Notification delivery** - any number of notifications and replicas, any batch size, faults
of any number (`NotificationAssumption`).

- `InductiveInvariant`: `Placed`, as above, and `Progress(n)`: what each statement of a
  handler relies on, with the deliveries that a rejected call of Redis makes the HTTP
  handler take for failed attempts (`Miscounted`, `Delivered`). `SentOnce` alone is not
  inductive: it needs that each of them cost a fault.
- `HonestOutcomeHolds`, `SentOnceHolds`, `SentIsListedHolds`, `FinalRecordHolds`,
  `TypeCorrect`.

**Analytics** - any table of incidents with a key, any number of requests, replicas, writes,
ticks and faults, any pool and time to live, every range of moments and every day on which
the model may begin (`MetricsAssumption`: the incidents there are have smaller ids than
those declared later, and are finitely many).

- `InductiveInvariant`: `IInv` adds to `TypeOK` that what a handler is about to store, what
  is cached and what was answered is what its query computes from one state of the table
  (`Sane`), that no key outlives its time (`Fresh`), and that only what is acceptable gets
  past `Ask`. The property alone is not inductive: an answer from the cache is as good as
  the entry, and an entry as good as what a handler held over two awaits. `TypeOK` has the
  clients: what a pool is short of is what its handlers hold. `TypeCorrect` and
  `ServedWhileValidHolds` follow.
- `FrequencyIsTrueHolds`: the buckets the code steps through are those `date_trunc` makes, for
  every range `validateTimeRange` lets through. The lemmas are about the calendar on every
  day: each lies in one year and one month (`YearFound`, `MonthFound`, `MonthIs`), the months
  follow each other (`MonthsRise`), weeks begin on Mondays; so `DailyDivides`,
  `WeeklyDivides` and `MonthlyDivides`.
- `TrendsAreTrueHolds`: `ISOWeekIs` shows for every day that the year and the number of
  `getISOWeekNumber` are those of the rule that week 1 has 4 January in it, and
  `MondayOfISOWeekIs` that `getMondayOfISOWeek` goes back; `WeekIs` that the span the query
  reads has every incident of the five weeks; `ChangeIs` is about the whole percent.
- `MttrIsTrueHolds`: `SumFunction` is a recursive function of the library, and that it has an
  integer for every finite table is `SumType`. The induction theorems of the library take an
  operator, so the proof is by the smallest counterexample (`WFMin`): the recursion has a
  solution up to every number of elements (`SumsExist`), and the chosen one is that one.

**Only model-checked.** Liveness under fairness (`EveryRequestEnds`, `EveryExecutionSettles`,
`RecordedStallFails`, `ArmedIsEscalated`, `StoppedTimerGoes`, `EveryNoteSettles`,
`EveryRequestAnswered`) and ENABLED, which this prover does not handle. The four findings
are counterexamples, not theorems.

## 6. Not modelled, and why

Validation of request bodies beyond ranges, policies and stored steps (an argument that
passes it is what arrives), formatting and pagination; clocks of different machines, so
neither skew in the post-mortem's duration nor `created_at` order (in `AnalyticsMetrics` a
negative duration is part of the data); operating-system processes that outlive their step;
the read endpoints, which change nothing, and the matching of suggested runbooks, a query
over strings; the recovery of PostgreSQL and Redis; the wiring of the servers, deployment
files and test helpers, which hold no logic of the system. Recurring patterns and team
performance (requirement 15) have no code.
