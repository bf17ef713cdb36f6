# Kronkeeper in TLA+

Kronkeeper is a job scheduling daemon in Rust: clients POST jobs, a scheduler
leases each job when it is due, a pool of workers runs it, and PostgreSQL holds
every job row. This directory models the daemon as TLA+ state machines, checks
them with TLC on small instances, and proves the most important properties with
TLAPS for every number of jobs and workers. Paths of source files are those of
the repository (`src/scheduler.rs` and so on).

## The system

| Component | State | Operations | Talks to |
|---|---|---|---|
| Job repository (`src/db/queries.rs`, `src/models/job.rs`) | table `jobs` | insert, lease, set running / completed / state, schedule retry, cancel, reap, recover, fetch; statements on templates and webhooks | called by every task; each method is one SQL statement (two for cancelling a template) |
| Scheduler (`src/scheduler.rs`) | heap of `(id, scheduled_at)`, the leased job at hand | refresh the heap, wait for a deadline or a permit, lease and send, give back | repository, `Notify`, worker queue |
| Worker pool (`src/worker/pool.rs`) | bounded channel, one job per worker, `active`, shutdown `Notify` | receive, set running, execute, handle the result, drain | repository, result handler |
| Result handler (`src/worker/result.rs`) | none of its own | complete, expire, dead-letter or retry; spawn the next instance; webhook; notify | repository, recurring service, webhook, `Notify` |
| Executor (`src/worker/executor.rs`) | none | HTTP request or script, with a time-out | the outside world |
| Reaper (`src/reaper.rs`) | interval timer | reclaim expired leases; recover at startup | repository, `Notify` |
| Jobs API (`src/api/handlers/jobs.rs`) | none | POST, GET, DELETE, PATCH | repository, recurring service, `Notify` |
| Recurring service (`src/recurring.rs`) | template rows and instance rows | create template and first instance, spawn the next instance | repository, `Notify` |
| Webhook emitter (`src/webhook.rs`) | `webhook_*` columns | deliver with retries and back-off | repository, the outside world |
| Daemon (`src/main.rs`) | the tasks | recover, spawn, serve, shut down | all |
| Configuration, authentication, health, metrics, routing | constants, a key map, a flag, counters | read only | - |

What is hard in it: the tasks share nothing but the table, one `Notify` and one
channel, and each keeps a *copy* of what it read (a heap entry, a leased job, a
verdict) across awaits. The statements that use those copies are mostly
unconditional (`WHERE id = $1`), so their safety is a matter of who else may
hold a copy: leases, the reaper, cancellation and restart decide that. Failing
statements, panicking workers, dropped request handlers and crashes can fall
between any two statements. What each component has to guarantee:

- repository and tasks together: no job is run by two workers, no verdict
  overwrites what somebody else did, terminal states are final;
- scheduler: no job is leased early, no change of the schedule is missed, a full
  queue loses nothing;
- pool: the queue's bound, every job that was taken is brought to a verdict;
- reaper and recovery: a job whose owner is gone is taken up again, one whose
  owner lives is not;
- API: creation and cancellation take effect atomically and are noticed;
- recurring service: one live chain of instances for each template, ended by
  its limits or its cancellation;
- webhook emitter: the endpoint of a job hears the state the job has for good,
  from one emission, and the row says whether it did;
- shutdown: it ends, and if it does not time out no run is left half way.

## Modules

```
JobStore  Wakeup
    \      /  \  \
   WorkerPool  LeaseReaper  JobsApi
        |           |          |
    Scheduler       |          |
         \          |         /
            Kronkeeper  ---- implements ----> JobLifecycle
                ^
                | implements
          WebhookEmitter
                ^
                | implements
            Shutdown

   Recurring

   CreateApi  ---- implements ----> JobRegistry

   Backoff
```

TLC's instances are in `MCKronkeeper`, `MCShutdown`, `MCRecurring`, `MCCreateApi`
and `MCBackoff`; proofs are in `KronkeeperProofs`, on which `OwnershipProofs`,
`LifecycleProofs`, `WakeupProofs` and `DaemonProofs` rest, and in
`RecurringProofs`, `CreateApiProofs` and `BackoffProofs`.

| Module | Models | How |
|---|---|---|
| `JobStore` | table, clock, statements of `queries.rs` for one-off jobs | each statement is an operator that yields the table after it; `DbCall` is the await of a statement: it succeeds, or fails with or without having taken effect |
| `Wakeup` | `tokio::sync::Notify` | one stored permit |
| `WorkerPool` | channel, worker loop, result handler | one action per await point; `wpc` is the point a worker is at, `held` its copy of the job |
| `Scheduler` | `Scheduler::run`, `refresh_heap`, `dispatch_due_jobs` | `spc`, `heap`, `hand` (the leased job), `dnow` (the `now` read before the loop) |
| `LeaseReaper` | `run_lease_reaper` | the statement, then `notify_one` |
| `JobsApi` | POST and DELETE of one-off jobs | the statement, then `notify_one`; in between the handler may be dropped |
| `Kronkeeper` | `main`: recovery, all tasks together, crash and restart; all properties | `Next` interleaves the tasks' steps |
| `Recurring` | `recurring.rs`, the handlers and statements on templates and instances | one template, its instances, the workers; one action per await point of `create_recurring` and `spawn_next_instance`; its own properties |
| `WebhookEmitter` | `webhook.rs`: the core with `emit` step by step | the core's single step `EmitWebhook` becomes the read of the row, a POST for each attempt and `update_webhook_result`; `hook` are the webhook columns, `emission` the locals of `emit`, `received` what the endpoint got |
| `Shutdown` | the end of `main`, `active` and `wait_for_drain`: the whole daemon | `phase` is where `main` is; `counted` are the workers between `fetch_add` and `fetch_sub`, each a step of its own because another thread reads the counter; `underway` remembers the runs that were in flight |
| `CreateApi` | POST by many clients: lookup, INSERT, first instance, answer | one action per statement of each request's handler; a row is named after its request; a statement may fail, a handler may be dropped |
| `JobRegistry` | nothing in the code: the registry of idempotency keys the README promises | the abstract specification of `CreateApi` |
| `Backoff` | `compute_retry_delay` and the attempts of a job that keeps failing | i64 arithmetic with saturation and wrapping as operators over integers of any width; the panics of the debug build and of the calendar as outcomes |
| `JobLifecycle` | nothing in the code: the job state machine the README draws, with the attempt counter | the abstract specification |

`Recurring` stands beside `Kronkeeper`, not under it: what the core shows about
one job (who holds it, when it is leased) is reduced there to a worker that holds
an instance, and what it adds (a template row, the chain of instances, a second
kind of caller) does not concern one-off jobs. Its `Lease`, `SetRunning`,
`GiveBack`, `SetCompleted`, `Failed`, `Reclaim` and `CrashAndRestart` have the
effect on the row's state that the core's actions of these names have. An
instance is named by its fire time, because its idempotency key is
`template:fire time`; its `scheduled_at` (`at`) starts as that and moves with
retries, and the next fire time is computed from the latter.

`WebhookEmitter` and `Shutdown` extend the core instead of composing with it: each
of their steps is a step of the core with more said about it, or leaves the core
alone. The core knows of a shutdown that the pool may be told to stop
(`StopWorkers`) and that workers leave (`Exit`), and that the process ends
(`Crash`). Two things are easy to miss there. `notify_waiters` stores no permit:
it reaches the workers that wait at that moment, and one that is told may still
get a job, because `select!` looks at its futures in random order. And nothing
tells the scheduler: until the process ends it goes on leasing, and workers that
were busy go on with the queue.

A step of the model is the code between two awaits. The data is reduced to what
decisions depend on: ids, times as integers, attempt counts, states. A payload
succeeds, fails or makes its worker panic, as it likes.

The actions that end in `... \* mutant` operators are not part of the model:
those operators are faulty variants of the definition that follows each of
them, kept so that one can see that the property it belongs to notices.

## What TLC checks

The runs of the core use `MCKronkeeper`: two jobs, `a` (due 0, no TTL) and `b`
(due 1, TTL 2), one retry each after one time unit, a queue of one, leases of one
time unit.

| Run | Setting | Properties |
|---|---|---|
| `timely` | `TimelyPickup`, 2 workers (symmetric) that may be told to stop, 1 crash, 1 failure, clock to 2 | `TypeOK`, `SoleOwner`, `HeapSound`, `NoEarlyLease`, `TerminalFinal`, `LateRunIsLast`, `ImplementsLifecycle` |
| `live` | fair, no `TimelyPickup`, 1 worker, no crash, no failure, clock to 2 | `RunsHaveWorkers`, `AttemptsBounded`, `NoLostWakeup`, `EveryJobSettles` |
| `late_pickup` | no `TimelyPickup` | `TerminalFinal` is violated |
| `orphan` | fair, 1 crash | `NoOrphans` is violated |
| `expired_retry` | `TimelyPickup` | `NoRetryPastTTL` is violated |

The whole daemon, of one job that is due at once and may be retried once:

| Run | Setting | Properties |
|---|---|---|
| `graceful` | `MCShutdown`, fair, `TimelyPickup`, 2 workers, one retried webhook, 1 poll of the counter, 1 end of the process, 1 failure, clock to 1 | `DaemonTypeOK`, `WebhookTruth`, `InFlightDrained`, `WebhookResultFinal`, `VerdictsAnnounced`, `EveryVerdictReported`, `ShutdownEnds` |

The runs of recurring jobs use `MCRecurring`: one template, two workers
(symmetric), and the cron expressions `each` (every instant) and `even` (every
second one), neither of which has a fire time after the last instant. Retries
may be scheduled at 0 and at 3, before as well as after the fire time.

| Run | Setting | Properties |
|---|---|---|
| `one_chain` | 1 late pickup, `max_occurrences` 2, end at 4, clock 0 to 5, policy `queue_once`, 1 failure, 1 crash | `TypeOK`, `OneChain`, `FiresIncrease`, `UnbrokenWithoutFailure`, `LimitWithoutFailure`, `InstancesCounted`, `CompletedIsOver`, `CancelStopsChain` |
| `broken_chain` | no late pickup, 1 crash | `ChainUnbroken` is violated |
| `cancel_race` | no late pickup, no failure | `NoSpawnAfterCancel` is violated |

POST and the arithmetic of retries:

| Run | Setting | Properties |
|---|---|---|
| `create` | `MCCreateApi`, fair, 4 requests, 3 of them with one key, 3 recurring, one of these without a fire time, 2 failures | `TypeOK`, `OneJobPerKey`, `ErrorsExplained`, `AcceptedIsKept`, `AcceptedIsScheduled`, `ImplementsRegistry` |
| `repeated_post` | the same requests, no failure | `SameJobAgain` is violated |
| `backoff` | `MCBackoff`, 8-bit integers, release build, up to 10 retries, cap 20, delays -3 to 12 and 60 | `TypeOK`, `BackoffExact`, `BackoffGrows` |

The properties, in words:

- `SoleOwner`: a copy on its way to a worker describes a LEASED row that the
  reaper cannot take, the copy a worker executes belongs to a RUNNING row with
  the same attempt number, and no job has two copies.
- `HeapSound`: a heap entry's row still waits for the time of the entry, or was
  cancelled.
- `NoEarlyLease`: no lease before `scheduled_at`. `TerminalFinal`: no step
  changes a row in a terminal state.
- `ImplementsLifecycle`: the daemon refines `JobLifecycle`. In particular a run
  that fails is counted once, dead-lettering needs exactly `max_retries`
  retries, and only a restart takes a RUNNING job without a verdict.
- `LateRunIsLast`: a run that is under way when `expires_at` has passed, or that
  starts then, is the job's last one unless the process ends. This is how far
  finding 3 below goes: one retry too many, never two.
- `RunsHaveWorkers`: until something fails, each RUNNING row has a worker that
  executes it or stores its verdict; so what finding 2 shows needs a failure.
  `AttemptsBounded`: no attempt beyond `max_retries` is ever stored.
- `NoLostWakeup`: until a statement fails, a waiting job is in the heap with its
  present time or a refresh is on its way. `EveryJobSettles`: every created job ends in a terminal
  state, or waits for a time past the end of the model's clock.
- `OneChain`: until a lease ends in the queue, a template has at most one
  instance that is pending or under way, or one worker that may still insert the
  next one. It follows that with timely pickup the concurrency policies decide
  nothing: there is never a sibling to count, and `allow` lets no instances
  overlap.
- `FiresIncrease`: each new instance fires after all earlier ones, so the key
  test and the UNIQUE constraint never meet an earlier instance; until a lease
  ends in the queue or an instance is completed in a run that was scheduled
  before its own fire time ("Early retries" below).
- `UnbrokenWithoutFailure`: until a statement fails, the process dies, or one of
  the two things just named happens, the chain of a SCHEDULED template goes on,
  unless an instance failed for good or was cancelled alone, or was completed
  when an expression had no fire time left. `ChainUnbroken` is the same without
  the first condition.
- `LimitWithoutFailure`: `max_occurrences` is exceeded by at most the number of
  workers less one. It *is* exceeded: the count follows the insertion, and the
  instance may end before it (one instance too many with two workers).
  `InstancesCounted` is the accounting behind it: it holds with late copies too,
  when several workers spawn at a time.
- `CompletedIsOver`: a COMPLETED template has no instance pending or under way,
  and no worker that may insert one.
- `NoSpawnAfterCancel`: when POST is over, no instance appears once DELETE of the
  template was answered. `CancelStopsChain` is how far that fails: at most one
  more instance appears, of the one task, POST included, that was past its look
  at the template. Like `CompletedIsOver` and `LimitWithoutFailure`, it is stated
  until a lease ends in the queue.

- `WebhookTruth`: every event an endpoint receives is the state the job has for
  good; there are no more POSTs than one emission may send; `webhook_success`
  TRUE means one arrived, FALSE that all attempts were used.
- `WebhookResultFinal`: a recorded outcome is never overwritten. A second
  emission would start from the stored counter, find no attempt left and store
  FALSE over a TRUE. `VerdictsAnnounced`: until something fails, a verdict has its
  outcome recorded or its worker is still in `emit`.
  `EveryVerdictReported`: without failures each verdict of a worker on a job with a
  `webhook_url` has its outcome recorded at last.
- `InFlightDrained`: without failures, when `wait_for_drain` has seen the counter
  at 0, each run that was in flight when the pool was told to stop is over: the
  job has moved on to its retry, or is terminal and its callback is settled.
  `ShutdownEnds`: the process exits, whatever workers do, and though a panicked
  one never leaves the counter.
- `OneJobPerKey`: all clients of a key that were not told of an error were told
  of its one row, and at most one of them that the row was inserted for it. That
  one, if the job recurs, is answered with the first instance, which is in the
  table; all others with the row itself. `SameJobAgain`, which finding 6
  refutes, is that they are all told of the same id.
  `ErrorsExplained`: without failures, an error means a refused expression or a
  key that another request took between the lookup and the INSERT.
  `AcceptedIsKept`: until something fails, a job that a client was told of is
  scheduled, or the handler that inserted the template is at its next statement.
  `AcceptedIsScheduled`: what was answered 201 or 200 is scheduled at last, for
  a recurring job by its first instance, unless something fails.
- `ImplementsRegistry`: the handlers refine `JobRegistry`, with the status and
  the job of each answer; a template and its first instance count as one job
  there.
- `BackoffExact`: for as long as `retry_delay_sec * 2^(n-1)` fits into an i64 and
  the cap into the calendar, the delay before the n-th retry is the smaller of
  the two, and the worker does not panic. `BackoffGrows`: in that range no delay
  is shorter than the one before.

### TimelyPickup

`TimelyPickup` says that the clock does not pass the end of the lease of a job
that was handed on and is not RUNNING yet. It is an assumption about the
deployment, and the code does nothing to enforce it: the defaults (10 workers, a
queue of 1000, leases of 30 s, payloads of up to 30 s) break it under load. It
is a parameter so that both sides can be seen: with it the daemon keeps to its
state machine, without it the run `late_pickup` shows what is lost.
What does not need it: `NoLostWakeup`, `RunsHaveWorkers`, `AttemptsBounded` and
`EveryJobSettles`. They are checked in `live`, without it.

Without it, a job whose lease ends in the queue is leased a second time and has
two copies. `set_running` does not look at the row, so a job that was cancelled
or completed meanwhile runs again (`late_pickup`). A heap entry that was read
while the job was back in the schedule survives the job's retry, which is then
leased at once: `NoEarlyLease` fails too (`timely` with `TimelyPickup` FALSE
shows it; `src/scheduler.rs:93`). A second copy announces the job a second time,
which `WebhookTruth` and `WebhookResultFinal` exclude.

`Recurring` has a budget of such pickups instead, `MaxLate`; `late` is what is
left of it, and a lease of a job that no worker has at `set_running` may end
freely. The properties that late copies break are stated for as long as none was
used (`NoneLate`): with one, two workers may complete one instance, the policies
matter and occurrences are skipped. `TypeOK` and `InstancesCounted` hold
regardless.

### Early retries

`retry_delay_sec` is an i32 that nothing validates, and in a release build the
product of `compute_retry_delay` may wrap, so a retry may be scheduled before the
fire time of its instance (`src/worker/result.rs:86-94`,
`src/models/job.rs:341-345`). `Recurring` lets it be scheduled at any instant of
`RetryAt`. When such a run succeeds, `next_fire_after` (`src/recurring.rs:117`)
starts from the earlier time. The next fire time can then be the instance's own,
whose key exists, and the chain ends without an error at `src/recurring.rs:146`;
or, after a PATCH, a time before it, and an earlier instance is inserted.
`NoneRanEarly` is the condition that this has not happened. Without it
`FiresIncrease` and `UnbrokenWithoutFailure` are violated; `OneChain`,
`LimitWithoutFailure`, `InstancesCounted`, `CompletedIsOver` and
`CancelStopsChain` do not need it.

### Lookahead

`refresh_heap` fetches at most `heap_lookahead_limit` rows (10000), and the heap
is not refreshed when it runs empty: the sleep of an hour that follows only
dispatches (`src/scheduler.rs:51-77`). With more SCHEDULED rows than the limit a
job waits for an unrelated request, retry or reap. `NoLostWakeup` and
`EveryJobSettles` are therefore claims about at most `LookaheadLimit` jobs; with
`LookaheadLimit` 1 and its two jobs `live` loses both.

### Bounds, and why they are enough

`MaxTime`, `MaxCrashes` and `MaxFaults` bound the clock, the crashes and the
injected failures; they appear only in the guards of `Tick`, `Crash`, `Signal`
and the failing disjuncts. Two jobs, two workers and a queue of one give a full
queue, busy workers with a job behind them, workers that compete for the queue
and could hold the same job, and two heap entries in either order. Time 2 lets
`b` fail before and at its TTL, lets `a` fail at any time, be retried and be given
up, and lets a lease end, be reaped and be given again. In `timely` this is
enough to break `NoEarlyLease`, `SoleOwner` and `TerminalFinal` when
`TimelyPickup` is FALSE, or a guard is dropped. One crash and one failure fall
between any two steps, and so do a shutdown of the pool, which closes the channel
under the scheduler when both workers have gone, and the end of the process that
follows it. `live` has one worker, so that jobs wait in the queue past their leases,
and no crash, which would leave jobs RUNNING for good. One worker is enough for a
second copy: the first waits in the queue past its lease, is taken, and the
second one follows it into the queue. With two workers, one crash and one failure
the three invariants of `live` hold as well (3.2 million states, without
`EveryJobSettles`, which is what makes two workers too slow there), and for any
numbers they are proved. The theorems below drop all bounds.

`Shutdown`: what the emitter and the drain add concerns one job and the workers
around it. Two workers are the one in flight and the one that is told to stop,
takes the job's retry, or panics; when both have gone the channel closes under
the scheduler. With the clock at 1 no lease is reaped: a row that a crash or a
failing statement leaves LEASED stays so. The clock to 2 shows those too and all
properties of the run hold there (898347 states), but takes four and a half
minutes; reaping itself is checked in `timely`, and the theorems about `Shutdown`
have no bound on the clock. One poll separates a drain that waits from
one that gives up; one retried webhook separates the first POST from the last.
The one end of the process is spent on the shutdown or on a crash, before or
after which the job is recovered and announced.

`CreateApi`: of three requests with one key one may be between its lookup and
its INSERT, one between the INSERTs of template and instance, and the third
comes later; one of the three is not recurring, so that either kind may win. The
fourth has its own key and an expression that never fires. Two failures let a
statement fail whose effect another one depends on.

`Backoff`: 8 bits and ten retries reach every branch: the cap, the largest power,
products that wrap to either side, negative delays, and results beyond the
calendar, which ends at 40. The real numbers are 63 bits and a cap of 3600. With
the default delay of 60 s the product leaves the i64 at the 59th retry.

`Recurring`: `Time` is the set of instants; the last one has no fire time after
it, which is the case of an expression without one. `RetryAt` are the instants of
retries, `MaxFaults` and `MaxCrashes` bound failures and `MaxLate` late pickups. A
chain of a few instances and two workers suffice for what goes wrong between
a worker that counts and the one that runs the instance it inserted. In
`one_chain` a retry at 0 is early for every instance (the first one fires at 2)
and one at 3 is early for the later ones; one failure, one crash and one late
pickup fall between any two steps. The bounds combine to 4.1 million states.

Deadlock is not checked: when all jobs are terminal and the clock is at
`MaxTime` nothing need happen.

### Fairness

`FairSpec` assumes weak fairness of the clock, the restart, the scheduler, the
reaper, each worker, and the notification of each request. This is what the
code's runtime gives: tokio polls ready tasks, statements and executions end
(`Executor::execute` has a time-out), the interval ticks, and a supervisor
restarts the process. `FairDaemon` assumes the same of the daemon with its emitter and shutdown: the
worker inside `emit`, whose POSTs have a time-out; its steps on the counter; and
`main`, when the server has returned, in `wait_for_drain` and at its end. No
signal need come. `FairSpec` of `CreateApi` is weak fairness of each request's
handler once the request was sent.

Nothing is assumed of clients: creation and cancellation
need not happen. A whole task is fair, not each of its actions: where a task has
a choice (does the payload succeed, which branch of `select!` wins) none of the
outcomes is promised.

## What is proved

| Theorem | Module | Needs |
|---|---|---|
| `TypeCorrect`: `[]TypeOK` | `KronkeeperProofs` | nothing |
| `OneOwnerPerJob`: `[]SoleOwner` | `OwnershipProofs` | `TimelyPickup` |
| `HeapAgrees`: `[]HeapSound` | `LifecycleProofs` | `TimelyPickup` |
| `LeasesAreNotEarly`: `NoEarlyLease` | `LifecycleProofs` | `TimelyPickup` |
| `TerminalStatesAreFinal`: `TerminalFinal` | `LifecycleProofs` | `TimelyPickup` |
| `DaemonImplementsLifecycle`: `ImplementsLifecycle` | `LifecycleProofs` | `TimelyPickup` |
| `LateRunsAreLast`: `LateRunIsLast` | `LifecycleProofs` | `TimelyPickup` |
| `FailuresAloneOrphan`: `[]RunsHaveWorkers` | `KronkeeperProofs` | nothing |
| `RetriesAreLimited`: `[]AttemptsBounded` | `KronkeeperProofs` | nothing |
| `WakeupsAreNotLost`: `[]NoLostWakeup` | `WakeupProofs` | finitely many jobs, at most `LookaheadLimit` of them |
| `ChainTypes`: `[]TypeOK` of `Recurring` | `RecurringProofs` | nothing |
| `ChainIsOne`: `[]OneChain` | `RecurringProofs` | nothing |
| `ChainGoesForward`: `FiresIncrease` | `RecurringProofs` | nothing |
| `ChainDoesNotBreak`: `[]UnbrokenWithoutFailure` | `RecurringProofs` | nothing |
| `CompletedTemplatesAreOver`: `[]CompletedIsOver` | `RecurringProofs` | nothing |
| `CancelledChainsStop`: `CancelStopsChain` | `RecurringProofs` | nothing |
| `InstancesAreCounted`: `[]InstancesCounted` | `RecurringProofs` | finitely many workers |
| `LimitIsNearlyKept`: `[]LimitWithoutFailure` | `RecurringProofs` | finitely many workers |
| `EmitterRefinesCore`: `HookSpec => Spec` | `DaemonProofs` | nothing |
| `DaemonRefinesEmitter`: `DaemonSpec => HookSpec` | `DaemonProofs` | nothing |
| `DaemonKeepsCore`: the core's safety properties of `Shutdown` | `DaemonProofs` | `TimelyPickup` |
| `DaemonKeepsPromises`: `[]RunsHaveWorkers`, `[]AttemptsBounded`, `[]NoLostWakeup` of `Shutdown` | `DaemonProofs` | for the last, finitely many jobs, at most `LookaheadLimit` |
| `DaemonTypesCorrect`: `[]DaemonTypeOK` | `DaemonProofs` | `TimelyPickup` |
| `EndpointsHearTheTruth`: `[]WebhookTruth` | `DaemonProofs` | `TimelyPickup` |
| `OutcomesAreFinal`: `WebhookResultFinal` | `DaemonProofs` | `TimelyPickup` |
| `VerdictsAreAnnounced`: `[]VerdictsAnnounced` | `DaemonProofs` | `TimelyPickup` |
| `DrainedRunsAreOver`: `[]InFlightDrained` | `DaemonProofs` | `TimelyPickup` |
| `CreateTypes`, `KeysNameOneJob`, `ErrorsHaveReasons` | `CreateApiProofs` | nothing |
| `AcceptedJobsAreKept`: `[]AcceptedIsKept` | `CreateApiProofs` | nothing |
| `HandlersImplementRegistry`: `ImplementsRegistry` | `CreateApiProofs` | nothing |
| `BackoffTypes`, `DelaysAreExact`, `DelaysGrow` | `BackoffProofs` | nothing |

Each holds for any sets of jobs and workers, any queue size, lease duration,
times and retry delays, and any number of crashes and failures (those that say
"until something fails" end at the first one); those about `Recurring` for any expressions,
limits and policy, assuming of `next_fire_after` only that its result lies
after its argument. The assumptions on the constants are the named `ASSUME`s of the
modules, which the runs evaluate.

The argument. `SoleOwner` is inductive together with `TypeOK` and
`IdleWhenDown` (`OwnerInv`): a crash must leave no copy behind, or the recovery
would give a RUNNING job away under the worker that runs it. Every transfer of a
copy (lease to hand, hand to queue, queue to worker, worker to row) takes it
from one holder to the next; the reaper and the cancellation cannot touch a row
with a copy, because it is LEASED with a running lease or RUNNING; the clock is
the one step that could end such a lease, and the only one that uses
`TimelyPickup`.

On top of it `LifeInv` adds `HeapSound`, that a worker's verdict was justified
when it was taken (`VerdictsTaken`: a retry has attempts left, a dead letter has
none, an expiry has a TTL) and that the scheduler's `now` is not ahead of the
clock (`DispatchTime`). The lemma `StepEffect` then reduces every step to one of
a short list of effects on the table (nothing; one row moves along one edge;
leases are reclaimed), and the last four theorems of the table's first six are
read off that list.

`LateRunsAreLast` uses `LifeInv` too: the reaper and the recovery leave a RUNNING
row alone while the process is up, so only the worker that runs it moves it, and
that worker comes to `retry` only through the TTL check, which the clock cannot
turn back (`LateVerdict`).

Three results need no `TimelyPickup`, since they hold with several copies of a job
about. `RetriesAreLimited` rests on the copies: none has an attempt beyond
`max_retries`, and one that stands before `schedule_retry` is below it, so a
stale copy writes an attempt that is too low, never one that is too high.
`FailuresAloneOrphan` follows a run (`RunsWork`): a worker lets go of it only in
the step that overwrites the row, whoever else runs the job. The failures that
`FailuresAloneOrphan` and `WakeupsAreNotLost` exempt are counted down from one
budget, and a state without a failure was reached by steps without one
(`CalmBefore`).

`WakeupsAreNotLost` follows the permit: each step that makes a row SCHEDULED, or
gives it a new time, puts its task at a point whose next step is a
`notify_one`, and only a refresh, which reads all rows when they fit the limit,
takes the permit away.

The theorems about `Recurring` are proved for any `MaxLate` and `RetryAt`. What
holds only until a lease ends in the queue is an implication from `NoneLate`: the
budget is never refilled (`LateStep`), so a state in which none was used was
reached by steps that used none, and for those the invariants are inductive.

`ChainIsOne` and `ChainGoesForward` rest on `ChainInv`. `AtMostOne`, the
conclusion of `OneChain`, is not inductive: when a worker completes an instance,
that it was the live one is `HoldersMatch` (a worker that starts an instance has
it LEASED, one that runs it RUNNING, one that spawns has it COMPLETED, and one
worker at most holds an instance), and that POST finds no instance is
`NothingBeforePost`. The lemmas `LeavesChain` (a step that leaves the instances
alone) and `HolderChain` (the holder of an instance changes it) cover nine of the
eleven actions of a worker; leasing and inserting are proved on their own.
`WhoInserts` names the two steps that insert. `ChainGoesForward` adds `OrderInv`:
whatever may lead to a next instance is the last inserted so far
(`LastComesNext`), as long as no instance ran early. The worker that spawns has a
COMPLETED instance with the time of its copy, so `NoneRanEarly` bounds that time
from below, and the next fire time lies beyond all (`NextIsLater`); a completed
row never changes (`DoneStays`), so an early run is not forgotten (`EarlyStep`).

`ChainDoesNotBreak` strengthens the property by `ChainInv`, `OrderInv` and two
facts that outlive failures: a budget of failures is never refilled (`Budget`),
and a worker's instance has a row (`HeldInserted`). Its heart is `WorkGoes`: under
`AtMostOne` the policies find no sibling, and by `NextIsLater` the key of the next
instance is new, so a spawning worker gets to insert unless the expression has no
fire time left.

`CompletedTemplatesAreOver` and `CancelledChainsStop` are what is left of a chain
that ended. `EndInv` adds to `ChainInv` that the template's state agrees with how
far POST and DELETE are (`RowMatches`). The template turns COMPLETED by the hand
of a worker (`WhoCompletes`), which `AtMostOne` makes the last one, and nothing
starts the chain again (`QuietStays`). A worker that still inserts after DELETE
was answered has read the template before, and by `AtMostOne` there is only
one of them.

`InstancesAreCounted` counts. `StepCounts` reduces every step to its effect on
three numbers: the rows, `occurrences_completed` and the workers that have yet
to increment it (nothing changes; the first row appears; a row and such a worker
appear; such a worker goes and the count grows). It uses neither `OneChain` nor
timely pickup, and the property claims nothing once something failed. `LimitIsNearlyKept` adds what a worker knew when it read the
template (`LimitInv`): the count was below the maximum and lacked at most the
other workers; since nobody else inserts until it does (`AtMostOne`), that is
still so when it inserts.

The daemon. The two refinements are proved step by step, so all that was proved
of the core holds of the whole daemon (`DaemonKeepsCore`). `HookInv` relates the
emitter to the core: a job without a verdict has fresh webhook columns and no
events (`FreshRows`); a worker in `emit` announces a terminal job whose events and
columns are those it accounts for (`EmittersMatch`); and no job has two emitting
workers (`OneEmitter`), which `SoleOwner` gives at the moment `emit` begins and
`TerminalFinal` keeps. `DrainInv` says of each run that was in flight that it is
over, or that its worker is still in the counter and in the turn of that very
attempt; the counter at 0 leaves the first. That a run which is over stays so
is `TurnsOld`: no row falls back behind the copies that workers hold.
`VerdictsAreAnnounced` follows a verdict: the step that stores it leads into
`emit` (`VerdictStored`), the worker stays there until the outcome is recorded
(`EmitStays`), and neither is undone.

`CreateApi`: `CreateInv` says that keys are unique among the rows, that a handler
past its INSERT has its row, and what each answer implies (`AnswersMatch`: who is
told of the instance, and that it is there). The lemma
`HandlerEffect` lists the changes a handler may make to table and answers; for
the refinement each of them is a step of the registry or a stutter, where the
CHOOSE of the mapping is settled by the uniqueness of keys.
`AcceptedJobsAreKept` adds that until something fails each row is scheduled or its
handler is at the INSERT of the first instance (`KeptInv`).

`Backoff`: `DelayIsMeant` is arithmetic alone: in range nothing saturates, wraps or
panics. `MeantGrows` needs one doubling of the table `Pow2`, which the assumption
on that constant gives for each exponent; no induction is involved.

Only model-checked: `EveryJobSettles`, `EveryVerdictReported`, `ShutdownEnds` and
`AcceptedIsScheduled` (liveness under fairness is beyond the prover), and the
runs that show a violation. What safety can say of the first, second and fourth is
proved: until something fails, a task that has yet to act is never missing
(`NoLostWakeup` and `RunsHaveWorkers`; `VerdictsAnnounced`; `AcceptedIsKept`);
that it acts in the end is left to TLC. Nor do the violations
say how far things can go wrong; that is proved of three of them
(`RunsHaveWorkers` of `orphan`, `LateRunIsLast` of `expired_retry`,
`CancelStopsChain` of `cancel_race`).

## What the runs found

Six statements of the documentation that the program does not keep; each is an
entry of `findings` in `PROJECT.json` with its line:

1. `late_pickup`: a cancelled job runs (`src/db/queries.rs:226`).
2. `orphan`: a RUNNING job whose lease has not ended at the restart stays
   RUNNING forever (`src/db/queries.rs:364`).
3. `expired_retry`: a retry runs after `expires_at` (`src/worker/result.rs:67`).
4. `broken_chain`: after a crash between the completion of an instance and the
   spawn of the next, the recurring job stops although its template is SCHEDULED
   (`src/worker/result.rs:57`).
5. `cancel_race`: a worker that read the template before DELETE inserts a pending
   instance after DELETE was answered (`src/recurring.rs:98`). In the same race
   `complete_template` turns CANCELLED into COMPLETED.
6. `repeated_post`: a repeated POST of a recurring job is answered with another id
   than the first one, that of the template instead of the instance
   (`src/api/handlers/jobs.rs:34`).

What else modelling showed, without a run of its own:

- The two phenomena under "TimelyPickup" and "Lookahead".
- The README says that a shutdown stops accepting work; requests are refused,
  but leases and queued jobs go on as described above, and a job that was taken
  in the grace period may be cut off RUNNING (which is then case 2).
- "Returns the existing job (HTTP 200)" holds for a repeated POST, not for a
  racing one: the loser of the race gets a 500 from the UNIQUE constraint
  (`ErrorsExplained` lists it).
- A retry that is scheduled before its instance's fire time can end the chain of a
  recurring job after a success and without any error, or make it go back in
  time ("Early retries"), though the README has it spawn "after each successful
  run".
- No webhook is sent for a cancellation, though CANCELLED is terminal and the
  README speaks of "terminal state transitions": `cancel_job` does not call
  `emit`. The properties about webhooks are about the verdicts of workers.
- After a failure between the two INSERTs of a recurring POST, every repetition
  is answered 200 with a template that will never fire.
- `compute_retry_delay` overflows where `BackoffExact` ends: a panic in a debug
  build, a wrapped product in a release build, negative and unlimited by the
  cap, of which the calendar may make a panic. A worker is lost with each.
- An error of `spawn_next_instance` skips the webhook of the completed instance
  (`src/worker/result.rs:57-63`), and a script that timed out goes on beside its
  retry (`src/worker/executor.rs:106`).

## Not modelled

- The executor's I/O (a payload ends with success, failure or a panic, as it
  likes), authentication, health, metrics, configuration, port binding, routing
  and migrations: pure I/O, or reads of state that nothing changes.
  `PROJECT.json` lists each of them with the reason.
- Of recurring jobs: the notifications (the core's `NoLostWakeup` is about one-off
  jobs), the gauge of active templates, the column `next_instance_at`, which
  nothing reads, the TTL of instances (an expiry is one of the ways to end),
  their webhooks, and the parser of cron expressions, whose result is a constant.
- That `Recurring`'s workers do to an instance what the core's do to a job is
  argued above, not checked: the core has no rows that appear later.
- Request bodies: what `CreateApi` keeps of a request is its key and whether it
  recurs and fires. GET, and requests that are refused before their first
  statement, change nothing.
- Clock differences between the daemon and the database: one clock `now`.
- The phase of the reaper's interval: a tick may come at any time. The sleeps
  between two POSTs and between two polls are part of the wait for the next.

## Order of work

The modules were written core first, then what changes rows beside it, then what
surrounds it: `JobStore` to `Kronkeeper` with `JobLifecycle`; `Recurring`;
`WebhookEmitter` and `Shutdown` on top of the core; `CreateApi` with
`JobRegistry`; `Backoff`. What would add most from here is a version of the core
in which rows are inserted while it runs, so that `Recurring` could be shown to
be an abstraction of it, and with it webhooks of instances.
