----------------------------- MODULE Kronkeeper -----------------------------
(***************************************************************************)
(* The daemon: scheduler, worker pool, lease reaper and request handlers   *)
(* over one jobs table, with the clock, crashes and restarts (src/main.rs).*)
(*                                                                         *)
(* Bounds of the model: the clock stops at MaxTime, the process dies at    *)
(* most MaxCrashes times, and at most MaxFaults failures are injected.     *)
(***************************************************************************)
EXTENDS Scheduler, LeaseReaper, JobsApi

CONSTANTS
  TimelyPickup,  \* is every job in the queue started before its lease ends?
  MayShutDown,   \* may the worker pool be told to stop (SIGINT, SIGTERM)?
  MaxTime, MaxCrashes, MaxFaults

ASSUME KronkeeperAssumption ==
  /\ TimelyPickup \in BOOLEAN
  /\ MayShutDown \in BOOLEAN
  /\ MaxTime \in Nat
  /\ MaxCrashes \in Nat
  /\ MaxFaults \in Nat

VARIABLE crashes  \* how often the process died so far

vars == <<storeVars, permit, queue, workerVars, schedVars, rpc, owed, crashes>>

Up == spc # "down"

Init ==
  /\ StoreInit(MaxFaults)
  /\ WakeupInit
  /\ PoolInit
  /\ SchedulerInit
  /\ ReaperInit
  /\ ApiInit
  /\ crashes = 0

-----------------------------------------------------------------------------
(* main: recover_on_startup, then the tasks are spawned and the API        *)
(* listens.  If the recovery statement fails, main returns and the process *)
(* is down again.                                                          *)
Boot ==
  /\ ~Up
  /\ DbCall(RecoverOnStartup,
            spc' = "refresh",
            UNCHANGED spc)
  /\ UNCHANGED <<now, permit, queue, workerVars, heap, hand, dnow, rpc, owed,
                 crashes>>

(* The process dies, or exits after its shutdown grace period: everything  *)
(* that is not in the table is lost.                                       *)
Crash ==
  /\ Up
  /\ crashes < MaxCrashes
  /\ crashes' = crashes + 1
  /\ permit' = FALSE
  /\ queue' = <<>>
  /\ wpc' = [w \in Worker |-> "recv"]
  /\ held' = [w \in Worker |-> Null]
  /\ retryAt' = [w \in Worker |-> 0]
  /\ told' = {}
  /\ spc' = "down"
  /\ heap' = {}
  /\ hand' = Null
  /\ dnow' = 0
  /\ rpc' = "tick"
  /\ owed' = {}
  /\ UNCHANGED storeVars

(* main, after the HTTP server has stopped: the pool is told to stop.  The *)
(* process ends some time later, by Crash, which MaxCrashes has to allow;  *)
(* how it waits until then is in module Shutdown.                          *)
StopWorkers ==
  /\ Up
  /\ MayShutDown
  /\ crashes < MaxCrashes
  /\ \E S \in SUBSET Worker : NotifyWaiters(S)
  /\ UNCHANGED <<schedVars, rpc, owed, crashes>>

(* The jobs that are leased and handed on, but not yet set RUNNING.        *)
InQueue(j) == \E i \in 1..Len(queue) : queue[i].id = j
InHand(j) == spc \in {"send", "giveback"} /\ hand.id = j
Starting(w, j) == wpc[w] = "start" /\ held[w].id = j
Executing(w, j) == wpc[w] \in Started /\ held[w].id = j

Unstarted(j) == InHand(j) \/ InQueue(j) \/ \E w \in Worker : Starting(w, j)

(* With TimelyPickup the clock does not pass the end of the lease of a job *)
(* that is handed on and not started: the deployment's LEASE_DURATION_SECS *)
(* covers the longest wait in the queue.                                   *)
Tick ==
  /\ now < MaxTime
  /\ TimelyPickup =>
       \A j \in Job :
          Unstarted(j) /\ jobs[j].leasedUntil # Null => now < jobs[j].leasedUntil
  /\ now' = now + 1
  /\ UNCHANGED <<jobs, faults, permit, queue, workerVars, schedVars, rpc, owed,
                 crashes>>

Schedule == SchedulerStep /\ UNCHANGED <<rpc, owed, crashes>>
Work(w)  == WorkerStep(w) /\ UNCHANGED <<schedVars, rpc, owed, crashes>>
Reap     == Up /\ ReaperStep
               /\ UNCHANGED <<queue, workerVars, schedVars, owed, crashes>>
Serve    == Up /\ ApiStep
               /\ UNCHANGED <<queue, workerVars, schedVars, rpc, crashes>>

Next ==
  \/ Boot
  \/ Crash
  \/ StopWorkers
  \/ Tick
  \/ Schedule
  \/ \E w \in Worker : Work(w)
  \/ Reap
  \/ Serve

Spec == Init /\ [][Next]_vars

-----------------------------------------------------------------------------
(* Types: every variable holds a value of its kind, a task that is past    *)
(* the point where it got a job has one, and the worker queue keeps to its *)
(* bound (try_send, scheduler.rs:102).                                     *)
TypeOK ==
  /\ StoreTypeOK
  /\ permit \in BOOLEAN
  /\ PoolTypeOK
  /\ SchedulerTypeOK
  /\ rpc \in {"tick", "notify"}
  /\ owed \subseteq Request
  /\ crashes \in Nat

-----------------------------------------------------------------------------
(* The copies of rows that the tasks hold.                                 *)

(* The copy was made under the lease the row still has.                    *)
Leased(c) ==
  LET r == jobs[c.id] IN
  /\ r.state = "LEASED"
  /\ r.attempt = c.attempt
  /\ r.scheduledAt = c.scheduledAt
  /\ r.leasedUntil # Null
  /\ now <= r.leasedUntil

Running(c) ==
  /\ jobs[c.id].state = "RUNNING"
  /\ jobs[c.id].attempt = c.attempt

HandFull == spc \in {"send", "giveback"}
StartPc(w) == wpc[w] = "start"
Busy(w) == wpc[w] \in {"start"} \cup Started

(* Sole ownership, when leases outlast the wait for a worker.  A copy of a *)
(* job that is on its way to a worker (between lease_job, scheduler.rs:93, *)
(* and set_running, pool.rs:95) still describes its row, which is LEASED   *)
(* and in no danger from the reaper; the copy a worker executes            *)
(* (pool.rs:104-106) belongs to a RUNNING row and carries its attempt      *)
(* number; and no job has two copies.  So the unconditional UPDATEs of     *)
(* set_running, set_completed, set_state and schedule_retry never          *)
(* overwrite what somebody else did, whatever crashes, failing statements  *)
(* and panicking workers do in between.                                    *)
CopiesMatch ==
  /\ HandFull => Leased(hand)
  /\ \A i \in 1..Len(queue) : Leased(queue[i])
  /\ \A w \in Worker : StartPc(w) => Leased(held[w])
  /\ \A w \in Worker : wpc[w] \in Started => Running(held[w])

OneCopy ==
  /\ HandFull => \A i \in 1..Len(queue) : queue[i].id # hand.id
  /\ HandFull => \A w \in Worker : StartPc(w) => held[w].id # hand.id
  /\ \A i, k \in 1..Len(queue) : i # k => queue[i].id # queue[k].id
  /\ \A i \in 1..Len(queue) : \A w \in Worker : StartPc(w) => held[w].id # queue[i].id
  /\ \A v, w \in Worker : v # w /\ Busy(v) /\ Busy(w) => held[v].id # held[w].id

SoleOwner == CopiesMatch /\ OneCopy

(* Nothing of a process that is down is left (a strengthening the proofs   *)
(* need: the recovery at startup meets no copies).                         *)
IdleWhenDown ==
  spc = "down" =>
    /\ queue = <<>>
    /\ \A w \in Worker : wpc[w] = "recv"
    /\ told = {}
    /\ heap = {}

(* The in-memory heap agrees with the table, when leases outlast the wait  *)
(* for a worker: an entry's row is still waiting, for the time the entry   *)
(* says, or was cancelled (scheduler.rs:73-91: the heap is only as fresh   *)
(* as the last refresh, and every pop is followed by a lease).             *)
HeapSound ==
  \A e \in heap :
    /\ jobs[e.id].state \in {"SCHEDULED", "CANCELLED"}
    /\ jobs[e.id].scheduledAt = e.at

(* No job is leased before its scheduled_at, not even with an entry of the *)
(* heap that was read before the job was rescheduled (scheduler.rs:86-96). *)
NoEarlyLease ==
  [][\A j \in Job :
       IsScheduled(j) /\ jobs'[j].state = "LEASED" => jobs[j].scheduledAt <= now]_vars

(* Terminal states are final (README "Job state machine"): no statement of *)
(* a task changes a row that reached one.                                  *)
TerminalFinal ==
  [][\A j \in Job : jobs[j].state \in Terminal => jobs'[j] = jobs[j]]_vars

NothingFailed == faults = MaxFaults

(* No lost wakeup: while the daemon is up, unless a statement has failed,  *)
(* every waiting job is in the scheduler's heap with its present time, or  *)
(* somebody is about to make the scheduler read the table again (the       *)
(* notify_one calls of jobs.rs:63 and :108, result.rs:101, reaper.rs:31,   *)
(* scheduler.rs:111, and the permit's refresh in scheduler.rs:64).         *)
InHeap(j) == [id |-> j, at |-> jobs[j].scheduledAt] \in heap

RefreshComing ==
  \/ permit
  \/ spc \in {"refresh", "renotify"}
  \/ rpc = "notify"
  \/ owed # {}
  \/ \E w \in Worker : wpc[w] = "notify"

NoLostWakeup ==
  Up /\ NothingFailed => \A j \in Job : IsScheduled(j) => InHeap(j) \/ RefreshComing

(* Only a failure orphans a run: until a statement fails, a worker panics  *)
(* or the process ends, every RUNNING row has a worker that executes it or *)
(* is about to store its verdict, even if stale copies of the job make two *)
(* workers run it at a time (pool.rs:95-106, result.rs:52-101; the reaper  *)
(* does not look at RUNNING rows, queries.rs:350).                         *)
RunsHaveWorkers ==
  NothingFailed /\ crashes = 0 =>
    \A j \in Job : jobs[j].state = "RUNNING" => \E w \in Worker : Executing(w, j)

(* No retry beyond max_retries is ever stored, even from a stale copy of   *)
(* the job (result.rs:77-78 decides by the copy, and writes its attempt).  *)
AttemptsBounded ==
  \A j \in Job : jobs[j].attempt > 0 => jobs[j].attempt <= MaxRetries[j]

(* A run that is under way when expires_at has passed is the last one, if  *)
(* leases outlast the wait for a worker and until the process ends: unless *)
(* it has failed before, its job stays RUNNING until it is in a terminal   *)
(* state for good (result.rs:67-73).  So a retry past the TTL, which       *)
(* NoRetryPastTTL below is about, happens once.                            *)
LastRun(j) ==
  /\ PastTTL(j)
  /\ \/ jobs[j].state \in Terminal
     \/ /\ jobs[j].state = "RUNNING"
        /\ \A w \in Worker : Executing(w, j) => wpc[w] # "retry"

LateRunIsLast == [][\A j \in Job : Up /\ LastRun(j) => LastRun(j)']_vars

(* The daemon implements the job state machine of JobLifecycle, when       *)
(* leases outlast the wait for a worker.                                   *)
LifeState   == [j \in Job |-> jobs[j].state]
LifeAttempt == [j \in Job |-> jobs[j].attempt]

Lifecycle == INSTANCE JobLifecycle WITH
  MayExpire <- {j \in Job : ExpiresAt[j] # Null},
  state <- LifeState, attempt <- LifeAttempt, up <- Up

ImplementsLifecycle == Lifecycle!Spec

-----------------------------------------------------------------------------
(* Fairness.  tokio polls every task that can go on, statements and        *)
(* executions end (the executor has a timeout), the reaper's interval      *)
(* ticks, a supervisor restarts the process.  Nobody has to create or      *)
(* cancel a job, and nothing has to fail.                                  *)
FairSpec ==
  /\ Spec
  /\ WF_vars(Boot)
  /\ WF_vars(Tick)
  /\ WF_vars(Schedule)
  /\ WF_vars(Reap)
  /\ \A w \in Worker : WF_vars(Work(w))
  /\ \A r \in Request : WF_vars(Up /\ RequestNotify(r)
                                 /\ UNCHANGED <<queue, workerVars, schedVars, rpc, crashes>>)

(* Every job that was created reaches a terminal state, unless its retry   *)
(* lies beyond the end of the model's clock (README, "Scheduling": the     *)
(* scheduler leases and dispatches a job at its deadline).                 *)
Settled(j) ==
  \/ jobs[j].state \in Terminal
  \/ IsScheduled(j) /\ jobs[j].scheduledAt > MaxTime

EveryJobSettles == \A j \in Job : (jobs[j].state # "ABSENT") ~> Settled(j)

(* A job whose run was cut short by a crash is taken up again (README,     *)
(* "Startup sequence" 2).                                                  *)
NoOrphans == \A j \in Job : (jobs[j].state = "RUNNING") ~> (jobs[j].state # "RUNNING")

(* No retry of a job starts after its expires_at (README, "TTL / expiry"). *)
NoRetryPastTTL ==
  [][\A j \in Job :
       jobs[j].state # "RUNNING" /\ jobs'[j].state = "RUNNING" /\ PastTTL(j)
         => jobs[j].attempt = 0]_vars

=============================================================================
