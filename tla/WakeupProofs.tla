---------------------------- MODULE WakeupProofs ----------------------------
(***************************************************************************)
(* The scheduler never loses a wakeup: the invariant NoLostWakeup of       *)
(* Kronkeeper, for any number of jobs, workers and restarts, with or       *)
(* without leases that outlast the wait for a worker, until something      *)
(* fails, if the heap's lookahead covers the table.                        *)
(*                                                                         *)
(* The invariant is inductive with the types: each step that puts a row on *)
(* the schedule, or changes its time, leaves a notify_one to be called,    *)
(* and a permit is consumed only by a task that then reads the table.      *)
(***************************************************************************)
EXTENDS KronkeeperProofs, FiniteSetTheorems

WakeInv == TypeOK /\ Budget /\ NoLostWakeup

(* A step that leaves the past and the present without a failure.          *)
Calm == NothingFailed /\ faults' = faults /\ faults \in Nat

(* A lookahead that covers the table reads all of the schedule.            *)
LEMMA FetchesAll ==
  ASSUME IsFiniteSet(Job), Cardinality(Job) <= LookaheadLimit,
         NEW S, FetchedJobs(S)
  PROVE  S = ScheduledJobs
<1>1. S \subseteq ScheduledJobs /\ ScheduledJobs \subseteq Job
  BY DEF FetchedJobs, ScheduledJobs
<1>2. /\ IsFiniteSet(ScheduledJobs)
      /\ Cardinality(ScheduledJobs) <= Cardinality(Job)
      /\ Cardinality(S) <= Cardinality(ScheduledJobs)
      /\ Cardinality(S) = Cardinality(ScheduledJobs) => S = ScheduledJobs
  BY <1>1, FS_Subset
<1>3. /\ Cardinality(S) \in Nat /\ Cardinality(ScheduledJobs) \in Nat
      /\ Cardinality(Job) \in Nat
  BY <1>1, <1>2, FS_Subset, FS_CardinalityType
<1>4. CASE Cardinality(S) = LookaheadLimit
  BY <1>2, <1>3, <1>4
<1> QED
  BY <1>4 DEF FetchedJobs

(* A step keeps the promise if every row that is on the schedule after it  *)
(* was there before with the same time, or a refresh is to come.           *)
LEMMA WakeFrame ==
  ASSUME NoLostWakeup, Up, NothingFailed,
         RefreshComing => RefreshComing',
         \A j \in Job : IsScheduled(j)' =>
           \/ RefreshComing'
           \/ IsScheduled(j) /\ jobs'[j].scheduledAt = jobs[j].scheduledAt
                             /\ (InHeap(j) => InHeap(j)')
  PROVE  NoLostWakeup'
BY DEF NoLostWakeup

LEMMA WakeWork ==
  ASSUME WakeInv, Up, Calm, NEW w \in Worker, Work(w)
  PROVE  NoLostWakeup'
<1>1. /\ wpc \in [Worker -> WorkerPc] /\ jobs \in [Job -> Row] /\ NothingFailed /\ faults \in Nat /\ faults' = faults
      /\ UNCHANGED <<spc, heap, rpc, owed>>
  BY DEF WakeInv, Calm, TypeOK, PoolTypeOK, StoreTypeOK, Work, schedVars
<1>2. CASE StoreRetry(w)
  <2>1. wpc'[w] = "notify"
    BY <1>1, <1>2 DEF StoreRetry, DbCall, GoTo
  <2> QED
    BY <2>1 DEF NoLostWakeup, RefreshComing
<1>3. CASE NotifyRetry(w)
  BY <1>3 DEF NotifyRetry, NotifyOne, NoLostWakeup, RefreshComing
<1>4. CASE ~StoreRetry(w) /\ ~NotifyRetry(w)
  <2>1. /\ wpc[w] # "notify" /\ permit' = permit
        /\ \A v \in Worker \ {w} : wpc'[v] = wpc[v]
    BY <1>1, <1>4
    DEF Work, WorkerStep, Receive, SetRunning, ExecuteOk, ExecuteFailed, ExecutePanics, Exit,
        StoreCompleted, StoreExpired, StoreDeadLetter, StoreTerminal, EmitWebhook, DbCall,
        GoTo, NextTurn
  <2>2. RefreshComing => RefreshComing'
    BY <1>1, <2>1 DEF RefreshComing
  <2>3. \/ jobs' = jobs
        \/ \E j, s : s # "SCHEDULED" /\ jobs' = SetState(j, s)
    BY <1>1, <1>4
    DEF Work, WorkerStep, Receive, SetRunning, ExecuteOk, ExecuteFailed, ExecutePanics, Exit,
        StoreCompleted, StoreExpired, StoreDeadLetter, StoreTerminal, EmitWebhook, DbCall,
        storeVars
  <2>4. \A j \in Job : IsScheduled(j)' => IsScheduled(j) /\ jobs'[j] = jobs[j]
    <3>1. CASE jobs' = jobs
      BY <3>1 DEF IsScheduled
    <3>2. ASSUME NEW i, NEW s, s # "SCHEDULED", jobs' = SetState(i, s), NEW j \in Job,
                 IsScheduled(j)'
          PROVE  jobs'[j] = jobs[j]
      <4>1. i # j
        BY <1>1, <3>2 DEF SetState, IsScheduled, Row
      <4> QED
        BY <1>1, <3>2, <4>1 DEF SetState
    <3> QED
      BY <2>3, <3>1, <3>2 DEF IsScheduled
  <2> QED
    BY <1>1, <2>2, <2>4, WakeFrame DEF WakeInv, InHeap
<1> QED
  BY <1>2, <1>3, <1>4

LEMMA WakeSchedule ==
  ASSUME WakeInv, Calm, Schedule, IsFiniteSet(Job), Cardinality(Job) <= LookaheadLimit
  PROVE  NoLostWakeup'
<1>1. jobs \in [Job -> Row] /\ NothingFailed /\ faults \in Nat /\ faults' = faults /\ Up /\ UNCHANGED <<wpc, rpc, owed>>
  BY DEF WakeInv, Calm, TypeOK, StoreTypeOK, Up, Schedule, SchedulerStep, RefreshHeap,
         WakeUp, Deadline, DispatchDone, Lease, SendOk, SendFull, SendClosed, GiveBack,
         Renotify, workerVars
<1>2. CASE RefreshHeap
  <2>1. jobs' = jobs /\ heap' = {[id |-> j, at |-> jobs[j].scheduledAt] : j \in ScheduledJobs}
    BY <1>1, <1>2, FetchesAll DEF RefreshHeap
  <2> QED
    BY <2>1 DEF NoLostWakeup, InHeap, IsScheduled, ScheduledJobs
<1>3. CASE WakeUp
  BY <1>3 DEF WakeUp, NoLostWakeup, RefreshComing
<1>4. CASE Deadline \/ DispatchDone \/ SendOk \/ SendFull \/ SendClosed
  <2>1. /\ UNCHANGED <<jobs, heap, permit>>
        /\ spc \notin {"refresh", "renotify"}
    BY <1>4 DEF Deadline, DispatchDone, SendOk, SendFull, SendClosed, storeVars
  <2> QED
    BY <1>1, <2>1, WakeFrame DEF WakeInv, RefreshComing, IsScheduled, InHeap
<1>5. CASE Lease
  <2>1. PICK e \in Earliest :
          /\ heap' = heap \ {e}
          /\ \/ jobs' = LeaseJob(e.id)
             \/ jobs' = jobs /\ ~IsScheduled(e.id)
    BY <1>1, <1>5 DEF Lease, DbCall
  <2>2. permit' = permit /\ spc = "dispatch"
    BY <1>5 DEF Lease
  <2>3. e.id \in Job
    BY DEF Earliest, WakeInv, TypeOK, SchedulerTypeOK, ScheduledJob
  <2>4. ~IsScheduled(e.id)'
    <3>1. CASE jobs' = LeaseJob(e.id)
      <4>1. jobs'[e.id].state = "LEASED"
        BY <1>1, <2>3, <3>1 DEF LeaseJob, Row
      <4> QED
        BY <4>1 DEF IsScheduled
    <3>2. CASE jobs' = jobs /\ ~IsScheduled(e.id)
      BY <3>2 DEF IsScheduled
    <3> QED
      BY <2>1, <3>1, <3>2
  <2>5. \A j \in Job \ {e.id} : jobs'[j] = jobs[j]
    BY <1>1, <2>1 DEF LeaseJob
  <2>6. \A j \in Job \ {e.id} : InHeap(j) => InHeap(j)'
    BY <2>1, <2>5 DEF InHeap
  <2> QED
    BY <1>1, <2>2, <2>4, <2>5, <2>6, WakeFrame DEF WakeInv, RefreshComing, IsScheduled
<1>6. CASE GiveBack
  BY <1>1, <1>6 DEF GiveBack, DbCall, NoLostWakeup, RefreshComing
<1>7. CASE Renotify
  BY <1>7 DEF Renotify, NotifyOne, NoLostWakeup, RefreshComing
<1> QED
  BY <1>2, <1>3, <1>4, <1>5, <1>6, <1>7 DEF Schedule, SchedulerStep

LEMMA WakeReap == ASSUME WakeInv, Calm, Reap PROVE NoLostWakeup'
<1>1. CASE ReapPass
  BY <1>1 DEF ReapPass, DbCall, WakeInv, Calm, NoLostWakeup, RefreshComing
<1>2. CASE ReapNotify
  BY <1>2 DEF ReapNotify, NotifyOne, NoLostWakeup, RefreshComing
<1> QED
  BY <1>1, <1>2 DEF Reap, ReaperStep

LEMMA WakeServe == ASSUME WakeInv, Calm, Serve PROVE NoLostWakeup'
<1>1. CASE \E j \in Job : CreateJob(j) \/ CancelScheduled(j)
  BY <1>1 DEF CreateJob, CancelScheduled, NoLostWakeup, RefreshComing
<1>2. CASE \E r \in owed : RequestNotify(r)
  BY <1>2 DEF RequestNotify, NotifyOne, NoLostWakeup, RefreshComing
<1>3. ~ \E r \in owed : RequestDropped(r)
  BY DEF RequestDropped, WakeInv, Calm
<1> QED
  BY <1>1, <1>2, <1>3 DEF Serve, ApiStep

LEMMA WakeNext ==
  ASSUME IsFiniteSet(Job), Cardinality(Job) <= LookaheadLimit, WakeInv, [Next]_vars
  PROVE  NoLostWakeup'
<1> SUFFICES ASSUME Up', NothingFailed' PROVE NoLostWakeup'
  BY DEF NoLostWakeup
<1>0. Calm
  <2>1. faults <= MaxFaults /\ faults' = MaxFaults /\ MaxFaults \in Nat
    BY KronkeeperAssumption DEF WakeInv, Budget, NothingFailed
  <2>2. faults' \in Nat /\ faults \in Nat /\ faults' <= faults
    BY FaultsFall DEF WakeInv
  <2> QED
    BY <2>1, <2>2 DEF Calm, NothingFailed
<1>1. CASE Boot
  BY <1>0, <1>1 DEF Boot, DbCall, Calm, NoLostWakeup, RefreshComing
<1>2. CASE Crash
  BY <1>2 DEF Crash, NoLostWakeup, Up
<1>3. CASE StopWorkers \/ Tick \/ UNCHANGED vars
  <2>1. UNCHANGED <<jobs, permit, spc, heap, rpc, owed, wpc>>
    BY <1>3 DEF StopWorkers, NotifyWaiters, Tick, vars, storeVars, workerVars, schedVars
  <2> QED
    BY <1>0, <2>1 DEF Calm, WakeInv, NoLostWakeup, RefreshComing, InHeap, IsScheduled, Up
<1>4. ASSUME NEW w \in Worker, Work(w) PROVE NoLostWakeup'
  <2>1. CASE ~Up
    BY <1>4, <2>1 DEF Work, schedVars, Up, NoLostWakeup
  <2> QED
    BY <1>0, <1>4, <2>1, WakeWork
<1> QED
  BY <1>0, <1>1, <1>2, <1>3, <1>4, WakeSchedule, WakeReap, WakeServe DEF Next

(* Every waiting job is in the scheduler's heap with its present time, or  *)
(* the scheduler is about to read the table again.                         *)
THEOREM WakeupsAreNotLost ==
  ASSUME IsFiniteSet(Job), Cardinality(Job) <= LookaheadLimit
  PROVE  Spec => []NoLostWakeup
<1>1. Init => WakeInv
  BY TypeInit, KronkeeperAssumption
  DEF Init, StoreInit, SchedulerInit, WakeInv, Budget, NoLostWakeup, Up
<1>2. WakeInv /\ [Next]_vars => WakeInv'
  BY TypeNext, BudgetNext, WakeNext DEF WakeInv
<1>3. WakeInv => NoLostWakeup
  BY DEF WakeInv
<1> QED
  BY <1>1, <1>2, <1>3, PTL DEF Spec

=============================================================================
