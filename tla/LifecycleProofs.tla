-------------------------- MODULE LifecycleProofs ---------------------------
(***************************************************************************)
(* When leases outlast the wait for a worker, the daemon implements the    *)
(* job state machine of JobLifecycle, its heap agrees with the table, and  *)
(* no job is leased before its time.                                       *)
(*                                                                         *)
(* The argument: sole ownership (OwnershipProofs) ties what a task knows   *)
(* to the row it is about to overwrite; with the verdicts a worker has     *)
(* taken and the heap's soundness, every step's effect on the table is one *)
(* of a short list (Effect), from which everything else follows.           *)
(***************************************************************************)
EXTENDS OwnershipProofs

(* A worker stores a verdict that its copy of the job justifies.           *)
VerdictsTaken ==
  \A w \in Worker :
    /\ wpc[w] = "expire" => ExpiresAt[held[w].id] # Null
    /\ wpc[w] = "deadletter" => held[w].attempt + 1 > MaxRetries[held[w].id]
    /\ wpc[w] = "retry" => held[w].attempt + 1 <= MaxRetries[held[w].id]

(* The dispatch loop's `now` is not in the future.                         *)
DispatchTime == dnow <= now

LifeInv == OwnerInv /\ HeapSound /\ VerdictsTaken /\ DispatchTime

-----------------------------------------------------------------------------
(* What one step can do to the table, and in which state of the row.       *)
RowEffect(j) ==
  \/ jobs[j].state = "ABSENT" /\ jobs' = InsertJob(j)
  \/ jobs[j].state = "SCHEDULED" /\ jobs' = CancelJob(j)
  \/ /\ jobs[j].state = "SCHEDULED"
     /\ jobs[j].scheduledAt <= now
     /\ \A e \in heap' : e.id # j
     /\ jobs' = LeaseJob(j)
  \/ jobs[j].state = "LEASED" /\ jobs' = SetState(j, "RUNNING")
  \/ /\ jobs[j].state = "LEASED"
     /\ jobs' = ScheduleRetry(j, jobs[j].scheduledAt, jobs[j].attempt)
  \/ jobs[j].state = "RUNNING" /\ jobs' = SetState(j, "COMPLETED")
  \/ /\ jobs[j].state = "RUNNING"
     /\ ExpiresAt[j] # Null
     /\ jobs' = SetState(j, "EXPIRED")
  \/ /\ jobs[j].state = "RUNNING"
     /\ jobs[j].attempt >= MaxRetries[j]
     /\ jobs' = SetState(j, "DEAD_LETTER")
  \/ /\ jobs[j].state = "RUNNING"
     /\ jobs[j].attempt < MaxRetries[j]
     /\ \E w \in Worker : wpc[w] = "retry" /\ held[w].id = j
     /\ \E at \in Int : jobs' = ScheduleRetry(j, at, jobs[j].attempt + 1)

Effect ==
  \/ jobs' = jobs
  \/ ~Up /\ jobs' = RecoverOnStartup
  \/ Up /\ Up' /\ jobs' = ReapExpiredLeases
  \/ Up /\ Up' /\ \E j \in Job : RowEffect(j)

LEMMA WorkEffect == ASSUME LifeInv, NEW w \in Worker, Work(w) PROVE Effect
<1>1. wpc[w] # "recv" => Up /\ Up'
  BY DEF LifeInv, OwnerInv, IdleWhenDown, Up, Work, schedVars
<1>2. wpc[w] \in {"start"} \cup Started =>
        held[w].id \in Job /\ jobs[held[w].id].attempt = held[w].attempt
        /\ held[w].attempt \in Nat /\ MaxRetries[held[w].id] \in Int
  BY JobStoreAssumption
  DEF LifeInv, OwnerInv, TypeOK, PoolTypeOK, SoleOwner, CopiesMatch, StartPc, Started,
      Storing, Leased, Running, Copy
<1>3. wpc[w] = "start" => jobs[held[w].id].state = "LEASED"
  BY DEF LifeInv, OwnerInv, SoleOwner, CopiesMatch, StartPc, Leased
<1>4. wpc[w] \in Started => jobs[held[w].id].state = "RUNNING"
  BY DEF LifeInv, OwnerInv, SoleOwner, CopiesMatch, Running
<1>5. CASE SetRunning(w)
  <2>1. wpc[w] = "start" /\ jobs' \in {jobs, SetState(held[w].id, "RUNNING")}
    BY <1>5 DEF SetRunning, DbCall
  <2> QED
    BY <1>1, <1>2, <1>3, <2>1 DEF Effect, RowEffect
<1>6. CASE StoreCompleted(w)
  <2>1. wpc[w] = "complete" /\ jobs' \in {jobs, SetState(held[w].id, "COMPLETED")}
    BY <1>6 DEF StoreCompleted, StoreTerminal, DbCall
  <2> QED
    BY <1>1, <1>2, <1>4, <2>1 DEF Effect, RowEffect, Started, Storing
<1>7. CASE StoreExpired(w)
  <2>1. wpc[w] = "expire" /\ jobs' \in {jobs, SetState(held[w].id, "EXPIRED")}
    BY <1>7 DEF StoreExpired, StoreTerminal, DbCall
  <2>2. ExpiresAt[held[w].id] # Null
    BY <2>1 DEF LifeInv, VerdictsTaken
  <2> QED
    BY <1>1, <1>2, <1>4, <2>1, <2>2 DEF Effect, RowEffect, Started, Storing
<1>8. CASE StoreDeadLetter(w)
  <2>1. wpc[w] = "deadletter" /\ jobs' \in {jobs, SetState(held[w].id, "DEAD_LETTER")}
    BY <1>8 DEF StoreDeadLetter, StoreTerminal, DbCall
  <2>2. jobs[held[w].id].attempt >= MaxRetries[held[w].id]
    BY <1>2, <2>1 DEF LifeInv, VerdictsTaken, Started, Storing
  <2> QED
    BY <1>1, <1>2, <1>4, <2>1, <2>2 DEF Effect, RowEffect, Started, Storing
<1>9. CASE StoreRetry(w)
  <2>1. /\ wpc[w] = "retry"
        /\ jobs' \in {jobs, ScheduleRetry(held[w].id, retryAt[w], held[w].attempt + 1)}
    BY <1>9 DEF StoreRetry, DbCall
  <2>2. jobs[held[w].id].attempt < MaxRetries[held[w].id]
    BY <1>2, <2>1 DEF LifeInv, VerdictsTaken, Started, Storing
  <2>3. retryAt[w] \in Int
    BY DEF LifeInv, OwnerInv, TypeOK, PoolTypeOK
  <2> QED
    BY <1>1, <1>2, <1>4, <2>1, <2>2, <2>3 DEF Effect, RowEffect, Started, Storing
<1>10. CASE \/ Receive(w) \/ Exit(w) \/ ExecuteOk(w) \/ ExecuteFailed(w) \/ ExecutePanics(w)
            \/ NotifyRetry(w) \/ EmitWebhook(w)
  BY <1>10 DEF Receive, ExecuteOk, ExecuteFailed, ExecutePanics, Exit, NotifyRetry, EmitWebhook,
               DbCall, storeVars, Effect
<1> QED
  BY <1>5, <1>6, <1>7, <1>8, <1>9, <1>10 DEF Work, WorkerStep

(* The heap's entry for a job that is still waiting says its present time, *)
(* so a lease is never early.                                              *)
LEMMA ScheduleEffect == ASSUME LifeInv, Schedule PROVE Effect
<1>1. Up /\ Up'
  BY DEF Schedule, SchedulerStep, RefreshHeap, WakeUp, Deadline, DispatchDone, Lease,
         DbCall, SendOk, SendFull, SendClosed, GiveBack, Renotify, ToSelect, Up
<1>2. CASE Lease
  <2>1. PICK e \in Earliest :
          /\ e.at <= dnow
          /\ heap' = heap \ {e}
          /\ \/ jobs' = jobs
             \/ IsScheduled(e.id) /\ jobs' = LeaseJob(e.id)
    BY <1>2 DEF Lease, Due, DbCall
  <2>2. e \in heap /\ e.id \in Job /\ e.at \in Int
    BY DEF Earliest, LifeInv, OwnerInv, TypeOK, SchedulerTypeOK, ScheduledJob
  <2>3. jobs[e.id].scheduledAt <= now
    BY <2>1, <2>2 DEF LifeInv, HeapSound, DispatchTime, OwnerInv, TypeOK, StoreTypeOK,
                      SchedulerTypeOK
  <2>4. \A f \in heap' : f.id # e.id
    <3>1. \A f \in heap : f.id = e.id => f.at = e.at
      BY <2>2 DEF LifeInv, HeapSound
    <3>2. \A f \in heap : f = [id |-> f.id, at |-> f.at]
      BY DEF LifeInv, OwnerInv, TypeOK, SchedulerTypeOK, ScheduledJob
    <3> QED
      BY <2>1, <2>2, <3>1, <3>2
  <2> QED
    BY <1>1, <2>1, <2>2, <2>3, <2>4 DEF Effect, RowEffect, IsScheduled
<1>3. CASE GiveBack
  <2>1. hand \in Copy /\ Leased(hand)
    BY <1>3 DEF GiveBack, HandFull, LifeInv, OwnerInv, TypeOK, SchedulerTypeOK, SoleOwner,
                CopiesMatch
  <2>2. jobs' \in {jobs, ScheduleRetry(hand.id, hand.scheduledAt, hand.attempt)}
    BY <1>3 DEF GiveBack, DbCall
  <2> QED
    BY <1>1, <2>1, <2>2 DEF Effect, RowEffect, Leased, Copy
<1>4. CASE jobs' = jobs
  BY <1>4 DEF Effect
<1> QED
  BY <1>2, <1>3, <1>4
  DEF Schedule, SchedulerStep, RefreshHeap, WakeUp, Deadline, DispatchDone, SendOk,
      SendFull, SendClosed, Renotify, storeVars

LEMMA StepEffect == ASSUME LifeInv, [Next]_vars PROVE Effect
<1>1. CASE Boot
  BY <1>1 DEF Boot, DbCall, Effect
<1>2. CASE Crash \/ StopWorkers \/ Tick \/ UNCHANGED vars
  BY <1>2 DEF Crash, StopWorkers, NotifyWaiters, Tick, vars, storeVars, Effect
<1>3. CASE Reap
  BY <1>3 DEF Reap, ReaperStep, ReapPass, ReapNotify, DbCall, storeVars, schedVars, Up,
              Effect
<1>4. CASE Serve
  <2>1. Up /\ Up'
    BY <1>4 DEF Serve, schedVars, Up
  <2>2. ASSUME NEW j \in Job, CreateJob(j) \/ CancelScheduled(j) PROVE Effect
    BY <2>1, <2>2 DEF CreateJob, CancelScheduled, IsScheduled, RowEffect, Effect
  <2>3. ASSUME NEW r \in owed, RequestNotify(r) \/ RequestDropped(r) PROVE Effect
    BY <2>3 DEF RequestNotify, RequestDropped, storeVars, Effect
  <2> QED
    BY <1>4, <2>2, <2>3 DEF Serve, ApiStep
<1> QED
  BY <1>1, <1>2, <1>3, <1>4, ScheduleEffect, WorkEffect DEF Next

-----------------------------------------------------------------------------
(* The strengthening is inductive.                                         *)
LEMMA HeapNext == ASSUME LifeInv, [Next]_vars PROVE HeapSound'
<1>1. Effect
  BY StepEffect
<1>2. CASE RefreshHeap /\ heap' # heap
  <2>1. PICK S \in SUBSET ScheduledJobs :
          heap' = {[id |-> j, at |-> jobs[j].scheduledAt] : j \in S}
    BY <1>2 DEF RefreshHeap
  <2>2. jobs' = jobs
    BY <1>2 DEF RefreshHeap
  <2> QED
    BY <2>1, <2>2 DEF HeapSound, ScheduledJobs, IsScheduled
<1>3. CASE heap' \subseteq heap
  <2> SUFFICES ASSUME NEW e \in heap'
               PROVE  /\ jobs'[e.id].state \in {"SCHEDULED", "CANCELLED"}
                      /\ jobs'[e.id].scheduledAt = e.at
    BY DEF HeapSound
  <2>1. /\ e.id \in Job
        /\ jobs[e.id].state \in {"SCHEDULED", "CANCELLED"}
        /\ jobs[e.id].scheduledAt = e.at
        /\ jobs \in [Job -> Row]
    BY <1>3 DEF LifeInv, HeapSound, OwnerInv, TypeOK, SchedulerTypeOK, ScheduledJob,
                StoreTypeOK
  <2>2. Up
    BY <1>3 DEF LifeInv, OwnerInv, IdleWhenDown, Up
  <2>3. CASE jobs' = ReapExpiredLeases
    BY <2>1, <2>3 DEF ReapExpiredLeases, LeaseExpired
  <2>4. ASSUME NEW j \in Job, RowEffect(j)
        PROVE  \/ jobs'[e.id] = jobs[e.id]
               \/ /\ jobs'[e.id].state = "CANCELLED"
                  /\ jobs'[e.id].scheduledAt = jobs[e.id].scheduledAt
    <3>1. CASE j = e.id
      BY <2>1, <2>4, <3>1 DEF RowEffect, CancelJob, SetState, Row
    <3>2. CASE j # e.id
      BY <2>1, <2>4, <3>2
      DEF RowEffect, InsertJob, CancelJob, LeaseJob, SetState, ScheduleRetry
    <3> QED
      BY <3>1, <3>2
  <2> QED
    BY <1>1, <2>1, <2>2, <2>3, <2>4 DEF Effect
<1> QED
  BY <1>2, <1>3
  DEF Next, Boot, Crash, StopWorkers, NotifyWaiters, Tick, Schedule, SchedulerStep, WakeUp, Deadline, DispatchDone,
      Lease, SendOk, SendFull, SendClosed, GiveBack, Renotify, Work, Reap, Serve, vars,
      schedVars

LEMMA VerdictsNext == ASSUME LifeInv, [Next]_vars PROVE VerdictsTaken'
<1>1. CASE UNCHANGED <<wpc, held>>
  BY <1>1 DEF LifeInv, VerdictsTaken
<1>2. CASE Crash
  BY <1>2 DEF Crash, VerdictsTaken
<1>3. ASSUME NEW w \in Worker, Work(w) PROVE VerdictsTaken'
  <2>1. \A v \in Worker \ {w} : wpc'[v] = wpc[v] /\ held'[v] = held[v]
    BY <1>3
    DEF Work, WorkerStep, Receive, SetRunning, ExecuteOk, ExecuteFailed, ExecutePanics, Exit,
        StoreCompleted, StoreExpired, StoreDeadLetter, StoreTerminal, StoreRetry,
        NotifyRetry, EmitWebhook, DbCall, GoTo, NextTurn, LifeInv, OwnerInv, TypeOK,
        PoolTypeOK
  <2>2. CASE ExecuteFailed(w)
    <3>1. wpc'[w] \in {"expire", "deadletter", "retry"} /\ held' = held
      BY <2>2 DEF ExecuteFailed, GoTo, LifeInv, OwnerInv, TypeOK, PoolTypeOK
    <3>2. /\ wpc'[w] = "expire" => ExpiresAt[held[w].id] # Null
          /\ wpc'[w] = "deadletter" => held[w].attempt + 1 > MaxRetries[held[w].id]
          /\ wpc'[w] = "retry" => held[w].attempt + 1 <= MaxRetries[held[w].id]
      <4>1. held[w].attempt \in Nat /\ MaxRetries[held[w].id] \in Int
        BY <2>2, JobStoreAssumption
        DEF ExecuteFailed, LifeInv, OwnerInv, TypeOK, PoolTypeOK, Copy
      <4> QED
        BY <2>2, <4>1
        DEF ExecuteFailed, RetriesExhausted, GoTo, Expired, PastTTL, LifeInv, OwnerInv, TypeOK,
            PoolTypeOK
    <3> QED
      BY <2>1, <3>1, <3>2 DEF LifeInv, VerdictsTaken
  <2>3. CASE ~ExecuteFailed(w)
    <3>1. wpc'[w] \notin {"expire", "deadletter", "retry"}
      BY <1>3, <2>3
      DEF Work, WorkerStep, Receive, SetRunning, ExecuteOk, ExecutePanics, Exit, StoreCompleted,
          StoreExpired, StoreDeadLetter, StoreTerminal, StoreRetry, NotifyRetry,
          EmitWebhook, DbCall, GoTo, NextTurn, LifeInv, OwnerInv, TypeOK, PoolTypeOK
    <3> QED
      BY <2>1, <3>1 DEF LifeInv, VerdictsTaken
  <2> QED
    BY <2>2, <2>3
<1> QED
  BY <1>1, <1>2, <1>3
  DEF Next, Boot, StopWorkers, NotifyWaiters, Tick, Schedule, SchedulerStep, RefreshHeap,
      WakeUp, Deadline, DispatchDone, Lease, SendOk, SendFull, SendClosed, GiveBack,
      Renotify, Reap, Serve, vars, workerVars

LEMMA ClockNext == ASSUME [Next]_vars PROVE now' = now \/ now' = now + 1
BY DEF Next, Boot, Crash, StopWorkers, NotifyWaiters, Tick, Schedule, SchedulerStep, RefreshHeap, WakeUp, Deadline,
       DispatchDone, Lease, SendOk, SendFull, SendClosed, GiveBack, Renotify, Work,
       WorkerStep, Receive, SetRunning, ExecuteOk, ExecuteFailed, ExecutePanics, Exit,
       StoreCompleted, StoreExpired, StoreDeadLetter, StoreTerminal, StoreRetry,
       NotifyRetry, EmitWebhook, Reap, ReaperStep, ReapPass, ReapNotify, Serve, ApiStep,
       CreateJob, CancelScheduled, RequestNotify, RequestDropped, vars, storeVars

LEMMA DispatchTimeNext == ASSUME LifeInv, [Next]_vars PROVE DispatchTime'
<1>1. now \in Nat /\ dnow \in Nat /\ dnow <= now
  BY DEF LifeInv, DispatchTime, OwnerInv, TypeOK, StoreTypeOK, SchedulerTypeOK
<1>2. now' = now \/ now' = now + 1
  BY ClockNext
<1>3. dnow' = dnow \/ dnow' = 0 \/ (dnow' = now /\ now' = now)
  BY DEF Next, Boot, Crash, StopWorkers, NotifyWaiters, Tick, Schedule, SchedulerStep, RefreshHeap, WakeUp, Deadline,
         DispatchDone, Lease, DbCall, SendOk, SendFull, SendClosed, GiveBack, Renotify,
         ToSelect, Work, Reap, Serve, vars, schedVars, storeVars
<1> QED
  BY <1>1, <1>2, <1>3 DEF DispatchTime

LEMMA LifeInit == Init => LifeInv
BY OwnerInit
DEF LifeInv, HeapSound, VerdictsTaken, DispatchTime, Init, StoreInit, PoolInit,
    SchedulerInit

LEMMA LifeNext == ASSUME TimelyPickup, LifeInv, [Next]_vars PROVE LifeInv'
BY OwnerNext, TypeNext, HeapNext, VerdictsNext, DispatchTimeNext DEF LifeInv, OwnerInv

-----------------------------------------------------------------------------
(* The heap of the scheduler agrees with the table, for every size of the  *)
(* system, every lookahead limit and every failure.                        *)
THEOREM HeapAgrees ==
  ASSUME TimelyPickup
  PROVE  Spec => []HeapSound
<1>1. LifeInv /\ [Next]_vars => LifeInv'
  BY LifeNext
<1>2. LifeInv => HeapSound
  BY DEF LifeInv
<1> QED
  BY <1>1, <1>2, LifeInit, PTL DEF Spec

(* No job is ever leased before its scheduled_at.                          *)
THEOREM LeasesAreNotEarly ==
  ASSUME TimelyPickup
  PROVE  Spec => NoEarlyLease
<1>1. ASSUME LifeInv, [Next]_vars, NEW j \in Job, IsScheduled(j),
             jobs'[j].state = "LEASED"
      PROVE  jobs[j].scheduledAt <= now
  <2>1. Effect /\ jobs \in [Job -> Row]
    BY <1>1, StepEffect DEF LifeInv, OwnerInv, TypeOK, StoreTypeOK
  <2>2. jobs[j].state = "SCHEDULED"
    BY <1>1 DEF IsScheduled
  <2>3. jobs' # jobs
    BY <1>1, <2>2
  <2>4. jobs' # RecoverOnStartup /\ jobs' # ReapExpiredLeases
    BY <1>1, <2>2 DEF RecoverOnStartup, ReapExpiredLeases, Orphaned, LeaseExpired
  <2>5. PICK i \in Job : RowEffect(i)
    BY <2>1, <2>3, <2>4 DEF Effect
  <2>6. i = j
    BY <1>1, <2>1, <2>2, <2>5
    DEF RowEffect, InsertJob, CancelJob, LeaseJob, SetState, ScheduleRetry
  <2>7. jobs' # CancelJob(j)
    BY <1>1, <2>1 DEF CancelJob, SetState, Row
  <2> QED
    BY <2>2, <2>5, <2>6, <2>7 DEF RowEffect
<1>2. LifeInv /\ [Next]_vars =>
        [\A j \in Job :
           IsScheduled(j) /\ jobs'[j].state = "LEASED" => jobs[j].scheduledAt <= now]_vars
  BY <1>1
<1>3. LifeInv /\ [Next]_vars => LifeInv'
  BY LifeNext
<1> QED
  BY <1>2, <1>3, LifeInit, PTL DEF Spec, NoEarlyLease

(* No step changes a row in a terminal state.                              *)
LEMMA TerminalStep ==
  ASSUME LifeInv, [Next]_vars, NEW j \in Job, jobs[j].state \in Terminal
  PROVE  jobs'[j] = jobs[j]
<1>1. Effect /\ jobs \in [Job -> Row]
  BY StepEffect DEF LifeInv, OwnerInv, TypeOK, StoreTypeOK
<1>2. jobs[j].state \notin {"ABSENT", "SCHEDULED", "LEASED", "RUNNING"}
  BY DEF Terminal
<1>3. jobs' \in {RecoverOnStartup, ReapExpiredLeases} => jobs'[j] = jobs[j]
  BY <1>2 DEF RecoverOnStartup, ReapExpiredLeases, Orphaned, LeaseExpired
<1>4. ASSUME NEW i \in Job, RowEffect(i) PROVE jobs'[j] = jobs[j]
  <2>1. i # j
    BY <1>2, <1>4 DEF RowEffect
  <2> QED
    BY <1>1, <1>4, <2>1
    DEF RowEffect, InsertJob, CancelJob, LeaseJob, SetState, ScheduleRetry
<1> QED
  BY <1>1, <1>3, <1>4 DEF Effect

(* A row in a terminal state never changes again.                          *)
THEOREM TerminalStatesAreFinal ==
  ASSUME TimelyPickup
  PROVE  Spec => TerminalFinal
<1>1. LifeInv /\ [Next]_vars =>
        [\A j \in Job : jobs[j].state \in Terminal => jobs'[j] = jobs[j]]_vars
  BY TerminalStep
<1>2. LifeInv /\ [Next]_vars => LifeInv'
  BY LifeNext
<1> QED
  BY <1>1, <1>2, LifeInit, PTL DEF Spec, TerminalFinal

-----------------------------------------------------------------------------
(* The last run past the TTL: a worker that executes the job comes to      *)
(* retry only if the TTL check let it (result.rs:67-79).                   *)
LEMMA LateVerdict ==
  ASSUME LifeInv, [Next]_vars, NEW j \in Job, PastTTL(j),
         \A w \in Worker : Executing(w, j) => wpc[w] # "retry",
         NEW w \in Worker, Executing(w, j)'
  PROVE  wpc'[w] # "retry"
<1> SUFFICES ASSUME wpc'[w] = "retry", held'[w].id = j PROVE FALSE
  BY DEF Executing
<1>1. ~(wpc'[w] = wpc[w] /\ held'[w] = held[w])
  BY DEF Executing, Started, Storing
<1>2. wpc \in [Worker -> WorkerPc] /\ held \in [Worker -> Copy \cup {Null}]
  BY DEF LifeInv, OwnerInv, TypeOK, PoolTypeOK
<1>3. ~Crash
  BY DEF Crash
<1>4. PICK v \in Worker : Work(v)
  BY <1>1, <1>3
  DEF Next, Boot, StopWorkers, NotifyWaiters, Tick, Schedule, SchedulerStep, RefreshHeap,
      WakeUp, Deadline, DispatchDone, Lease, SendOk, SendFull, SendClosed, GiveBack,
      Renotify, Reap, Serve, vars, workerVars
<1>5. v = w
  BY <1>1, <1>2, <1>4
  DEF Work, WorkerStep, Receive, SetRunning, ExecuteOk, ExecuteFailed, ExecutePanics, Exit,
      StoreCompleted, StoreExpired, StoreDeadLetter, StoreTerminal, StoreRetry,
      NotifyRetry, EmitWebhook, DbCall, GoTo, NextTurn
<1>6. CASE ExecuteFailed(w)
  <2>1. held' = held /\ ~Expired(held[w].id)
    BY <1>2, <1>6 DEF ExecuteFailed, GoTo
  <2> QED
    BY <2>1 DEF Expired
<1>7. CASE ~ExecuteFailed(w)
  BY <1>2, <1>4, <1>5, <1>7
  DEF Work, WorkerStep, Receive, SetRunning, ExecuteOk, ExecutePanics, Exit, StoreCompleted,
      StoreExpired, StoreDeadLetter, StoreTerminal, StoreRetry, NotifyRetry, EmitWebhook,
      DbCall, GoTo, NextTurn
<1> QED
  BY <1>6, <1>7

(* A run that is under way when the TTL has passed is the last one of its  *)
(* job while the process lives, for every size of the system and failure.  *)
THEOREM LateRunsAreLast ==
  ASSUME TimelyPickup
  PROVE  Spec => LateRunIsLast
<1>1. ASSUME LifeInv, [Next]_vars, NEW j \in Job, Up, LastRun(j)
      PROVE  LastRun(j)'
  <2>1. PastTTL(j)'
    <3>1. now \in Nat /\ (ExpiresAt[j] # Null => ExpiresAt[j] \in Int)
      BY <1>1, JobStoreAssumption DEF LifeInv, OwnerInv, TypeOK, StoreTypeOK
    <3> QED
      BY <1>1, <3>1, ClockNext DEF LastRun, PastTTL
  <2>2. CASE jobs[j].state \in Terminal
    BY <1>1, <2>1, <2>2, TerminalStep DEF LastRun
  <2>3. CASE jobs[j].state = "RUNNING" /\ \A w \in Worker : Executing(w, j) => wpc[w] # "retry"
    <3>1. \A w \in Worker : Executing(w, j)' => wpc'[w] # "retry"
      BY <1>1, <2>3, LateVerdict DEF LastRun
    <3>2. jobs'[j].state \in {"RUNNING"} \cup Terminal
      <4>1. Effect /\ jobs \in [Job -> Row]
        BY <1>1, StepEffect DEF LifeInv, OwnerInv, TypeOK, StoreTypeOK
      <4>2. CASE jobs' = ReapExpiredLeases
        BY <2>3, <4>2 DEF ReapExpiredLeases, LeaseExpired
      <4>3. ASSUME NEW i \in Job, i # j, RowEffect(i) PROVE jobs'[j] = jobs[j]
        BY <4>1, <4>3
        DEF RowEffect, InsertJob, CancelJob, LeaseJob, SetState, ScheduleRetry
      <4>4. CASE RowEffect(j)
        <5>1. \E s \in {"COMPLETED", "EXPIRED", "DEAD_LETTER"} : jobs' = SetState(j, s)
          BY <2>3, <4>4 DEF RowEffect, Executing, Started, Storing
        <5> QED
          BY <4>1, <5>1 DEF SetState, Row, Terminal
      <4> QED
        BY <1>1, <2>3, <4>1, <4>2, <4>3, <4>4 DEF Effect
    <3> QED
      BY <2>1, <3>1, <3>2 DEF LastRun
  <2> QED
    BY <1>1, <2>2, <2>3 DEF LastRun
<1>2. LifeInv /\ [Next]_vars => [\A j \in Job : Up /\ LastRun(j) => LastRun(j)']_vars
  BY <1>1
<1>3. LifeInv /\ [Next]_vars => LifeInv'
  BY LifeNext
<1> QED
  BY <1>2, <1>3, LifeInit, PTL DEF Spec, LateRunIsLast

-----------------------------------------------------------------------------
(* The refinement: how the statements on one row look to JobLifecycle.     *)
LEMMA LifeSetState ==
  ASSUME jobs \in [Job -> Row], NEW j \in Job, NEW s,
         jobs' = SetState(j, s) \/ (s = "LEASED" /\ jobs' = LeaseJob(j))
  PROVE  LifeState' = [LifeState EXCEPT ![j] = s] /\ LifeAttempt' = LifeAttempt
<1>1. jobs'[j].state = s /\ jobs'[j].attempt = jobs[j].attempt
  BY DEF SetState, LeaseJob, Row
<1>2. \A i \in Job \ {j} : jobs'[i] = jobs[i]
  BY DEF SetState, LeaseJob
<1> QED
  BY <1>1, <1>2 DEF LifeState, LifeAttempt

LEMMA LifeScheduleRetry ==
  ASSUME jobs \in [Job -> Row], NEW j \in Job, NEW at, NEW n,
         jobs' = ScheduleRetry(j, at, n)
  PROVE  /\ LifeState' = [LifeState EXCEPT ![j] = "SCHEDULED"]
         /\ LifeAttempt' = [LifeAttempt EXCEPT ![j] = n]
BY DEF ScheduleRetry, LifeState, LifeAttempt

(* A change of one row is one move of the state machine.                   *)
LEMMA LifecycleRow ==
  ASSUME LifeInv, NEW j \in Job, RowEffect(j), Up, Up'
  PROVE  Lifecycle!Next
<1>1. jobs \in [Job -> Row] /\ Up' = Up
  BY DEF LifeInv, OwnerInv, TypeOK, StoreTypeOK, Up
<1>2. LifeState[j] = jobs[j].state /\ LifeAttempt[j] = jobs[j].attempt
  BY DEF LifeState, LifeAttempt
<1>3. ASSUME NEW s, jobs' = SetState(j, s) \/ (s = "LEASED" /\ jobs' = LeaseJob(j))
      PROVE  Lifecycle!Quietly(j, jobs[j].state, s)
  BY <1>1, <1>2, <1>3, LifeSetState DEF Lifecycle!Quietly, Lifecycle!Move
<1>4. CASE jobs[j].state = "ABSENT" /\ jobs' = InsertJob(j)
  <2>1. /\ LifeState' = [LifeState EXCEPT ![j] = "SCHEDULED"]
        /\ LifeAttempt' = [LifeAttempt EXCEPT ![j] = 0]
    BY <1>1, <1>4 DEF InsertJob, NewRow, LifeState, LifeAttempt
  <2> QED
    BY <1>1, <1>2, <1>4, <2>1 DEF Lifecycle!Next, Lifecycle!Create, Lifecycle!Move
<1>5. CASE jobs[j].state = "SCHEDULED" /\ jobs' = CancelJob(j)
  BY <1>3, <1>5 DEF CancelJob, Lifecycle!Next, Lifecycle!Cancel
<1>6. CASE jobs[j].state = "SCHEDULED" /\ jobs' = LeaseJob(j)
  BY <1>3, <1>6 DEF Lifecycle!Next, Lifecycle!Lease
<1>7. CASE jobs[j].state = "LEASED" /\ jobs' = SetState(j, "RUNNING")
  BY <1>3, <1>7 DEF Lifecycle!Next, Lifecycle!Start
<1>8. CASE /\ jobs[j].state = "LEASED"
           /\ jobs' = ScheduleRetry(j, jobs[j].scheduledAt, jobs[j].attempt)
  <2>1. /\ LifeState' = [i \in Job |-> IF i \in {j} THEN "SCHEDULED" ELSE LifeState[i]]
        /\ LifeAttempt' = LifeAttempt
    <3>1. /\ LifeState' = [LifeState EXCEPT ![j] = "SCHEDULED"]
          /\ LifeAttempt' = [LifeAttempt EXCEPT ![j] = LifeAttempt[j]]
      BY <1>1, <1>2, <1>8, LifeScheduleRetry
    <3> QED
      BY <3>1 DEF LifeState, LifeAttempt
  <2>2. Lifecycle!Release({j})
    BY <1>1, <1>2, <1>8, <2>1 DEF Lifecycle!Release, Lifecycle!BackToSchedule
  <2> QED
    BY <2>2 DEF Lifecycle!Next
<1>9. CASE jobs[j].state = "RUNNING" /\ jobs' = SetState(j, "COMPLETED")
  BY <1>3, <1>9 DEF Lifecycle!Next, Lifecycle!Complete
<1>10. CASE /\ jobs[j].state = "RUNNING" /\ ExpiresAt[j] # Null
            /\ jobs' = SetState(j, "EXPIRED")
  BY <1>3, <1>10 DEF Lifecycle!Next, Lifecycle!Expire
<1>11. CASE /\ jobs[j].state = "RUNNING" /\ jobs[j].attempt >= MaxRetries[j]
            /\ jobs' = SetState(j, "DEAD_LETTER")
  BY <1>2, <1>3, <1>11 DEF Lifecycle!Next, Lifecycle!DeadLetter
<1>12. CASE /\ jobs[j].state = "RUNNING" /\ jobs[j].attempt < MaxRetries[j]
            /\ \E at \in Int : jobs' = ScheduleRetry(j, at, jobs[j].attempt + 1)
  <2>1. /\ LifeState' = [LifeState EXCEPT ![j] = "SCHEDULED"]
        /\ LifeAttempt' = [LifeAttempt EXCEPT ![j] = LifeAttempt[j] + 1]
    BY <1>1, <1>2, <1>12, LifeScheduleRetry
  <2>2. Lifecycle!Retry(j)
    BY <1>1, <1>2, <1>12, <2>1 DEF Lifecycle!Retry, Lifecycle!Move
  <2> QED
    BY <2>2 DEF Lifecycle!Next
<1> QED
  BY <1>4, <1>5, <1>6, <1>7, <1>8, <1>9, <1>10, <1>11, <1>12 DEF RowEffect

(* Every step of the daemon is a move of the state machine or a stutter.   *)
LEMMA LifecycleStep ==
  ASSUME LifeInv, [Next]_vars
  PROVE  [Lifecycle!Next]_(Lifecycle!lifeVars)
<1>1. Effect
  BY StepEffect
<1>2. jobs' = jobs => LifeState' = LifeState /\ LifeAttempt' = LifeAttempt
  BY DEF LifeState, LifeAttempt
<1>3. CASE jobs' = jobs /\ Up' = Up
  BY <1>2, <1>3 DEF Lifecycle!lifeVars
<1>4. CASE jobs' = jobs /\ Up /\ ~Up'
  BY <1>2, <1>4 DEF Lifecycle!Next, Lifecycle!Stop
<1>5. ASSUME NEW S \in SUBSET Job,
             jobs' = [j \in Job |-> IF j \in S THEN Reclaimed(jobs[j]) ELSE jobs[j]]
      PROVE  Lifecycle!BackToSchedule(S)
  <2>1. \A j \in Job : /\ Reclaimed(jobs[j]).state = "SCHEDULED"
                       /\ Reclaimed(jobs[j]).attempt = jobs[j].attempt
    BY DEF Reclaimed, LifeInv, OwnerInv, TypeOK, StoreTypeOK, Row
  <2> QED
    BY <1>5, <2>1 DEF Lifecycle!BackToSchedule, LifeState, LifeAttempt
<1>6. CASE ~Up /\ (jobs' = RecoverOnStartup \/ jobs' = jobs)
  <2> DEFINE S == IF jobs' = jobs THEN {} ELSE {j \in Job : Orphaned(jobs[j])}
  <2>1. Lifecycle!BackToSchedule(S)
    <3>1. CASE jobs' = jobs
      BY <1>2, <3>1 DEF Lifecycle!BackToSchedule, LifeState, LifeAttempt
    <3>2. CASE jobs' # jobs
      BY <1>5, <1>6, <3>2 DEF RecoverOnStartup
    <3> QED
      BY <3>1, <3>2
  <2>2. \A j \in S : LifeState[j] \in {"LEASED", "RUNNING"}
    BY DEF Orphaned, LifeState
  <2>3. S \subseteq Job /\ Up' \in BOOLEAN
    BY DEF Up
  <2> HIDE DEF S
  <2> QED
    BY <1>6, <2>1, <2>2, <2>3 DEF Lifecycle!Next, Lifecycle!Recover
<1>7. CASE Up /\ Up' /\ jobs' = ReapExpiredLeases
  <2> DEFINE S == {j \in Job : LeaseExpired(jobs[j])}
  <2>1. Lifecycle!BackToSchedule(S)
    BY <1>5, <1>7 DEF ReapExpiredLeases
  <2>2. \A j \in S : LifeState[j] = "LEASED"
    BY DEF LeaseExpired, LifeState
  <2>3. S \subseteq Job /\ Up' = Up
    BY <1>7 DEF Up
  <2> HIDE DEF S
  <2> QED
    BY <1>7, <2>1, <2>2, <2>3 DEF Lifecycle!Next, Lifecycle!Release
<1>8. CASE Up /\ Up' /\ \E j \in Job : RowEffect(j)
  BY <1>8, LifecycleRow
<1> QED
  BY <1>1, <1>3, <1>4, <1>6, <1>7, <1>8 DEF Effect, Up

LEMMA LifecycleInit == Init => Lifecycle!Init
BY DEF Init, StoreInit, SchedulerInit, NewRow, Up, LifeState, LifeAttempt, Lifecycle!Init

(* The daemon implements the job state machine: one owner per run, every   *)
(* attempt counted once, no retry beyond max_retries, a terminal state for *)
(* good, whatever crashes, failing statements and interleavings occur.     *)
THEOREM DaemonImplementsLifecycle ==
  ASSUME TimelyPickup
  PROVE  Spec => ImplementsLifecycle
<1>1. LifeInv /\ [Next]_vars => LifeInv'
  BY LifeNext
<1>2. LifeInv /\ [Next]_vars => [Lifecycle!Next]_(Lifecycle!lifeVars)
  BY LifecycleStep
<1> QED
  BY <1>1, <1>2, LifeInit, LifecycleInit, PTL DEF Spec, ImplementsLifecycle, Lifecycle!Spec

=============================================================================
