-------------------------- MODULE KronkeeperProofs --------------------------
(***************************************************************************)
(* Machine-checked proofs about the daemon of module Kronkeeper.           *)
(***************************************************************************)
EXTENDS Kronkeeper, TLAPS

-----------------------------------------------------------------------------
(* Every statement of the repository turns a table into a table.           *)
LEMMA StatementTypes ==
  ASSUME jobs \in [Job -> Row], now \in Nat
  PROVE  /\ \A j \in Job : InsertJob(j) \in [Job -> Row]
         /\ \A j \in Job : LeaseJob(j) \in [Job -> Row]
         /\ \A j \in Job, s \in JobState : SetState(j, s) \in [Job -> Row]
         /\ \A j \in Job, at \in Int, n \in Nat :
               ScheduleRetry(j, at, n) \in [Job -> Row]
         /\ ReapExpiredLeases \in [Job -> Row]
         /\ RecoverOnStartup \in [Job -> Row]
         /\ \A j \in Job : CancelJob(j) \in [Job -> Row]
         /\ \A j \in Job : CopyOf(j) \in Copy
<1>1. \A j \in Job : jobs[j] \in Row
  OBVIOUS
<1>2. \A r \in Row : Reclaimed(r) \in Row
  BY DEF Reclaimed, Row, JobState, Terminal
<1>3. \A j \in Job : NewRow(j) \in Row
  BY JobStoreAssumption DEF NewRow, Row, JobState, Terminal
<1>4. \A j \in Job : InsertJob(j) \in [Job -> Row]
  BY <1>3 DEF InsertJob
<1>5. \A j \in Job : LeaseJob(j) \in [Job -> Row]
  <2>1. now + LeaseDuration \in Int
    BY JobStoreAssumption
  <2>2. \A r \in Row, t \in Int :
           [r EXCEPT !.state = "LEASED", !.leasedUntil = t] \in Row
    BY DEF Row, JobState, Terminal
  <2> QED
    BY <1>1, <2>1, <2>2 DEF LeaseJob
<1>6. \A j \in Job, s \in JobState : SetState(j, s) \in [Job -> Row]
  BY <1>1 DEF SetState, Row
<1>7. \A j \in Job, at \in Int, n \in Nat : ScheduleRetry(j, at, n) \in [Job -> Row]
  BY DEF ScheduleRetry, Row, JobState, Terminal
<1>8. ReapExpiredLeases \in [Job -> Row]
  BY <1>1, <1>2 DEF ReapExpiredLeases
<1>9. RecoverOnStartup \in [Job -> Row]
  BY <1>1, <1>2 DEF RecoverOnStartup
<1>10. \A j \in Job : CancelJob(j) \in [Job -> Row]
  BY <1>6 DEF CancelJob, JobState, Terminal
<1>11. \A j \in Job : CopyOf(j) \in Copy
  BY <1>1 DEF CopyOf, Copy, Row
<1> QED
  BY <1>4, <1>5, <1>6, <1>7, <1>8, <1>9, <1>10, <1>11

-----------------------------------------------------------------------------
(* Type correctness.                                                       *)
LEMMA TypeInit == Init => TypeOK
<1> SUFFICES ASSUME Init PROVE TypeOK
  OBVIOUS
<1>1. \A j \in Job : [NewRow(j) EXCEPT !.state = "ABSENT"] \in Row
  BY JobStoreAssumption DEF NewRow, Row, JobState, Terminal
<1>2. StoreTypeOK
  BY <1>1, KronkeeperAssumption DEF Init, StoreInit, StoreTypeOK
<1>3. PoolTypeOK
  BY WorkerPoolAssumption DEF Init, PoolInit, PoolTypeOK, WorkerPc
<1>4. SchedulerTypeOK
  BY DEF Init, SchedulerInit, SchedulerTypeOK, SchedulerPc
<1> QED
  BY <1>2, <1>3, <1>4 DEF Init, TypeOK, WakeupInit, ReaperInit, ApiInit

(* How the worker's ends of a step keep its types.                         *)
LEMMA GoToTypes ==
  ASSUME PoolTypeOK, NEW w \in Worker, NEW pc \in WorkerPc,
         held[w] \in Copy, GoTo(w, pc), UNCHANGED queue
  PROVE  PoolTypeOK'
BY DEF PoolTypeOK, GoTo

LEMMA NextTurnTypes ==
  ASSUME PoolTypeOK, NEW w \in Worker, NextTurn(w), UNCHANGED queue
  PROVE  PoolTypeOK'
BY DEF PoolTypeOK, NextTurn, WorkerPc

LEMMA WorkerTypes ==
  ASSUME StoreTypeOK, PoolTypeOK, permit \in BOOLEAN,
         NEW w \in Worker, WorkerStep(w)
  PROVE  StoreTypeOK' /\ PoolTypeOK' /\ permit' \in BOOLEAN
<1>1. /\ \A j \in Job, s \in JobState : SetState(j, s) \in [Job -> Row]
      /\ \A j \in Job, at \in Int, n \in Nat :
            ScheduleRetry(j, at, n) \in [Job -> Row]
  BY StatementTypes DEF StoreTypeOK
<1>2. wpc[w] \notin {"recv", "gone"} =>
        held[w] \in Copy /\ held[w].id \in Job /\ held[w].attempt + 1 \in Nat
  BY DEF PoolTypeOK, Copy
<1>3. {"exec", "complete", "expire", "deadletter", "retry", "notify", "emit"}
        \subseteq WorkerPc
  BY DEF WorkerPc, Started, Storing
<1>4. {"RUNNING", "COMPLETED", "EXPIRED", "DEAD_LETTER"} \subseteq JobState
  BY DEF JobState, Terminal
<1>5. CASE Receive(w)
  <2>1. Head(queue) \in Copy /\ Tail(queue) \in Seq(Copy)
        /\ Len(Tail(queue)) <= QueueSize
    BY <1>5, WorkerPoolAssumption DEF Receive, PoolTypeOK
  <2> QED
    BY <1>5, <2>1 DEF Receive, StoreTypeOK, PoolTypeOK, storeVars, WorkerPc
<1>6. CASE SetRunning(w)
  <2>1. StoreTypeOK'
    BY <1>1, <1>2, <1>4, <1>6 DEF SetRunning, DbCall, StoreTypeOK
  <2>2. GoTo(w, "exec") \/ NextTurn(w)
    BY <1>6 DEF SetRunning, DbCall
  <2> QED
    BY <1>2, <1>3, <1>6, <2>1, <2>2, GoToTypes, NextTurnTypes DEF SetRunning
<1>7. CASE ExecuteOk(w)
  BY <1>2, <1>3, <1>7, GoToTypes DEF ExecuteOk, StoreTypeOK, storeVars
<1>8. CASE ExecuteFailed(w)
  <2> DEFINE n == held[w].attempt + 1
  <2>1. StoreTypeOK' /\ permit' \in BOOLEAN
    BY <1>8 DEF ExecuteFailed, StoreTypeOK, storeVars
  <2>2. CASE GoTo(w, "expire") \/ GoTo(w, "deadletter")
    BY <1>2, <1>3, <1>8, <2>1, <2>2, GoToTypes DEF ExecuteFailed
  <2>3. CASE /\ ~RetriesExhausted(held[w])
             /\ wpc' = [wpc EXCEPT ![w] = "retry"]
             /\ retryAt' = [retryAt EXCEPT ![w] = now + RetryDelay[held[w].id][n]]
             /\ UNCHANGED <<held, told>>
    <3>1. held[w].id \in Job /\ n \in 1..MaxRetries[held[w].id]
      BY <1>2, <1>8, <2>3, JobStoreAssumption
      DEF ExecuteFailed, RetriesExhausted, PoolTypeOK, Copy
    <3>2. now + RetryDelay[held[w].id][n] \in Int
      BY <3>1, WorkerPoolAssumption DEF StoreTypeOK
    <3>3. held[w] \in Copy
      BY <1>2, <1>8 DEF ExecuteFailed
    <3> HIDE DEF n
    <3> QED
      BY <1>3, <1>8, <2>1, <2>3, <3>2, <3>3 DEF ExecuteFailed, PoolTypeOK
  <2> QED
    BY <1>8, <2>2, <2>3 DEF ExecuteFailed
<1>9. CASE ExecutePanics(w) \/ Exit(w)
  <2>1. queue' \in Seq(Copy) /\ Len(queue') <= QueueSize
    <3>1. <<>> \in Seq(Copy) /\ Len(<<>>) <= QueueSize
      BY WorkerPoolAssumption
    <3>2. queue' = <<>> \/ queue' = queue
      BY <1>9 DEF ExecutePanics, Exit, QueueWithout
    <3> QED
      BY <3>1, <3>2 DEF PoolTypeOK
  <2>2. StoreTypeOK' /\ permit' \in BOOLEAN
    BY <1>9 DEF ExecutePanics, Exit, StoreTypeOK, storeVars
  <2>3. wpc' = [wpc EXCEPT ![w] = "gone"] /\ retryAt' = retryAt
        /\ told' \subseteq told
        /\ (held' = held \/ held' = [held EXCEPT ![w] = Null])
    BY <1>9 DEF ExecutePanics, Exit
  <2>4. "gone" \in WorkerPc
    BY DEF WorkerPc
  <2>5. /\ wpc' \in [Worker -> WorkerPc]
        /\ held' \in [Worker -> Copy \cup {Null}]
        /\ retryAt' \in [Worker -> Int]
        /\ told' \subseteq Worker
    BY <2>3, <2>4 DEF PoolTypeOK
  <2>6. \A v \in Worker : wpc'[v] \notin {"recv", "gone"} => held'[v] \in Copy
    BY <2>3 DEF PoolTypeOK
  <2> QED
    BY <2>1, <2>2, <2>5, <2>6 DEF PoolTypeOK
<1>10. ASSUME NEW pc, NEW s \in JobState, pc \notin {"recv", "gone"},
              StoreTerminal(w, pc, s)
       PROVE  StoreTypeOK' /\ PoolTypeOK' /\ permit' \in BOOLEAN
  <2>1. StoreTypeOK'
    BY <1>1, <1>2, <1>10 DEF StoreTerminal, DbCall, StoreTypeOK
  <2>2. GoTo(w, "emit") \/ NextTurn(w)
    BY <1>10 DEF StoreTerminal, DbCall
  <2> QED
    BY <1>2, <1>3, <1>10, <2>1, <2>2, GoToTypes, NextTurnTypes DEF StoreTerminal
<1>11. CASE StoreCompleted(w) \/ StoreExpired(w) \/ StoreDeadLetter(w)
  BY <1>4, <1>10, <1>11 DEF StoreCompleted, StoreExpired, StoreDeadLetter
<1>12. CASE StoreRetry(w)
  <2>1. retryAt[w] \in Int
    BY DEF PoolTypeOK
  <2>2. StoreTypeOK'
    BY <1>1, <1>2, <1>12, <2>1 DEF StoreRetry, DbCall, StoreTypeOK
  <2>3. GoTo(w, "notify") \/ NextTurn(w)
    BY <1>12 DEF StoreRetry, DbCall
  <2> QED
    BY <1>2, <1>3, <1>12, <2>2, <2>3, GoToTypes, NextTurnTypes DEF StoreRetry
<1>13. CASE NotifyRetry(w)
  BY <1>13, NextTurnTypes DEF NotifyRetry, NotifyOne, StoreTypeOK, storeVars
<1>14. CASE EmitWebhook(w)
  BY <1>14, NextTurnTypes DEF EmitWebhook, DbCall, StoreTypeOK
<1> QED
  BY <1>5, <1>6, <1>7, <1>8, <1>9, <1>11, <1>12, <1>13, <1>14 DEF WorkerStep

LEMMA SchedulerTypes ==
  ASSUME StoreTypeOK, PoolTypeOK, SchedulerTypeOK, permit \in BOOLEAN,
         SchedulerStep
  PROVE  StoreTypeOK' /\ PoolTypeOK' /\ SchedulerTypeOK' /\ permit' \in BOOLEAN
<1>1. SchedulerPc = {"down", "refresh", "select", "dispatch", "send", "giveback",
                     "renotify"}
  BY DEF SchedulerPc
<1>2. PoolTypeOK'
  <2>1. CASE SendOk
    <3>1. Append(queue, hand) \in Seq(Copy) /\ Len(Append(queue, hand)) <= QueueSize
      BY <2>1, WorkerPoolAssumption DEF SendOk, PoolTypeOK, SchedulerTypeOK
    <3> QED
      BY <2>1, <3>1 DEF SendOk, PoolTypeOK, workerVars
  <2>2. CASE UNCHANGED <<queue, workerVars>>
    BY <2>2 DEF PoolTypeOK, workerVars
  <2> QED
    BY <2>1, <2>2
    DEF SchedulerStep, RefreshHeap, WakeUp, Deadline, DispatchDone, Lease,
        SendFull, SendClosed, GiveBack, Renotify
<1>3. CASE RefreshHeap
  <2>1. \A S \in SUBSET ScheduledJobs :
          {[id |-> j, at |-> jobs[j].scheduledAt] : j \in S} \subseteq ScheduledJob
    BY DEF ScheduledJobs, ScheduledJob, StoreTypeOK, Row
  <2> QED
    BY <1>1, <1>2, <1>3, <2>1
    DEF RefreshHeap, ToSelect, StoreTypeOK, SchedulerTypeOK
<1>4. CASE WakeUp
  BY <1>1, <1>2, <1>4 DEF WakeUp, Notified, StoreTypeOK, SchedulerTypeOK, storeVars
<1>5. CASE Deadline
  BY <1>1, <1>2, <1>5 DEF Deadline, StoreTypeOK, SchedulerTypeOK, storeVars
<1>6. CASE DispatchDone
  BY <1>1, <1>2, <1>6 DEF DispatchDone, ToSelect, StoreTypeOK, SchedulerTypeOK, storeVars
<1>7. CASE Lease
  <2>1. PICK e \in Earliest :
          /\ heap' = heap \ {e}
          /\ \/ DbCall(LeaseJob(e.id),
                       spc' = "send" /\ hand' = CopyOf(e.id) /\ UNCHANGED dnow,
                       ToSelect)
             \/ DbCall(jobs, UNCHANGED <<spc, hand, dnow>>, ToSelect)
    BY <1>7 DEF Lease
  <2>2. e.id \in Job
    BY DEF Earliest, SchedulerTypeOK, ScheduledJob
  <2>3. LeaseJob(e.id) \in [Job -> Row] /\ CopyOf(e.id) \in Copy
    BY <2>2, StatementTypes DEF StoreTypeOK
  <2>4. StoreTypeOK'
    BY <1>7, <2>1, <2>3 DEF Lease, DbCall, StoreTypeOK
  <2>5. SchedulerTypeOK'
    BY <1>1, <2>1, <2>3 DEF DbCall, ToSelect, SchedulerTypeOK
  <2> QED
    BY <1>2, <1>7, <2>4, <2>5 DEF Lease
<1>8. CASE SendOk
  BY <1>1, <1>2, <1>8 DEF SendOk, StoreTypeOK, SchedulerTypeOK, storeVars
<1>9. CASE SendFull
  BY <1>1, <1>2, <1>9 DEF SendFull, StoreTypeOK, SchedulerTypeOK, storeVars
<1>10. CASE SendClosed
  BY <1>1, <1>2, <1>10 DEF SendClosed, ToSelect, StoreTypeOK, SchedulerTypeOK, storeVars
<1>11. CASE GiveBack
  <2>1. ScheduleRetry(hand.id, hand.scheduledAt, hand.attempt) \in [Job -> Row]
    BY <1>11, StatementTypes DEF GiveBack, StoreTypeOK, SchedulerTypeOK, Copy
  <2>2. StoreTypeOK'
    BY <1>11, <2>1 DEF GiveBack, DbCall, StoreTypeOK
  <2>3. SchedulerTypeOK'
    BY <1>1, <1>11 DEF GiveBack, DbCall, ToSelect, SchedulerTypeOK
  <2> QED
    BY <1>2, <1>11, <2>2, <2>3 DEF GiveBack
<1>12. CASE Renotify
  BY <1>1, <1>2, <1>12 DEF Renotify, NotifyOne, ToSelect, StoreTypeOK, SchedulerTypeOK, storeVars
<1> QED
  BY <1>3, <1>4, <1>5, <1>6, <1>7, <1>8, <1>9, <1>10, <1>11, <1>12 DEF SchedulerStep

LEMMA ReaperTypes ==
  ASSUME StoreTypeOK, permit \in BOOLEAN, rpc \in {"tick", "notify"}, ReaperStep
  PROVE  StoreTypeOK' /\ permit' \in BOOLEAN /\ rpc' \in {"tick", "notify"}
<1>1. ReapExpiredLeases \in [Job -> Row]
  BY StatementTypes DEF StoreTypeOK
<1>2. CASE ReapPass
  BY <1>1, <1>2 DEF ReapPass, DbCall, StoreTypeOK
<1>3. CASE ReapNotify
  BY <1>3 DEF ReapNotify, NotifyOne, StoreTypeOK, storeVars
<1> QED
  BY <1>2, <1>3 DEF ReaperStep

LEMMA ApiTypes ==
  ASSUME StoreTypeOK, permit \in BOOLEAN, owed \subseteq Request, ApiStep
  PROVE  StoreTypeOK' /\ permit' \in BOOLEAN /\ owed' \subseteq Request
<1>1. \A j \in Job : InsertJob(j) \in [Job -> Row] /\ CancelJob(j) \in [Job -> Row]
  BY StatementTypes DEF StoreTypeOK
<1>2. ASSUME NEW j \in Job, CreateJob(j) \/ CancelScheduled(j)
      PROVE  StoreTypeOK' /\ permit' \in BOOLEAN /\ owed' \subseteq Request
  BY <1>1, <1>2 DEF CreateJob, CancelScheduled, StoreTypeOK, Request
<1>3. ASSUME NEW r \in owed, RequestNotify(r) \/ RequestDropped(r)
      PROVE  StoreTypeOK' /\ permit' \in BOOLEAN /\ owed' \subseteq Request
  <2>1. CASE RequestNotify(r)
    BY <2>1 DEF RequestNotify, NotifyOne, StoreTypeOK, storeVars
  <2>2. CASE RequestDropped(r)
    BY <2>2 DEF RequestDropped, StoreTypeOK
  <2> QED
    BY <1>3, <2>1, <2>2
<1> QED
  BY <1>2, <1>3 DEF ApiStep

LEMMA TypeNext ==
  ASSUME TypeOK, [Next]_vars
  PROVE  TypeOK'
<1>1. CASE Boot
  <2>1. RecoverOnStartup \in [Job -> Row]
    BY StatementTypes DEF TypeOK, StoreTypeOK
  <2>2. StoreTypeOK'
    BY <1>1, <2>1 DEF Boot, DbCall, TypeOK, StoreTypeOK
  <2>3. SchedulerTypeOK'
    BY <1>1 DEF Boot, Up, DbCall, TypeOK, SchedulerTypeOK, SchedulerPc
  <2>4. PoolTypeOK'
    BY <1>1 DEF Boot, TypeOK, PoolTypeOK, workerVars
  <2> QED
    BY <1>1, <2>2, <2>3, <2>4 DEF Boot, TypeOK
<1>2. CASE Crash
  <2>1. PoolTypeOK'
    BY <1>2, WorkerPoolAssumption DEF Crash, PoolTypeOK, WorkerPc
  <2>2. SchedulerTypeOK'
    BY <1>2 DEF Crash, SchedulerTypeOK, SchedulerPc
  <2>3. StoreTypeOK'
    BY <1>2 DEF Crash, TypeOK, StoreTypeOK, storeVars
  <2>4. permit' \in BOOLEAN /\ rpc' \in {"tick", "notify"} /\ owed' \subseteq Request
    BY <1>2 DEF Crash
  <2>5. crashes' \in Nat
    BY <1>2 DEF Crash, TypeOK
  <2> QED
    BY <2>1, <2>2, <2>3, <2>4, <2>5 DEF TypeOK
<1>3. CASE Tick
  BY <1>3 DEF Tick, TypeOK, StoreTypeOK, PoolTypeOK, SchedulerTypeOK, workerVars, schedVars
<1>4. CASE Schedule
  BY <1>4, SchedulerTypes DEF Schedule, TypeOK
<1>5. ASSUME NEW w \in Worker, Work(w) PROVE TypeOK'
  BY <1>5, WorkerTypes DEF Work, TypeOK, SchedulerTypeOK, schedVars
<1>6. CASE Reap
  BY <1>6, ReaperTypes DEF Reap, TypeOK, PoolTypeOK, SchedulerTypeOK, workerVars, schedVars
<1>7. CASE Serve
  BY <1>7, ApiTypes DEF Serve, TypeOK, PoolTypeOK, SchedulerTypeOK, workerVars, schedVars
<1>8. CASE StopWorkers
  BY <1>8 DEF StopWorkers, NotifyWaiters, TypeOK, StoreTypeOK, PoolTypeOK, SchedulerTypeOK,
              storeVars, schedVars
<1>9. CASE UNCHANGED vars
  BY <1>9 DEF vars, TypeOK, StoreTypeOK, PoolTypeOK, SchedulerTypeOK, storeVars,
              workerVars, schedVars
<1> QED
  BY <1>1, <1>2, <1>3, <1>4, <1>5, <1>6, <1>7, <1>8, <1>9 DEF Next

(* In every reachable state, for any jobs, workers, queue size and bounds, *)
(* every variable has its type and the worker queue keeps to its bound.    *)
THEOREM TypeCorrect == Spec => []TypeOK
<1>1. Init => TypeOK
  BY TypeInit
<1>2. TypeOK /\ [Next]_vars => TypeOK'
  BY TypeNext
<1> QED
  BY <1>1, <1>2, PTL DEF Spec

-----------------------------------------------------------------------------
(* What holds whether or not leases outlast the wait for a worker: several *)
(* copies of a job may be about, each as old as its lease.                 *)
Budget == faults <= MaxFaults

(* Failures use the budget up.                                             *)
LEMMA FaultsFall ==
  ASSUME TypeOK, [Next]_vars
  PROVE  faults \in Nat /\ faults' \in Nat /\ faults' <= faults
<1>1. faults \in Nat
  BY DEF TypeOK, StoreTypeOK
<1>2. faults' = faults \/ (faults > 0 /\ faults' = faults - 1)
  BY DEF Next, Boot, Crash, StopWorkers, NotifyWaiters, Tick, Schedule, SchedulerStep, RefreshHeap, WakeUp,
         Deadline, DispatchDone, Lease, DbCall, SendOk, SendFull, SendClosed, GiveBack,
         Renotify, Work, WorkerStep, Receive, SetRunning, ExecuteOk, ExecuteFailed,
         ExecutePanics, Exit, StoreCompleted, StoreExpired, StoreDeadLetter, StoreTerminal,
         StoreRetry, NotifyRetry, EmitWebhook, Reap, ReaperStep, ReapPass, ReapNotify,
         Serve, ApiStep, CreateJob, CancelScheduled, RequestNotify, RequestDropped, vars,
         storeVars
<1> QED
  BY <1>1, <1>2

(* A failure is not forgotten.                                             *)
LEMMA CalmBefore ==
  ASSUME TypeOK, Budget, [Next]_vars, NothingFailed'
  PROVE  NothingFailed /\ faults' = faults
<1>1. faults <= MaxFaults /\ faults' = MaxFaults /\ MaxFaults \in Nat
  BY KronkeeperAssumption DEF Budget, NothingFailed
<1>2. faults' \in Nat /\ faults \in Nat /\ faults' <= faults
  BY FaultsFall
<1> QED
  BY <1>1, <1>2 DEF NothingFailed

LEMMA BudgetNext == ASSUME TypeOK, Budget, [Next]_vars PROVE Budget'
BY FaultsFall, KronkeeperAssumption DEF Budget

RunInv == TypeOK /\ Budget /\ RunsHaveWorkers

(* A worker's step without a failure: a row that is RUNNING after it was   *)
(* so before, or has just been given to this worker; and the worker lets   *)
(* go of a run only when it overwrites the row.                            *)
LEMMA RunsWork ==
  ASSUME TypeOK, faults' = faults, NEW w \in Worker, Work(w), NEW j \in Job,
         jobs'[j].state = "RUNNING",
         jobs[j].state = "RUNNING" => \E v \in Worker : Executing(v, j)
  PROVE  \E v \in Worker : Executing(v, j)'
<1>1. /\ jobs \in [Job -> Row] /\ wpc \in [Worker -> WorkerPc]
      /\ faults \in Nat
      /\ wpc[w] \notin {"recv", "gone"} => held[w].id \in Job
      /\ held \in [Worker -> Copy \cup {Null}]
  BY DEF TypeOK, PoolTypeOK, StoreTypeOK, Copy
<1>2. \A v \in Worker \ {w} : wpc'[v] = wpc[v] /\ held'[v] = held[v]
  BY <1>1
  DEF Work, WorkerStep, Receive, SetRunning, ExecuteOk, ExecuteFailed, ExecutePanics, Exit,
      StoreCompleted, StoreExpired, StoreDeadLetter, StoreTerminal, StoreRetry,
      NotifyRetry, EmitWebhook, DbCall, GoTo, NextTurn
<1>3. ASSUME jobs[j].state = "RUNNING", Executing(w, j) => Executing(w, j)'
      PROVE  \E v \in Worker : Executing(v, j)'
  BY <1>2, <1>3 DEF Executing
<1>4. CASE SetRunning(w)
  <2>1. jobs' = SetState(held[w].id, "RUNNING") /\ GoTo(w, "exec")
    BY <1>1, <1>4 DEF SetRunning, DbCall
  <2>2. CASE j = held[w].id
    <3>1. wpc'[w] = "exec" /\ held'[w] = held[w]
      BY <1>1, <2>1 DEF GoTo
    <3> QED
      BY <2>2, <3>1 DEF Executing, Started
  <2>3. CASE j # held[w].id
    BY <1>1, <1>3, <1>4, <2>1, <2>3 DEF SetState, Executing, SetRunning, Started, Storing
  <2> QED
    BY <2>2, <2>3
<1>5. CASE ExecuteOk(w) \/ ExecuteFailed(w)
  <2>1. jobs' = jobs /\ held' = held /\ wpc'[w] \in Started
    BY <1>1, <1>5 DEF ExecuteOk, ExecuteFailed, GoTo, storeVars, Started, Storing
  <2> QED
    BY <1>3, <2>1 DEF Executing
<1>6. CASE Receive(w) \/ Exit(w) \/ NotifyRetry(w) \/ EmitWebhook(w)
  <2>1. jobs' = jobs /\ wpc[w] \notin Started
    BY <1>6 DEF Receive, Exit, NotifyRetry, EmitWebhook, DbCall, storeVars, Started, Storing
  <2> QED
    BY <1>3, <2>1 DEF Executing
<1>7. ASSUME NEW t, t.state # "RUNNING",
             jobs' = [jobs EXCEPT ![held[w].id] = t], wpc[w] \in Storing
      PROVE  \E v \in Worker : Executing(v, j)'
  <2>1. held[w].id \in Job
    BY <1>1, <1>7 DEF Storing
  <2>2. j # held[w].id /\ jobs'[j] = jobs[j]
    BY <1>1, <1>7, <2>1
  <2> QED
    BY <1>3, <2>2 DEF Executing
<1>8. CASE StoreCompleted(w) \/ StoreExpired(w) \/ StoreDeadLetter(w)
  <2>1. PICK s \in {"COMPLETED", "EXPIRED", "DEAD_LETTER"} :
          jobs' = SetState(held[w].id, s) /\ wpc[w] \in Storing
    BY <1>1, <1>8
    DEF StoreCompleted, StoreExpired, StoreDeadLetter, StoreTerminal, DbCall, Storing
  <2>2. [jobs[held[w].id] EXCEPT !.state = s].state = s
    BY <1>1, <2>1 DEF Row, Storing
  <2>3. jobs' = [jobs EXCEPT ![held[w].id] = [jobs[held[w].id] EXCEPT !.state = s]]
    BY <2>1 DEF SetState
  <2> QED
    BY <1>7, <2>1, <2>2, <2>3
<1>9. CASE StoreRetry(w)
  <2>1. /\ wpc[w] \in Storing
        /\ jobs' = ScheduleRetry(held[w].id, retryAt[w], held[w].attempt + 1)
    BY <1>1, <1>9 DEF StoreRetry, DbCall, Storing
  <2> DEFINE t == [state |-> "SCHEDULED", scheduledAt |-> retryAt[w],
                   leasedUntil |-> Null, attempt |-> held[w].attempt + 1]
  <2>2. jobs' = [jobs EXCEPT ![held[w].id] = t] /\ t.state # "RUNNING"
    BY <2>1 DEF ScheduleRetry
  <2> HIDE DEF t
  <2> QED
    BY <1>7, <2>1, <2>2
<1>10. ~ExecutePanics(w)
  BY <1>1 DEF ExecutePanics
<1> QED
  BY <1>4, <1>5, <1>6, <1>8, <1>9, <1>10 DEF Work, WorkerStep

LEMMA RunsNext == ASSUME RunInv, [Next]_vars PROVE RunsHaveWorkers'
<1> SUFFICES ASSUME NothingFailed', crashes' = 0, NEW j \in Job,
                    jobs'[j].state = "RUNNING"
             PROVE  \E w \in Worker : Executing(w, j)'
  BY DEF RunsHaveWorkers
<1>1. NothingFailed /\ faults' = faults
  BY CalmBefore DEF RunInv
<1>2. crashes \in Nat /\ jobs \in [Job -> Row]
  BY DEF RunInv, TypeOK, StoreTypeOK
<1>3. ~Crash
  BY <1>2 DEF Crash
<1>4. crashes' = crashes
  BY <1>3 DEF Next, Boot, StopWorkers, Tick, Schedule, Work, Reap, Serve, vars
<1>5. jobs[j].state = "RUNNING" => \E w \in Worker : Executing(w, j)
  BY <1>1, <1>4 DEF RunInv, RunsHaveWorkers
<1>6. ASSUME NEW w \in Worker, Work(w) PROVE \E v \in Worker : Executing(v, j)'
  BY <1>1, <1>5, <1>6, RunsWork DEF RunInv
<1>7. CASE ~ \E w \in Worker : Work(w)
  <2>1. UNCHANGED <<wpc, held>>
    BY <1>3, <1>7
    DEF Next, Boot, StopWorkers, NotifyWaiters, Tick, Schedule, SchedulerStep, RefreshHeap,
        WakeUp, Deadline, DispatchDone, Lease, SendOk, SendFull, SendClosed, GiveBack,
        Renotify, Reap, Serve, vars, workerVars
  <2>2. jobs[j].state = "RUNNING"
    <3>1. CASE Boot
      BY <1>2, <3>1 DEF Boot, DbCall, RecoverOnStartup, Reclaimed, Row
    <3>2. CASE StopWorkers \/ Tick \/ UNCHANGED vars
      BY <3>2 DEF StopWorkers, NotifyWaiters, Tick, vars, storeVars
    <3>3. CASE Schedule
      <4>1. ASSUME NEW i, jobs' = LeaseJob(i) PROVE jobs[j].state = "RUNNING"
        BY <1>2, <4>1 DEF LeaseJob, Row
      <4>2. ASSUME NEW i, NEW at, NEW n, jobs' = ScheduleRetry(i, at, n)
            PROVE  jobs[j].state = "RUNNING"
        BY <1>2, <4>2 DEF ScheduleRetry, Row
      <4> QED
        BY <3>3, <4>1, <4>2
        DEF Schedule, SchedulerStep, RefreshHeap, WakeUp, Deadline, DispatchDone, Lease,
            DbCall, SendOk, SendFull, SendClosed, GiveBack, Renotify, storeVars
    <3>4. CASE Reap
      BY <1>2, <3>4 DEF Reap, ReaperStep, ReapPass, ReapNotify, DbCall, ReapExpiredLeases,
                        Reclaimed, storeVars, Row
    <3>5. CASE Serve
      <4>1. ASSUME NEW i \in Job, CreateJob(i) \/ CancelScheduled(i)
            PROVE  jobs[j].state = "RUNNING"
        BY <1>2, <4>1 DEF CreateJob, CancelScheduled, InsertJob, NewRow, CancelJob,
                          SetState, Row
      <4> QED
        BY <3>5, <4>1 DEF Serve, ApiStep, RequestNotify, RequestDropped, storeVars
    <3> QED
      BY <1>3, <1>7, <3>1, <3>2, <3>3, <3>4, <3>5 DEF Next
  <2> QED
    BY <1>5, <2>1, <2>2 DEF Executing
<1> QED
  BY <1>6, <1>7

(* Until something fails, every RUNNING row has a worker, however many     *)
(* leases ended in the queue.                                              *)
THEOREM FailuresAloneOrphan == Spec => []RunsHaveWorkers
<1>1. Init => RunInv
  BY TypeInit, KronkeeperAssumption
  DEF Init, StoreInit, NewRow, RunInv, Budget, RunsHaveWorkers
<1>2. RunInv /\ [Next]_vars => RunInv'
  BY TypeNext, BudgetNext, RunsNext DEF RunInv
<1>3. RunInv => RunsHaveWorkers
  BY DEF RunInv
<1> QED
  BY <1>1, <1>2, <1>3, PTL DEF Spec

-----------------------------------------------------------------------------
(* The attempt counter: what the rows say, so do the copies.               *)
Allowed(j, n) == n > 0 => n <= MaxRetries[j]

CopiesAllowed ==
  /\ HandFull => Allowed(hand.id, hand.attempt)
  /\ \A i \in 1..Len(queue) : Allowed(queue[i].id, queue[i].attempt)
  /\ \A w \in Worker : wpc[w] \notin {"recv", "gone"} => Allowed(held[w].id, held[w].attempt)
  /\ \A w \in Worker : wpc[w] = "retry" => Allowed(held[w].id, held[w].attempt + 1)

AttemptInv == TypeOK /\ AttemptsBounded /\ CopiesAllowed

(* The statements keep the counter, or set it to what a copy allows.       *)
LEMMA AllowedStatements ==
  ASSUME TypeOK, AttemptsBounded, NEW t,
         \/ t = jobs \/ t = ReapExpiredLeases \/ t = RecoverOnStartup
         \/ \E j \in Job : t = InsertJob(j) \/ t = LeaseJob(j)
         \/ \E j \in Job, s \in JobState : t = SetState(j, s)
         \/ \E j \in Job, at \in Int, n \in Nat : Allowed(j, n) /\ t = ScheduleRetry(j, at, n),
         jobs' = t
  PROVE  AttemptsBounded'
<1>1. jobs \in [Job -> Row]
  BY DEF TypeOK, StoreTypeOK
<1> SUFFICES ASSUME NEW j \in Job
             PROVE  jobs'[j].attempt > 0 => jobs'[j].attempt <= MaxRetries[j]
  BY DEF AttemptsBounded
<1>2. jobs[j].attempt > 0 => jobs[j].attempt <= MaxRetries[j]
  BY DEF AttemptsBounded
<1>3. CASE t = ReapExpiredLeases \/ t = RecoverOnStartup
  <2>1. jobs'[j] = jobs[j] \/ jobs'[j] = Reclaimed(jobs[j])
    BY <1>3 DEF ReapExpiredLeases, RecoverOnStartup
  <2>2. Reclaimed(jobs[j]).attempt = jobs[j].attempt
    BY <1>1 DEF Reclaimed, Row
  <2> QED
    BY <1>2, <2>1, <2>2
<1>4. ASSUME NEW i \in Job, t = InsertJob(i) \/ t = LeaseJob(i)
      PROVE  jobs'[j].attempt = 0 \/ jobs'[j].attempt = jobs[j].attempt
  <2>1. CASE t = InsertJob(i)
    <3>1. jobs'[j] = jobs[j] \/ jobs'[j] = NewRow(j)
      BY <1>1, <2>1 DEF InsertJob
    <3> QED
      BY <3>1 DEF NewRow
  <2>2. CASE t = LeaseJob(i)
    <3>1. j # i => jobs'[j] = jobs[j]
      BY <1>1, <2>2 DEF LeaseJob
    <3>2. j = i => jobs'[j].attempt = jobs[j].attempt
      BY <1>1, <2>2 DEF LeaseJob, Row
    <3> QED
      BY <3>1, <3>2
  <2> QED
    BY <1>4, <2>1, <2>2
<1>5. ASSUME NEW i \in Job, NEW s \in JobState, t = SetState(i, s)
      PROVE  jobs'[j].attempt = jobs[j].attempt
  BY <1>1, <1>5 DEF SetState, Row
<1>6. ASSUME NEW i \in Job, NEW at \in Int, NEW n \in Nat, Allowed(i, n),
             t = ScheduleRetry(i, at, n)
      PROVE  jobs'[j].attempt > 0 => jobs'[j].attempt <= MaxRetries[j]
  BY <1>1, <1>2, <1>6 DEF ScheduleRetry, Allowed
<1> QED
  BY <1>2, <1>3, <1>4, <1>5, <1>6

LEMMA AttemptsWork ==
  ASSUME AttemptInv, NEW w \in Worker, Work(w)
  PROVE  AttemptsBounded' /\ CopiesAllowed'
<1>1. /\ jobs \in [Job -> Row] /\ wpc \in [Worker -> WorkerPc]
      /\ held \in [Worker -> Copy \cup {Null}] /\ queue \in Seq(Copy)
      /\ wpc[w] \notin {"recv", "gone"} =>
           /\ held[w].id \in Job
           /\ held[w].attempt \in Nat /\ held[w].attempt + 1 \in Nat
           /\ MaxRetries[held[w].id] \in Int
      /\ retryAt \in [Worker -> Int]
  BY JobStoreAssumption DEF AttemptInv, TypeOK, PoolTypeOK, StoreTypeOK, Copy
<1>2. \A v \in Worker \ {w} : wpc'[v] = wpc[v] /\ held'[v] = held[v]
  BY <1>1
  DEF Work, WorkerStep, Receive, SetRunning, ExecuteOk, ExecuteFailed, ExecutePanics, Exit,
      StoreCompleted, StoreExpired, StoreDeadLetter, StoreTerminal, StoreRetry,
      NotifyRetry, EmitWebhook, DbCall, GoTo, NextTurn
<1>3. AttemptsBounded'
  <2>1. CASE StoreRetry(w)
    <3>1. /\ jobs' \in {jobs, ScheduleRetry(held[w].id, retryAt[w], held[w].attempt + 1)}
          /\ wpc[w] = "retry"
      BY <2>1 DEF StoreRetry, DbCall
    <3>2. Allowed(held[w].id, held[w].attempt + 1)
      BY <3>1 DEF AttemptInv, CopiesAllowed
    <3> QED
      BY <1>1, <3>1, <3>2, AllowedStatements DEF AttemptInv
  <2>2. CASE ~StoreRetry(w)
    <3>1. \/ jobs' = jobs
          \/ /\ wpc[w] \notin {"recv", "gone"}
             /\ \E s \in {"RUNNING", "COMPLETED", "EXPIRED", "DEAD_LETTER"} :
                  jobs' = SetState(held[w].id, s)
      BY <2>2
      DEF Work, WorkerStep, Receive, SetRunning, ExecuteOk, ExecuteFailed, ExecutePanics,
          Exit, StoreCompleted, StoreExpired, StoreDeadLetter, StoreTerminal, NotifyRetry,
          EmitWebhook, DbCall, storeVars
    <3>2. {"RUNNING", "COMPLETED", "EXPIRED", "DEAD_LETTER"} \subseteq JobState
      BY DEF JobState, Terminal
    <3> QED
      BY <1>1, <3>1, <3>2, AllowedStatements DEF AttemptInv
  <2> QED
    BY <2>1, <2>2
<1>4. HandFull' => Allowed(hand.id, hand.attempt)'
  BY DEF Work, schedVars, HandFull, AttemptInv, CopiesAllowed, Allowed
<1>5. \A i \in 1..Len(queue') : Allowed(queue[i].id, queue[i].attempt)'
  <2>1. \/ queue' = queue \/ queue' = <<>>
        \/ queue # <<>> /\ queue' = Tail(queue)
    BY DEF Work, WorkerStep, Receive, SetRunning, ExecuteOk, ExecuteFailed, ExecutePanics,
           Exit, StoreCompleted, StoreExpired, StoreDeadLetter, StoreTerminal, StoreRetry,
           NotifyRetry, EmitWebhook, QueueWithout
  <2>2. CASE queue # <<>> /\ queue' = Tail(queue)
    <3>1. \A i \in 1..Len(queue') : i + 1 \in 1..Len(queue) /\ queue'[i] = queue[i + 1]
      BY <1>1, <2>2
    <3> QED
      BY <3>1 DEF AttemptInv, CopiesAllowed, Allowed
  <2> QED
    BY <2>1, <2>2 DEF AttemptInv, CopiesAllowed, Allowed
<1>6. /\ wpc'[w] \notin {"recv", "gone"} => Allowed(held'[w].id, held'[w].attempt)
      /\ wpc'[w] = "retry" => Allowed(held'[w].id, held'[w].attempt + 1)
  <2>1. CASE Receive(w)
    <3>1. wpc'[w] = "start" /\ held'[w] = queue[1] /\ 1 \in 1..Len(queue)
      BY <1>1, <2>1 DEF Receive
    <3> QED
      BY <3>1 DEF AttemptInv, CopiesAllowed
  <2>2. CASE ExecuteFailed(w)
    <3>1. held' = held /\ wpc[w] = "exec"
      BY <2>2 DEF ExecuteFailed, GoTo
    <3>2. wpc'[w] = "retry" => ~RetriesExhausted(held[w])
      BY <1>1, <2>2 DEF ExecuteFailed, GoTo
    <3>3. Allowed(held[w].id, held[w].attempt)
      BY <3>1 DEF AttemptInv, CopiesAllowed
    <3>4. wpc'[w] = "retry" => Allowed(held[w].id, held[w].attempt + 1)
      BY <1>1, <3>1, <3>2 DEF RetriesExhausted, Allowed
    <3> QED
      BY <3>1, <3>3, <3>4
  <2>3. CASE ~Receive(w) /\ ~ExecuteFailed(w)
    <3>1. /\ wpc'[w] # "retry"
          /\ wpc'[w] \notin {"recv", "gone"} =>
               held' = held /\ wpc[w] \notin {"recv", "gone"}
      BY <1>1, <2>3
      DEF Work, WorkerStep, SetRunning, ExecuteOk, ExecutePanics, Exit, StoreCompleted,
          StoreExpired, StoreDeadLetter, StoreTerminal, StoreRetry, NotifyRetry,
          EmitWebhook, DbCall, GoTo, NextTurn
    <3> QED
      BY <3>1 DEF AttemptInv, CopiesAllowed
  <2> QED
    BY <2>1, <2>2, <2>3
<1> QED
  BY <1>2, <1>3, <1>4, <1>5, <1>6 DEF CopiesAllowed, AttemptInv, Allowed

LEMMA AttemptsSchedule ==
  ASSUME AttemptInv, Schedule
  PROVE  AttemptsBounded' /\ CopiesAllowed'
<1>1. jobs \in [Job -> Row] /\ queue \in Seq(Copy) /\ UNCHANGED workerVars
  BY DEF AttemptInv, TypeOK, StoreTypeOK, PoolTypeOK, Schedule, SchedulerStep, RefreshHeap,
         WakeUp, Deadline, DispatchDone, Lease, SendOk, SendFull, SendClosed, GiveBack,
         Renotify
<1>2. HandFull => /\ hand.id \in Job /\ hand.scheduledAt \in Int /\ hand.attempt \in Nat
                  /\ Allowed(hand.id, hand.attempt)
  BY DEF AttemptInv, TypeOK, SchedulerTypeOK, CopiesAllowed, HandFull, Copy
<1>3. AttemptsBounded'
  <2>1. CASE GiveBack
    <3>1. HandFull /\ jobs' \in {jobs, ScheduleRetry(hand.id, hand.scheduledAt, hand.attempt)}
      BY <2>1 DEF GiveBack, DbCall, HandFull
    <3> QED
      BY <1>2, <3>1, AllowedStatements DEF AttemptInv
  <2>2. CASE Lease
    <3>1. \E e \in Earliest : jobs' \in {jobs, LeaseJob(e.id)}
      BY <2>2 DEF Lease, DbCall
    <3>2. \A e \in Earliest : e.id \in Job
      BY DEF Earliest, AttemptInv, TypeOK, SchedulerTypeOK, ScheduledJob
    <3> QED
      BY <3>1, <3>2, AllowedStatements DEF AttemptInv
  <2>3. CASE jobs' = jobs
    BY <2>3 DEF AttemptInv, AttemptsBounded
  <2> QED
    BY <2>1, <2>2, <2>3
    DEF Schedule, SchedulerStep, RefreshHeap, WakeUp, Deadline, DispatchDone, SendOk,
        SendFull, SendClosed, Renotify, storeVars
<1>4. HandFull' => Allowed(hand'.id, hand'.attempt)
  <2>1. CASE Lease /\ HandFull'
    <3>1. PICK e \in Earliest : hand' = CopyOf(e.id)
      BY <2>1 DEF Lease, DbCall, ToSelect, HandFull
    <3>2. e.id \in Job
      BY DEF Earliest, AttemptInv, TypeOK, SchedulerTypeOK, ScheduledJob
    <3> QED
      BY <3>1, <3>2 DEF CopyOf, Allowed, AttemptInv, AttemptsBounded
  <2>2. CASE HandFull' => HandFull /\ hand' = hand
    BY <1>2, <2>2
  <2> QED
    BY <2>1, <2>2
    DEF Schedule, SchedulerStep, RefreshHeap, WakeUp, Deadline, DispatchDone, SendOk,
        SendFull, SendClosed, GiveBack, DbCall, Renotify, ToSelect, HandFull
<1>5. \A i \in 1..Len(queue') : Allowed(queue'[i].id, queue'[i].attempt)
  <2>1. CASE SendOk
    <3>1. queue' = Append(queue, hand) /\ HandFull /\ hand \in Copy
      BY <2>1 DEF SendOk, HandFull, AttemptInv, TypeOK, SchedulerTypeOK
    <3>2. \A i \in 1..Len(queue') :
            (i \in 1..Len(queue) /\ queue'[i] = queue[i]) \/ queue'[i] = hand
      BY <1>1, <3>1
    <3> QED
      BY <1>2, <3>1, <3>2 DEF AttemptInv, CopiesAllowed
  <2>2. CASE queue' = queue
    BY <2>2 DEF AttemptInv, CopiesAllowed
  <2> QED
    BY <2>1, <2>2
    DEF Schedule, SchedulerStep, RefreshHeap, WakeUp, Deadline, DispatchDone, Lease,
        SendFull, SendClosed, GiveBack, Renotify
<1> QED
  BY <1>1, <1>3, <1>4, <1>5 DEF CopiesAllowed, AttemptInv, Allowed, workerVars

LEMMA AttemptsNext ==
  ASSUME AttemptInv, [Next]_vars
  PROVE  AttemptsBounded' /\ CopiesAllowed'
<1>1. CASE Crash
  <2>1. jobs' = jobs /\ Len(queue') = 0 /\ ~HandFull' /\ \A w \in Worker : wpc'[w] = "recv"
    BY <1>1 DEF Crash, storeVars, HandFull
  <2> QED
    BY <2>1 DEF AttemptInv, AttemptsBounded, CopiesAllowed
<1>2. CASE Boot \/ StopWorkers \/ Tick \/ Reap \/ Serve \/ UNCHANGED vars
  <2>1. /\ UNCHANGED <<queue, wpc, held, hand>>
        /\ HandFull' => HandFull
    BY <1>2 DEF Boot, DbCall, StopWorkers, NotifyWaiters, Tick, Reap, Serve, vars,
                workerVars, schedVars, HandFull
  <2>2. AttemptsBounded'
    <3>1. CASE Boot
      BY <3>1, AllowedStatements DEF Boot, DbCall, AttemptInv
    <3>2. CASE StopWorkers \/ Tick \/ UNCHANGED vars
      BY <3>2 DEF StopWorkers, NotifyWaiters, Tick, vars, storeVars, AttemptInv,
                  AttemptsBounded
    <3>3. CASE Reap
      BY <3>3, AllowedStatements
      DEF Reap, ReaperStep, ReapPass, ReapNotify, DbCall, storeVars, AttemptInv
    <3>4. CASE Serve
      <4>1. "CANCELLED" \in JobState
        BY DEF JobState, Terminal
      <4> QED
        BY <3>4, <4>1, AllowedStatements
        DEF Serve, ApiStep, CreateJob, CancelScheduled, CancelJob, RequestNotify,
            RequestDropped, storeVars, AttemptInv
    <3> QED
      BY <1>2, <3>1, <3>2, <3>3, <3>4
  <2> QED
    BY <2>1, <2>2 DEF AttemptInv, CopiesAllowed, Allowed
<1> QED
  BY <1>1, <1>2, AttemptsWork, AttemptsSchedule DEF Next

(* No stored attempt number exceeds max_retries, for any jobs, workers and *)
(* delays, whatever fails, crashes or comes late.                          *)
THEOREM RetriesAreLimited == Spec => []AttemptsBounded
<1>1. Init => AttemptInv
  <2> SUFFICES ASSUME Init PROVE AttemptsBounded /\ CopiesAllowed
    BY TypeInit DEF AttemptInv
  <2>1. /\ \A j \in Job : jobs[j].attempt = 0
        /\ Len(queue) = 0 /\ ~HandFull /\ \A w \in Worker : wpc[w] = "recv"
    BY DEF Init, StoreInit, NewRow, PoolInit, SchedulerInit, HandFull
  <2> QED
    BY <2>1 DEF AttemptsBounded, CopiesAllowed
<1>2. AttemptInv /\ [Next]_vars => AttemptInv'
  BY TypeNext, AttemptsNext DEF AttemptInv
<1>3. AttemptInv => AttemptsBounded
  BY DEF AttemptInv
<1> QED
  BY <1>1, <1>2, <1>3, PTL DEF Spec

=============================================================================
