-------------------------- MODULE OwnershipProofs ---------------------------
(***************************************************************************)
(* When leases outlast the wait for a worker, every copy of a job has one  *)
(* owner and agrees with its row: the invariant SoleOwner of Kronkeeper.   *)
(*                                                                         *)
(* The inductive invariant is SoleOwner with the types and IdleWhenDown.   *)
(* A task that changes a row owns the row's only copy, or the row is in a  *)
(* state (ABSENT, SCHEDULED) in which it has no copy; so the copies of the *)
(* others keep agreeing with their rows.                                   *)
(***************************************************************************)
EXTENDS KronkeeperProofs

OwnerInv == TypeOK /\ SoleOwner /\ IdleWhenDown

LEMMA OwnerInit == Init => OwnerInv
<1> SUFFICES ASSUME Init PROVE SoleOwner /\ IdleWhenDown
  BY TypeInit DEF OwnerInv
<1>1. queue = <<>> /\ Len(queue) = 0 /\ spc = "down" /\ heap = {}
  BY DEF Init, PoolInit, SchedulerInit
<1>2. told = {} /\ \A w \in Worker : wpc[w] = "recv"
  BY DEF Init, PoolInit
<1> QED
  BY <1>1, <1>2 DEF SoleOwner, CopiesMatch, OneCopy, IdleWhenDown, HandFull, StartPc,
                    Busy, Started, Storing

(* A step that leaves the tasks and the clock alone, and changes only rows *)
(* that have no copy.                                                      *)
LEMMA OwnerFrame ==
  ASSUME OwnerInv, TypeOK', UNCHANGED <<now, queue, workerVars, schedVars>>,
         \A j \in Job : jobs'[j] # jobs[j] =>
           \/ jobs[j].state \in {"ABSENT", "SCHEDULED"}
           \/ LeaseExpired(jobs[j])
  PROVE  OwnerInv'
<1>1. \A c \in Copy : Leased(c) \/ Running(c) => jobs'[c.id] = jobs[c.id]
  BY JobStoreAssumption
  DEF OwnerInv, TypeOK, StoreTypeOK, Row, Leased, Running, LeaseExpired, Copy
<1>2. \A i \in 1..Len(queue) : queue[i] \in Copy
  BY DEF OwnerInv, TypeOK, PoolTypeOK
<1>3. CopiesMatch'
  <2>1. HandFull' => Leased(hand)'
    BY <1>1 DEF OwnerInv, TypeOK, SchedulerTypeOK, SoleOwner, CopiesMatch, HandFull,
                schedVars, Leased
  <2>2. \A i \in 1..Len(queue)' : Leased(queue[i])'
    BY <1>1, <1>2 DEF OwnerInv, SoleOwner, CopiesMatch, Leased
  <2>3. \A w \in Worker : StartPc(w)' => Leased(held[w])'
    BY <1>1 DEF OwnerInv, TypeOK, PoolTypeOK, SoleOwner, CopiesMatch, StartPc,
                workerVars, Leased
  <2>4. \A w \in Worker : wpc'[w] \in Started => Running(held[w])'
    BY <1>1 DEF OwnerInv, TypeOK, PoolTypeOK, SoleOwner, CopiesMatch, Started, Storing,
                workerVars, Running
  <2> QED
    BY <2>1, <2>2, <2>3, <2>4 DEF CopiesMatch
<1>4. OneCopy' /\ IdleWhenDown'
  BY DEF OwnerInv, SoleOwner, OneCopy, IdleWhenDown, HandFull, StartPc, Busy, workerVars,
         schedVars
<1> QED
  BY <1>3, <1>4 DEF OwnerInv, SoleOwner

LEMMA OwnerServe == ASSUME OwnerInv, TypeOK', Serve PROVE OwnerInv'
<1>1. \A j \in Job : jobs'[j] # jobs[j] => jobs[j].state \in {"ABSENT", "SCHEDULED"}
  <2> SUFFICES ASSUME jobs' # jobs
               PROVE  \E i \in Job : /\ jobs[i].state \in {"ABSENT", "SCHEDULED"}
                                     /\ \A j \in Job \ {i} : jobs'[j] = jobs[j]
    OBVIOUS
  <2>1. PICK i \in Job : CreateJob(i) \/ CancelScheduled(i)
    BY DEF Serve, ApiStep, RequestNotify, RequestDropped, storeVars
  <2>2. CASE CreateJob(i)
    BY <2>2 DEF CreateJob, InsertJob, OwnerInv, TypeOK, StoreTypeOK
  <2>3. CASE CancelScheduled(i)
    BY <2>3 DEF CancelScheduled, CancelJob, SetState, IsScheduled, OwnerInv, TypeOK,
                StoreTypeOK
  <2> QED
    BY <2>1, <2>2, <2>3
<1>2. UNCHANGED <<now, queue, workerVars, schedVars>>
  BY DEF Serve, ApiStep, CreateJob, CancelScheduled, RequestNotify, RequestDropped,
         storeVars
<1> QED
  BY <1>1, <1>2, OwnerFrame

LEMMA OwnerReap == ASSUME OwnerInv, TypeOK', Reap PROVE OwnerInv'
<1>1. \A j \in Job : jobs'[j] # jobs[j] => LeaseExpired(jobs[j])
  BY DEF Reap, ReaperStep, ReapPass, ReapNotify, DbCall, ReapExpiredLeases, storeVars
<1>2. UNCHANGED <<now, queue, workerVars, schedVars>>
  BY DEF Reap, ReaperStep, ReapPass, ReapNotify, DbCall, storeVars
<1> QED
  BY <1>1, <1>2, OwnerFrame

(* The only step that needs TimelyPickup: no lease of a copy runs out.     *)
LEMMA OwnerTick ==
  ASSUME OwnerInv, TypeOK', Tick, TimelyPickup
  PROVE  OwnerInv'
<1>1. UNCHANGED <<jobs, queue, workerVars, schedVars>> /\ now' = now + 1
  BY DEF Tick
<1>2. \A j \in Job : Unstarted(j) /\ jobs[j].leasedUntil # Null =>
                       now < jobs[j].leasedUntil
  BY DEF Tick
<1>3. ASSUME NEW c \in Copy, Leased(c), Unstarted(c.id)
      PROVE  now + 1 <= jobs[c.id].leasedUntil
  <2>1. jobs[c.id].leasedUntil \in Int /\ now \in Int
    BY <1>3 DEF Leased, Copy, OwnerInv, TypeOK, StoreTypeOK, Row
  <2>2. now < jobs[c.id].leasedUntil
    BY <1>2, <1>3 DEF Leased, Copy
  <2> QED
    BY <2>1, <2>2
<1>4. CopiesMatch'
  <2>1. HandFull' => Leased(hand)'
    <3>1. HandFull => hand \in Copy /\ Leased(hand) /\ Unstarted(hand.id)
      BY DEF OwnerInv, TypeOK, SchedulerTypeOK, SoleOwner, CopiesMatch, HandFull,
             Unstarted, InHand
    <3> QED
      BY <1>1, <1>3, <3>1 DEF HandFull, Leased, schedVars
  <2>2. \A i \in 1..Len(queue)' : Leased(queue[i])'
    <3>1. \A i \in 1..Len(queue) :
            queue[i] \in Copy /\ Leased(queue[i]) /\ Unstarted(queue[i].id)
      BY DEF OwnerInv, TypeOK, PoolTypeOK, SoleOwner, CopiesMatch, Unstarted, InQueue
    <3> QED
      BY <1>1, <1>3, <3>1 DEF Leased
  <2>3. \A w \in Worker : StartPc(w)' => Leased(held[w])'
    <3>1. \A w \in Worker : StartPc(w) =>
            held[w] \in Copy /\ Leased(held[w]) /\ Unstarted(held[w].id)
      BY DEF OwnerInv, TypeOK, PoolTypeOK, SoleOwner, CopiesMatch, StartPc, Unstarted,
             Starting
    <3> QED
      BY <1>1, <1>3, <3>1 DEF StartPc, Leased, workerVars
  <2>4. \A w \in Worker : wpc'[w] \in Started => Running(held[w])'
    BY <1>1 DEF OwnerInv, SoleOwner, CopiesMatch, Running, workerVars
  <2> QED
    BY <2>1, <2>2, <2>3, <2>4 DEF CopiesMatch
<1>5. OneCopy' /\ IdleWhenDown'
  BY <1>1 DEF OwnerInv, SoleOwner, OneCopy, IdleWhenDown, HandFull, StartPc, Busy,
              workerVars, schedVars
<1> QED
  BY <1>4, <1>5 DEF OwnerInv, SoleOwner

(* A process that dies takes all copies with it.                           *)
LEMMA OwnerNoCopies ==
  ASSUME TypeOK', queue' = <<>>, \A w \in Worker : wpc'[w] = "recv", heap' = {},
         told' = {},
         spc' \in {"down", "refresh"}
  PROVE  OwnerInv'
<1>1. Len(queue)' = 0
  OBVIOUS
<1> QED
  BY <1>1 DEF OwnerInv, SoleOwner, CopiesMatch, OneCopy, IdleWhenDown, HandFull, StartPc,
              Busy, Started, Storing

LEMMA OwnerBoot == ASSUME OwnerInv, TypeOK', Boot PROVE OwnerInv'
<1>1. /\ spc' \in {"down", "refresh"}
      /\ UNCHANGED <<queue, workerVars, heap>>
      /\ spc = "down"
  BY DEF Boot, Up, DbCall
<1> QED
  BY <1>1, OwnerNoCopies DEF OwnerInv, IdleWhenDown, workerVars

LEMMA OwnerStop == ASSUME OwnerInv, TypeOK', StopWorkers PROVE OwnerInv'
<1>1. spc # "down" /\ UNCHANGED <<jobs, now, queue, wpc, held, spc, heap, hand>>
  BY DEF StopWorkers, NotifyWaiters, Up, storeVars, schedVars
<1> QED
  BY <1>1 DEF OwnerInv, SoleOwner, CopiesMatch, OneCopy, IdleWhenDown, HandFull, StartPc,
              Busy, Leased, Running

LEMMA OwnerCrash == ASSUME TypeOK', Crash PROVE OwnerInv'
BY OwnerNoCopies DEF Crash

-----------------------------------------------------------------------------
(* A worker that has left recv, or leaves it for good, changes at most the *)
(* row whose only copy it holds, and goes on executing that job or lets go *)
(* of it.                                                                  *)
LEMMA OwnerWorker ==
  ASSUME OwnerInv, TypeOK', NEW w \in Worker, wpc[w] # "recv" \/ w \in told,
         UNCHANGED <<now, schedVars>>,
         queue' = queue \/ queue' = <<>>,
         jobs' = jobs \/ (Busy(w) /\ \A j \in Job \ {held[w].id} : jobs'[j] = jobs[j]),
         \A v \in Worker \ {w} : wpc'[v] = wpc[v] /\ held'[v] = held[v],
         \/ wpc'[w] \notin {"start"} \cup Started
         \/ Busy(w) /\ wpc'[w] \in Started /\ held'[w] = held[w] /\ Running(held[w])'
  PROVE  OwnerInv'
<1>1. ASSUME NEW c \in Copy, jobs' # jobs => c.id # held[w].id
      PROVE  jobs'[c.id] = jobs[c.id]
  BY <1>1 DEF Copy
<1>2. Busy(w) => held[w] \in Copy /\ (Leased(held[w]) \/ Running(held[w]))
  BY DEF OwnerInv, TypeOK, PoolTypeOK, SoleOwner, CopiesMatch, Busy, StartPc, Started,
         Storing
<1>3. HandFull => hand \in Copy /\ Leased(hand)
  BY DEF OwnerInv, TypeOK, SchedulerTypeOK, SoleOwner, CopiesMatch, HandFull
<1>4. \A i \in 1..Len(queue) : queue[i] \in Copy /\ Leased(queue[i])
  BY DEF OwnerInv, TypeOK, PoolTypeOK, SoleOwner, CopiesMatch
<1>5. \A v \in Worker : Busy(v) => held[v] \in Copy
  BY DEF OwnerInv, TypeOK, PoolTypeOK, Busy, Started, Storing
<1>6. Busy(w) /\ wpc[w] # "start" => jobs[held[w].id].state = "RUNNING"
  BY DEF OwnerInv, SoleOwner, CopiesMatch, Busy, Running
<1>7. CopiesMatch'
  <2>1. HandFull' => Leased(hand)'
    <3>1. HandFull /\ Busy(w) => hand.id # held[w].id
      BY <1>3, <1>6 DEF OwnerInv, SoleOwner, OneCopy, StartPc, Leased
    <3> QED
      BY <1>1, <1>3, <3>1 DEF HandFull, Leased, schedVars
  <2>2. \A i \in 1..Len(queue)' : Leased(queue[i])'
    <3>1. Busy(w) => \A i \in 1..Len(queue) : queue[i].id # held[w].id
      BY <1>4, <1>6 DEF OwnerInv, SoleOwner, OneCopy, StartPc, Leased
    <3>2. CASE queue' = queue
      BY <1>1, <1>4, <3>1, <3>2 DEF Leased
    <3>3. CASE queue' = <<>>
      BY <3>3
    <3> QED
      BY <3>2, <3>3
  <2>3. \A v \in Worker \ {w} : Busy(v) /\ Busy(w) => held[v].id # held[w].id
    BY DEF OwnerInv, SoleOwner, OneCopy
  <2>4. \A v \in Worker : StartPc(v)' => Leased(held[v])'
    <3>1. ASSUME NEW v \in Worker \ {w}, wpc[v] = "start" PROVE Leased(held[v])'
      BY <1>1, <1>5, <2>3, <3>1
      DEF OwnerInv, SoleOwner, CopiesMatch, StartPc, Busy, Leased
    <3> QED
      BY <3>1 DEF StartPc, Started, Storing
  <2>5. \A v \in Worker : wpc'[v] \in Started => Running(held[v])'
    <3>1. ASSUME NEW v \in Worker \ {w}, wpc[v] \in Started PROVE Running(held[v])'
      BY <1>1, <1>5, <2>3, <3>1 DEF OwnerInv, SoleOwner, CopiesMatch, Busy, Running
    <3>2. wpc'[w] \in Started => Running(held[w])'
      OBVIOUS
    <3> QED
      BY <3>1, <3>2
  <2> QED
    BY <2>1, <2>2, <2>4, <2>5 DEF CopiesMatch
<1>8. OneCopy'
  <2>1. \A v \in Worker : StartPc(v)' => v # w /\ StartPc(v) /\ held'[v] = held[v]
    BY DEF StartPc, Started, Storing
  <2>2. \A v \in Worker : Busy(v)' => Busy(v) /\ held'[v] = held[v]
    BY DEF Busy
  <2>3. HandFull' = HandFull /\ hand' = hand
    BY DEF HandFull, schedVars
  <2>4. CASE queue' = queue
    BY <2>1, <2>2, <2>3, <2>4 DEF OwnerInv, SoleOwner, OneCopy
  <2>5. CASE queue' = <<>>
    BY <2>1, <2>2, <2>3, <2>5 DEF OwnerInv, SoleOwner, OneCopy
  <2> QED
    BY <2>4, <2>5
<1>9. IdleWhenDown'
  BY DEF OwnerInv, IdleWhenDown, schedVars
<1> QED
  BY <1>7, <1>8, <1>9 DEF OwnerInv, SoleOwner

LEMMA OwnerReceive ==
  ASSUME OwnerInv, TypeOK', NEW w \in Worker, Receive(w), UNCHANGED schedVars
  PROVE  OwnerInv'
<1>1. /\ queue # <<>> /\ queue \in Seq(Copy)
      /\ wpc[w] = "recv" /\ wpc'[w] = "start" /\ held'[w] = Head(queue)
      /\ queue' = Tail(queue)
      /\ \A v \in Worker \ {w} : wpc'[v] = wpc[v] /\ held'[v] = held[v]
      /\ UNCHANGED <<jobs, now>>
  BY DEF OwnerInv, TypeOK, PoolTypeOK, Receive, storeVars
<1>2. /\ 1 \in 1..Len(queue)
      /\ held'[w] = queue[1]
      /\ Len(queue') = Len(queue) - 1
      /\ \A i \in 1..Len(queue') : i + 1 \in 1..Len(queue) /\ queue'[i] = queue[i + 1]
  BY <1>1
<1>3. HandFull' = HandFull /\ hand' = hand /\ spc' = spc
  BY DEF HandFull, schedVars
<1>4. CopiesMatch'
  <2>1. HandFull' => Leased(hand)'
    BY <1>1, <1>3 DEF OwnerInv, SoleOwner, CopiesMatch, Leased
  <2>2. \A i \in 1..Len(queue)' : Leased(queue[i])'
    BY <1>1, <1>2 DEF OwnerInv, SoleOwner, CopiesMatch, Leased
  <2>3. \A v \in Worker : StartPc(v)' => Leased(held[v])'
    BY <1>1, <1>2 DEF OwnerInv, SoleOwner, CopiesMatch, StartPc, Leased
  <2>4. \A v \in Worker : wpc'[v] \in Started => Running(held[v])'
    BY <1>1 DEF OwnerInv, SoleOwner, CopiesMatch, Started, Storing, Running
  <2> QED
    BY <2>1, <2>2, <2>3, <2>4 DEF CopiesMatch
<1>5. OneCopy'
  <2>1. HandFull' => \A i \in 1..Len(queue)' : queue'[i].id # hand'.id
    BY <1>2, <1>3 DEF OwnerInv, SoleOwner, OneCopy
  <2>2. HandFull' => \A v \in Worker : StartPc(v)' => held'[v].id # hand'.id
    BY <1>1, <1>2, <1>3 DEF OwnerInv, SoleOwner, OneCopy, StartPc
  <2>3. \A i, k \in 1..Len(queue)' : i # k => queue'[i].id # queue'[k].id
    BY <1>2 DEF OwnerInv, SoleOwner, OneCopy
  <2>4. \A i \in 1..Len(queue)' : \A v \in Worker : StartPc(v)' => held'[v].id # queue'[i].id
    <3>1. \A i \in 1..Len(queue)' : queue[1].id # queue'[i].id
      BY <1>1, <1>2 DEF OwnerInv, SoleOwner, OneCopy
    <3> QED
      BY <1>1, <1>2, <3>1 DEF OwnerInv, SoleOwner, OneCopy, StartPc
  <2>5. \A v \in Worker \ {w} : Busy(v)' => held'[v].id # held'[w].id
    <3>1. ASSUME NEW v \in Worker \ {w}, Busy(v) PROVE held[v].id # queue[1].id
      <4>1. CASE StartPc(v)
        BY <1>2, <4>1 DEF OwnerInv, SoleOwner, OneCopy
      <4>2. CASE wpc[v] \in Started
        <5>1. jobs[held[v].id].state = "RUNNING" /\ jobs[queue[1].id].state = "LEASED"
          BY <1>2, <4>2 DEF OwnerInv, SoleOwner, CopiesMatch, Leased, Running
        <5> QED
          BY <5>1
      <4> QED
        BY <3>1, <4>1, <4>2 DEF Busy, StartPc
    <3> QED
      BY <1>1, <1>2, <3>1 DEF Busy
  <2>6. \A u, v \in Worker : u # v /\ Busy(u)' /\ Busy(v)' => held'[u].id # held'[v].id
    BY <1>1, <2>5 DEF OwnerInv, SoleOwner, OneCopy, Busy
  <2> QED
    BY <2>1, <2>2, <2>3, <2>4, <2>6 DEF OneCopy
<1>6. IdleWhenDown'
  BY <1>1, <1>3 DEF OwnerInv, IdleWhenDown
<1> QED
  BY <1>4, <1>5, <1>6 DEF OwnerInv, SoleOwner

LEMMA OwnerWork == ASSUME OwnerInv, TypeOK', NEW w \in Worker, Work(w) PROVE OwnerInv'
<1>0. UNCHANGED schedVars
  BY DEF Work
<1>1. CASE Receive(w)
  BY <1>0, <1>1, OwnerReceive
<1>2. ASSUME wpc[w] = "start" \/ wpc[w] \in Started PROVE held[w].id \in Job /\ Busy(w)
  BY <1>2 DEF OwnerInv, TypeOK, PoolTypeOK, Copy, Busy, Started, Storing
<1>3. wpc \in [Worker -> WorkerPc] /\ jobs \in [Job -> Row]
  BY DEF OwnerInv, TypeOK, PoolTypeOK, StoreTypeOK
<1>4. \A j, s : \A i \in Job \ {j} : SetState(j, s)[i] = jobs[i]
  BY <1>3 DEF SetState
<1>5. NextTurn(w) => /\ wpc'[w] \notin {"start"} \cup Started
                     /\ \A v \in Worker \ {w} : wpc'[v] = wpc[v] /\ held'[v] = held[v]
  BY <1>3 DEF NextTurn, Started, Storing, OwnerInv, TypeOK, PoolTypeOK
<1>6. \A pc : GoTo(w, pc) => /\ wpc'[w] = pc
                             /\ held' = held
                             /\ \A v \in Worker \ {w} : wpc'[v] = wpc[v]
  BY <1>3 DEF GoTo
<1>7. CASE SetRunning(w)
  <2>1. wpc[w] = "start" /\ UNCHANGED <<now, queue>> /\ Busy(w) /\ held[w].id \in Job
    BY <1>2, <1>7 DEF SetRunning
  <2>2. jobs[held[w].id].attempt = held[w].attempt
    BY <2>1 DEF OwnerInv, SoleOwner, CopiesMatch, StartPc, Leased
  <2>3. CASE jobs' = SetState(held[w].id, "RUNNING") /\ GoTo(w, "exec")
    <3>1. Running(held[w])'
      BY <1>3, <1>6, <2>1, <2>2, <2>3 DEF SetState, Running
    <3>2. wpc'[w] \in Started
      BY <1>6, <2>3 DEF Started
    <3> QED
      BY <1>0, <1>4, <1>6, <2>1, <2>3, <3>1, <3>2, OwnerWorker
  <2>4. CASE jobs' \in {jobs, SetState(held[w].id, "RUNNING")} /\ NextTurn(w)
    BY <1>0, <1>4, <1>5, <2>1, <2>4, OwnerWorker
  <2> QED
    BY <1>7, <2>3, <2>4 DEF SetRunning, DbCall
<1>8. CASE ExecuteOk(w) \/ ExecuteFailed(w)
  <2>1. /\ wpc[w] = "exec" /\ UNCHANGED <<jobs, now, queue, held>>
        /\ wpc'[w] \in Started
        /\ \A v \in Worker \ {w} : wpc'[v] = wpc[v]
    BY <1>3, <1>8 DEF ExecuteOk, ExecuteFailed, GoTo, storeVars, Started, Storing
  <2>2. Busy(w) /\ Running(held[w])
    BY <2>1 DEF OwnerInv, SoleOwner, CopiesMatch, Busy, Started
  <2>3. Running(held[w])'
    BY <2>1, <2>2 DEF Running
  <2> QED
    BY <1>0, <2>1, <2>2, <2>3, OwnerWorker
<1>9. CASE ExecutePanics(w) \/ Exit(w)
  <2>1. /\ wpc[w] # "recv" \/ w \in told
        /\ UNCHANGED <<jobs, now>>
        /\ queue' = queue \/ queue' = <<>>
        /\ wpc'[w] \notin {"start"} \cup Started
        /\ \A v \in Worker \ {w} : wpc'[v] = wpc[v] /\ held'[v] = held[v]
    BY <1>3, <1>9 DEF ExecutePanics, Exit, QueueWithout, storeVars, Started, Storing,
                      OwnerInv, TypeOK, PoolTypeOK
  <2> QED
    BY <1>0, <2>1, OwnerWorker
<1>10. CASE StoreCompleted(w) \/ StoreExpired(w) \/ StoreDeadLetter(w)
  <2>1. PICK s : /\ wpc[w] \in Storing
                 /\ jobs' \in {jobs, SetState(held[w].id, s)}
                 /\ GoTo(w, "emit") \/ NextTurn(w)
                 /\ UNCHANGED <<now, queue>>
    BY <1>10
    DEF StoreCompleted, StoreExpired, StoreDeadLetter, StoreTerminal, DbCall, Storing
  <2>2. Busy(w) /\ wpc[w] # "recv"
    BY <1>2, <2>1 DEF Storing, Started
  <2>3. wpc'[w] \notin {"start"} \cup Started
    BY <1>5, <1>6, <2>1 DEF Started, Storing
  <2> QED
    BY <1>0, <1>4, <1>5, <1>6, <2>1, <2>2, <2>3, OwnerWorker
<1>11. CASE StoreRetry(w)
  <2>1. /\ wpc[w] = "retry"
        /\ \A i \in Job \ {held[w].id} : jobs'[i] = jobs[i]
        /\ GoTo(w, "notify") \/ NextTurn(w)
        /\ UNCHANGED <<now, queue>>
    BY <1>3, <1>11 DEF StoreRetry, DbCall, ScheduleRetry
  <2>2. Busy(w)
    BY <1>2, <2>1 DEF Storing, Started
  <2>3. wpc'[w] \notin {"start"} \cup Started
    BY <1>5, <1>6, <2>1 DEF Started, Storing
  <2> QED
    BY <1>0, <1>5, <1>6, <2>1, <2>2, <2>3, OwnerWorker
<1>12. CASE NotifyRetry(w) \/ EmitWebhook(w)
  <2>1. wpc[w] # "recv" /\ NextTurn(w) /\ UNCHANGED <<jobs, now, queue>>
    BY <1>12 DEF NotifyRetry, EmitWebhook, DbCall, storeVars
  <2> QED
    BY <1>0, <1>5, <2>1, OwnerWorker
<1> QED
  BY <1>1, <1>7, <1>8, <1>9, <1>10, <1>11, <1>12 DEF Work, WorkerStep

-----------------------------------------------------------------------------
(* A step of the scheduler that hands no job on: it changes at most a row  *)
(* without a copy, or the row of the job it lets go of.                    *)
LEMMA OwnerKeeps ==
  ASSUME OwnerInv, TypeOK', UNCHANGED <<now, queue, workerVars>>,
         spc # "down", spc' # "down",
         HandFull' => HandFull /\ hand' = hand /\ jobs' = jobs,
         \A j \in Job : jobs'[j] # jobs[j] =>
           IsScheduled(j) \/ (HandFull /\ j = hand.id)
  PROVE  OwnerInv'
<1>1. HandFull => Leased(hand)
  BY DEF OwnerInv, SoleOwner, CopiesMatch
<1>2. \A c \in Copy :
         (Leased(c) \/ Running(c)) /\ (HandFull => c.id # hand.id)
           => jobs'[c.id] = jobs[c.id]
  BY DEF Leased, Running, IsScheduled, Copy
<1>3. \A i \in 1..Len(queue) : queue[i] \in Copy
  BY DEF OwnerInv, TypeOK, PoolTypeOK
<1>4. \A w \in Worker : Busy(w) => held[w] \in Copy
  BY DEF OwnerInv, TypeOK, PoolTypeOK, Busy, Started, Storing
<1>5. CopiesMatch'
  <2>1. HandFull' => Leased(hand)'
    BY <1>1 DEF Leased
  <2>2. \A i \in 1..Len(queue)' : Leased(queue[i])'
    BY <1>2, <1>3 DEF OwnerInv, SoleOwner, CopiesMatch, OneCopy, Leased
  <2>3. \A w \in Worker : StartPc(w)' => Leased(held[w])'
    BY <1>2, <1>4
    DEF OwnerInv, SoleOwner, CopiesMatch, OneCopy, StartPc, Busy, workerVars, Leased
  <2>4. \A w \in Worker : wpc'[w] \in Started => Running(held[w])'
    <3>1. ASSUME NEW w \in Worker, wpc[w] \in Started
          PROVE  Running(held[w]) /\ (HandFull => held[w].id # hand.id)
      BY <1>1, <3>1 DEF OwnerInv, SoleOwner, CopiesMatch, Running, Leased
    <3> QED
      BY <1>2, <1>4, <3>1 DEF Busy, workerVars, Running
  <2> QED
    BY <2>1, <2>2, <2>3, <2>4 DEF CopiesMatch
<1>6. OneCopy' /\ IdleWhenDown'
  BY DEF OwnerInv, SoleOwner, OneCopy, IdleWhenDown, StartPc, Busy, workerVars
<1> QED
  BY <1>5, <1>6 DEF OwnerInv, SoleOwner

(* A job that is leased was waiting, so nobody had a copy of it.           *)
LEMMA OwnerLease ==
  ASSUME OwnerInv, TypeOK', UNCHANGED <<now, queue, workerVars>>, spc = "dispatch",
         NEW j \in Job, IsScheduled(j), jobs' = LeaseJob(j), spc' = "send",
         hand' = CopyOf(j)
  PROVE  OwnerInv'
<1>1. /\ hand'.id = j /\ hand'.scheduledAt = jobs[j].scheduledAt
      /\ hand'.attempt = jobs[j].attempt
      /\ \A i \in Job \ {j} : jobs'[i] = jobs[i]
  BY DEF CopyOf, LeaseJob, OwnerInv, TypeOK, StoreTypeOK
<1>2. now + LeaseDuration \in Int /\ now <= now + LeaseDuration
  BY JobStoreAssumption DEF OwnerInv, TypeOK, StoreTypeOK
<1>3. /\ jobs'[j].state = "LEASED"
      /\ jobs'[j].leasedUntil = now + LeaseDuration
      /\ jobs'[j].scheduledAt = jobs[j].scheduledAt
      /\ jobs'[j].attempt = jobs[j].attempt
  BY DEF LeaseJob, OwnerInv, TypeOK, StoreTypeOK, Row
<1>4. Leased(hand)'
  BY <1>1, <1>2, <1>3, JobStoreAssumption DEF Leased
<1>5. \A c : Leased(c) \/ Running(c) => c.id # j
  BY DEF Leased, Running, IsScheduled
<1>6. \A i \in 1..Len(queue) : Leased(queue[i]) /\ queue[i].id \in Job \ {j}
  <2>1. \A i \in 1..Len(queue) : Leased(queue[i])
    BY DEF OwnerInv, SoleOwner, CopiesMatch
  <2>2. \A i \in 1..Len(queue) : queue[i] \in Copy
    BY DEF OwnerInv, TypeOK, PoolTypeOK
  <2> QED
    BY <1>5, <2>1, <2>2 DEF Copy
<1>7. \A w \in Worker : Busy(w) =>
         (Leased(held[w]) \/ Running(held[w])) /\ held[w].id \in Job \ {j}
  BY <1>5 DEF OwnerInv, SoleOwner, CopiesMatch, TypeOK, PoolTypeOK, Copy, Busy, StartPc,
              Started, Storing
<1>8. CopiesMatch'
  <2>1. \A i \in 1..Len(queue)' : Leased(queue[i])'
    BY <1>1, <1>6 DEF Leased
  <2>2. \A w \in Worker : StartPc(w)' => Leased(held[w])'
    BY <1>1, <1>7
    DEF OwnerInv, SoleOwner, CopiesMatch, StartPc, Busy, workerVars, Leased
  <2>3. \A w \in Worker : wpc'[w] \in Started => Running(held[w])'
    BY <1>1, <1>7 DEF OwnerInv, SoleOwner, CopiesMatch, Busy, workerVars, Running
  <2> QED
    BY <1>4, <2>1, <2>2, <2>3 DEF CopiesMatch
<1>9. OneCopy'
  BY <1>1, <1>6, <1>7 DEF OwnerInv, SoleOwner, OneCopy, StartPc, Busy, workerVars
<1> QED
  BY <1>8, <1>9 DEF OwnerInv, SoleOwner, IdleWhenDown

LEMMA OwnerSend ==
  ASSUME OwnerInv, TypeOK', SendOk
  PROVE  OwnerInv'
<1>1. /\ HandFull /\ ~HandFull' /\ hand \in Copy /\ queue \in Seq(Copy)
      /\ queue' = Append(queue, hand)
      /\ UNCHANGED <<jobs, now, workerVars>> /\ spc' # "down"
  BY DEF SendOk, HandFull, storeVars, OwnerInv, TypeOK, PoolTypeOK, SchedulerTypeOK
<1>2. /\ Len(queue') = Len(queue) + 1
      /\ queue'[Len(queue) + 1] = hand
      /\ \A i \in 1..Len(queue) : queue'[i] = queue[i]
      /\ \A i \in 1..Len(queue') : i \in 1..Len(queue) \/ i = Len(queue) + 1
  BY <1>1
<1>3. CopiesMatch'
  <2>1. \A i \in 1..Len(queue)' : Leased(queue[i])'
    BY <1>1, <1>2 DEF OwnerInv, SoleOwner, CopiesMatch, Leased
  <2>2. \A w \in Worker : StartPc(w)' => Leased(held[w])'
    BY <1>1 DEF OwnerInv, SoleOwner, CopiesMatch, StartPc, workerVars, Leased
  <2>3. \A w \in Worker : wpc'[w] \in Started => Running(held[w])'
    BY <1>1 DEF OwnerInv, SoleOwner, CopiesMatch, workerVars, Running
  <2> QED
    BY <1>1, <2>1, <2>2, <2>3 DEF CopiesMatch
<1>4. OneCopy'
  <2>1. \A i, k \in 1..Len(queue)' : i # k => queue'[i].id # queue'[k].id
    BY <1>1, <1>2 DEF OwnerInv, SoleOwner, OneCopy
  <2>2. \A i \in 1..Len(queue)' : \A w \in Worker : StartPc(w)' => held'[w].id # queue'[i].id
    BY <1>1, <1>2 DEF OwnerInv, SoleOwner, OneCopy, StartPc, workerVars
  <2>3. \A v, w \in Worker : v # w /\ Busy(v)' /\ Busy(w)' => held'[v].id # held'[w].id
    BY <1>1 DEF OwnerInv, SoleOwner, OneCopy, Busy, workerVars
  <2> QED
    BY <1>1, <2>1, <2>2, <2>3 DEF OneCopy
<1> QED
  BY <1>1, <1>3, <1>4 DEF OwnerInv, SoleOwner, IdleWhenDown

LEMMA OwnerSchedule == ASSUME OwnerInv, TypeOK', Schedule PROVE OwnerInv'
<1>1. CASE RefreshHeap \/ WakeUp \/ Deadline \/ DispatchDone \/ SendFull \/ SendClosed \/ Renotify
  <2>1. /\ UNCHANGED <<jobs, now, queue, workerVars>>
        /\ spc # "down" /\ spc' # "down"
        /\ HandFull' => HandFull /\ hand' = hand
    BY <1>1 DEF RefreshHeap, WakeUp, Deadline, DispatchDone, SendFull, SendClosed,
                Renotify, ToSelect, HandFull, storeVars
  <2> QED
    BY <2>1, OwnerKeeps
<1>2. CASE Lease
  <2>1. PICK e \in Earliest :
          \/ /\ IsScheduled(e.id)
             /\ DbCall(LeaseJob(e.id),
                       spc' = "send" /\ hand' = CopyOf(e.id) /\ UNCHANGED dnow,
                       ToSelect)
          \/ DbCall(jobs, UNCHANGED <<spc, hand, dnow>>, ToSelect)
    BY <1>2 DEF Lease
  <2>2. e.id \in Job
    BY DEF Earliest, OwnerInv, TypeOK, SchedulerTypeOK, ScheduledJob
  <2>3. UNCHANGED <<now, queue, workerVars>> /\ spc = "dispatch" /\ ~HandFull
    BY <1>2 DEF Lease, HandFull
  <2>4. CASE /\ IsScheduled(e.id) /\ jobs' = LeaseJob(e.id)
             /\ spc' = "send" /\ hand' = CopyOf(e.id)
    BY <2>2, <2>3, <2>4, OwnerLease
  <2>5. CASE IsScheduled(e.id) /\ jobs' \in {jobs, LeaseJob(e.id)} /\ ToSelect
    <3>1. \A j \in Job : jobs'[j] # jobs[j] => IsScheduled(j)
      BY <2>5 DEF LeaseJob, OwnerInv, TypeOK, StoreTypeOK
    <3> QED
      BY <2>3, <2>5, <3>1, OwnerKeeps DEF ToSelect, HandFull
  <2>6. CASE jobs' = jobs /\ (ToSelect \/ UNCHANGED <<spc, hand, dnow>>)
    BY <2>3, <2>6, OwnerKeeps DEF ToSelect, HandFull
  <2> QED
    BY <2>1, <2>4, <2>5, <2>6 DEF DbCall
<1>3. CASE SendOk
  BY <1>3, OwnerSend
<1>4. CASE GiveBack
  <2>1. /\ UNCHANGED <<now, queue, workerVars>>
        /\ spc = "giveback" /\ HandFull /\ ~HandFull' /\ spc' # "down"
        /\ \A j \in Job : jobs'[j] # jobs[j] => j = hand.id
    BY <1>4 DEF GiveBack, DbCall, ScheduleRetry, ToSelect, HandFull, OwnerInv, TypeOK,
                StoreTypeOK
  <2> QED
    BY <2>1, OwnerKeeps
<1> QED
  BY <1>1, <1>2, <1>3, <1>4 DEF Schedule, SchedulerStep

-----------------------------------------------------------------------------
LEMMA OwnerNext ==
  ASSUME OwnerInv, TypeOK', [Next]_vars, TimelyPickup
  PROVE  OwnerInv'
<1>1. CASE UNCHANGED vars
  BY <1>1, OwnerFrame DEF vars, storeVars
<1>2. CASE StopWorkers
  BY <1>2, OwnerStop
<1> QED
  BY <1>1, <1>2, OwnerBoot, OwnerCrash, OwnerTick, OwnerSchedule, OwnerWork, OwnerReap,
     OwnerServe DEF Next

(* When leases outlast the wait for a worker, no two tasks ever have the   *)
(* same job, and what a task knows of its job is what the table says, for  *)
(* any number of jobs, workers, crashes, failing statements and panics.    *)
THEOREM OneOwnerPerJob ==
  ASSUME TimelyPickup
  PROVE  Spec => []SoleOwner
<1>1. Init => OwnerInv
  BY OwnerInit
<1>2. OwnerInv /\ [Next]_vars => OwnerInv'
  BY OwnerNext, TypeNext DEF OwnerInv
<1>3. OwnerInv => SoleOwner
  BY DEF OwnerInv
<1> QED
  BY <1>1, <1>2, <1>3, PTL DEF Spec

=============================================================================
