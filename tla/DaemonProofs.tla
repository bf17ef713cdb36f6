---------------------------- MODULE DaemonProofs ----------------------------
(***************************************************************************)
(* The webhook emitter and the graceful shutdown.  Both only refine the    *)
(* steps of the core, so that what is proved of Spec holds of the whole    *)
(* daemon; and what the endpoints are told is true, and told once.         *)
(***************************************************************************)
EXTENDS Shutdown, LifecycleProofs, WakeupProofs, SequenceTheorems

(* An emitter's step is the core's EmitWebhook, or none of its steps.      *)
LEMMA EmitIsWork ==
  ASSUME NEW w \in Worker, EmitStep(w)
  PROVE  UNCHANGED vars \/ (Work(w) /\ EmitWebhook(w))
<1>1. EmitReturns(w) => Work(w) /\ EmitWebhook(w)
  BY DEF EmitReturns, Work, WorkerStep
<1> QED
  BY <1>1 DEF EmitStep, EmitLoad, EmitSend, EmitStore

LEMMA HookIsCore == [HookNext]_<<vars, hookVars>> => [Next]_vars
<1> SUFFICES ASSUME [HookNext]_<<vars, hookVars>> PROVE [Next]_vars
  OBVIOUS
<1>1. CASE CoreStep
  BY <1>1 DEF CoreStep, WorkElsewhere, Next
<1>2. CASE HookCrash
  BY <1>2 DEF HookCrash, Next
<1>3. CASE \E w \in Worker : EmitStep(w)
  BY <1>3, EmitIsWork DEF Next
<1>4. CASE UNCHANGED <<vars, hookVars>>
  BY <1>4
<1> QED
  BY <1>1, <1>2, <1>3, <1>4 DEF HookNext

(* The daemon with its webhook emitter implements the daemon without.      *)
THEOREM EmitterRefinesCore == HookSpec => Spec
BY HookIsCore, PTL DEF HookSpec, Spec

LEMMA DaemonIsHook == [DaemonNext]_daemonVars => [HookNext]_<<vars, hookVars>>
<1> SUFFICES ASSUME [DaemonNext]_daemonVars PROVE [HookNext]_<<vars, hookVars>>
  OBVIOUS
<1>1. CASE Background /\ UNCHANGED <<hookVars, mainVars>>
  BY <1>1 DEF Background, HookNext, CoreStep
<1>2. ASSUME NEW w \in Worker, WorkCounted(w) /\ UNCHANGED <<hookVars, mainVars>>
      PROVE  HookNext
  BY <1>2 DEF WorkCounted, HookNext, CoreStep
<1>3. ASSUME NEW w \in Worker, EmitStep(w) PROVE HookNext
  BY <1>3 DEF HookNext
<1>4. ASSUME \/ \E w \in Worker : FetchAdd(w) \/ FetchSub(w)
             \/ Signal \/ Poll
      PROVE  UNCHANGED <<vars, hookVars>>
  BY <1>4 DEF FetchAdd, FetchSub, Signal, Poll
<1>5. CASE ServeReturns
  BY <1>5 DEF ServeReturns, HookNext, CoreStep
<1>6. CASE ProcessEnds
  BY <1>6 DEF ProcessEnds, HookNext
<1>7. CASE UNCHANGED daemonVars
  BY <1>7 DEF daemonVars
<1> QED
  BY <1>1, <1>2, <1>3, <1>4, <1>5, <1>6, <1>7 DEF DaemonNext

(* The whole daemon, with its counter of busy workers and its shutdown,    *)
(* implements the one that only crashes.                                   *)
THEOREM DaemonRefinesEmitter == DaemonSpec => HookSpec
BY DaemonIsHook, PTL DEF DaemonSpec, DaemonInit, HookSpec

-----------------------------------------------------------------------------
(* The invariant of the emitter.  A row that is not terminal has never     *)
(* been announced; a worker that emits has a terminal row of its own that  *)
(* nobody announced before, and its locals say what the endpoint got.      *)
FreshHook == [success |-> "NULL", attempts |-> 0]

FreshRows ==
  \A j \in Job :
    jobs[j].state \notin Terminal => hook[j] = FreshHook /\ received[j] = <<>>

Emits(w) == wpc[w] = "emit"

Locals(j, e) ==
  /\ e.at = "load" => received[j] = <<>>
  /\ e.at # "load" => e.event = jobs[j].state /\ Len(received[j]) <= e.attempts
  /\ e.at = "send" => e.attempts <= WebhookMaxRetries /\ e.success = "FALSE"
  /\ e.at = "store" /\ e.success = "TRUE" => received[j] # <<>>
  /\ e.at = "store" /\ e.success = "FALSE" => e.attempts > WebhookMaxRetries

EmittersMatch ==
  \A w \in Worker :
    /\ ~Emits(w) => emission[w] = NoEmission
    /\ Emits(w) => /\ jobs[held[w].id].state \in Terminal
                   /\ hook[held[w].id] = FreshHook
                   /\ Locals(held[w].id, emission[w])

OneEmitter ==
  \A v, w \in Worker : Emits(v) /\ Emits(w) /\ held[v].id = held[w].id => v = w

HookInv == HookTypeOK /\ FreshRows /\ EmittersMatch /\ OneEmitter /\ WebhookTruth

LEMMA HookInvInit == Init /\ HookInit => HookInv
<1> SUFFICES ASSUME Init, HookInit PROVE HookInv
  OBVIOUS
<1>1. HookTypeOK
  BY DEF HookInit, HookTypeOK, HookRow, Emission, NoEmission
<1>2. \A w \in Worker : ~Emits(w)
  BY DEF Init, PoolInit, Emits
<1>3. EmittersMatch /\ OneEmitter
  BY <1>2 DEF HookInit, EmittersMatch, OneEmitter
<1>4. \A j \in Job : hook[j] = FreshHook /\ received[j] = <<>> /\ Len(received[j]) = 0
  BY DEF HookInit, FreshHook
<1>5. FreshRows /\ WebhookTruth
  BY <1>4 DEF FreshRows, FreshHook, WebhookTruth
<1> QED
  BY <1>1, <1>3, <1>5 DEF HookInv

(* In the core, a worker that begins to emit has just stored a terminal    *)
(* state over its RUNNING job, and one that emits stays where it is.       *)
LEMMA EmitBegins ==
  ASSUME LifeInv, NEW w \in Worker, WorkElsewhere(w), wpc'[w] = "emit"
  PROVE  /\ Busy(w)
         /\ jobs[held[w].id].state = "RUNNING"
         /\ held' = held
         /\ held[w].id \in Job
         /\ jobs'[held[w].id].state \in Terminal
<1>1. TypeOK /\ CopiesMatch
  BY DEF LifeInv, OwnerInv, SoleOwner
<1>2. wpc \in [Worker -> WorkerPc] /\ jobs \in [Job -> Row]
  BY <1>1 DEF TypeOK, PoolTypeOK, StoreTypeOK
<1>3. PICK s \in {"COMPLETED", "EXPIRED", "DEAD_LETTER"} :
        /\ wpc[w] \in Storing
        /\ jobs' = SetState(held[w].id, s)
        /\ held' = held
  <2>1. ~NextTurn(w) /\ \A pc \in WorkerPc \ {"emit"} : ~GoTo(w, pc)
    BY <1>2 DEF NextTurn, GoTo
  <2>2. ~Receive(w) /\ ~Exit(w) /\ ~ExecutePanics(w)
    BY <1>2 DEF Receive, Exit, ExecutePanics
  <2>3. ~SetRunning(w) /\ ~StoreRetry(w) /\ ~NotifyRetry(w) /\ ~ExecuteOk(w) /\ ~EmitWebhook(w)
    BY <2>1
    DEF SetRunning, StoreRetry, NotifyRetry, ExecuteOk, EmitWebhook, DbCall, WorkerPc, Started,
        Storing
  <2>4. ~ExecuteFailed(w)
    <3>1. wpc' # [wpc EXCEPT ![w] = "retry"]
      BY <1>2
    <3>2. ~GoTo(w, "expire") /\ ~GoTo(w, "deadletter")
      BY <2>1 DEF WorkerPc, Started, Storing
    <3> QED
      BY <3>1, <3>2 DEF ExecuteFailed
  <2>5. StoreCompleted(w) \/ StoreExpired(w) \/ StoreDeadLetter(w)
    BY <2>2, <2>3, <2>4 DEF WorkElsewhere, Work, WorkerStep
  <2>6. ASSUME NEW pc \in Storing, NEW s \in {"COMPLETED", "EXPIRED", "DEAD_LETTER"},
               StoreTerminal(w, pc, s)
        PROVE  wpc[w] \in Storing /\ jobs' = SetState(held[w].id, s) /\ held' = held
    BY <2>1, <2>6 DEF StoreTerminal, DbCall, GoTo
  <2> QED
    BY <2>5, <2>6 DEF StoreCompleted, StoreExpired, StoreDeadLetter, Storing
<1>4. jobs[held[w].id].state = "RUNNING" /\ held[w].id \in Job
  <2>1. wpc[w] \in Started /\ wpc[w] \notin {"recv", "gone"}
    BY <1>3 DEF Started, Storing
  <2>2. held[w] \in Copy
    BY <1>1, <2>1 DEF TypeOK, PoolTypeOK
  <2> QED
    BY <1>1, <2>1, <2>2 DEF CopiesMatch, Running, Copy
<1>5. jobs'[held[w].id].state = s
  BY <1>2, <1>3, <1>4 DEF SetState
<1> QED
  BY <1>3, <1>4, <1>5 DEF Terminal, Busy, Started

(* A worker's step leaves the other workers where they are.                *)
OnlyMoves(w) == \A u \in Worker \ {w} : wpc'[u] = wpc[u] /\ held'[u] = held[u]

LEMMA WorkMovesOne == ASSUME TypeOK, NEW w \in Worker, Work(w) PROVE OnlyMoves(w)
<1>1. wpc \in [Worker -> WorkerPc] /\ DOMAIN held = Worker
  BY DEF TypeOK, PoolTypeOK
<1>2. NextTurn(w) => OnlyMoves(w)
  BY <1>1 DEF NextTurn, OnlyMoves
<1>3. \A pc : GoTo(w, pc) => OnlyMoves(w)
  BY <1>1 DEF GoTo, OnlyMoves
<1>4. Receive(w) \/ Exit(w) \/ ExecutePanics(w) => OnlyMoves(w)
  BY <1>1 DEF Receive, Exit, ExecutePanics, OnlyMoves
<1>5. SetRunning(w) \/ NotifyRetry(w) \/ EmitWebhook(w) \/ ExecuteOk(w) => OnlyMoves(w)
  BY <1>2, <1>3 DEF SetRunning, NotifyRetry, EmitWebhook, ExecuteOk, DbCall
<1>6. ExecuteFailed(w) => OnlyMoves(w)
  <2>1. wpc' = [wpc EXCEPT ![w] = "retry"] /\ UNCHANGED <<held, told>> => OnlyMoves(w)
    BY <1>1 DEF OnlyMoves
  <2> QED
    BY <1>3, <2>1 DEF ExecuteFailed
<1>7. StoreRetry(w) => OnlyMoves(w)
  BY <1>2, <1>3 DEF StoreRetry, DbCall
<1>8. \A pc, s : StoreTerminal(w, pc, s) => OnlyMoves(w)
  BY <1>2, <1>3 DEF StoreTerminal, DbCall
<1> QED
  BY <1>4, <1>5, <1>6, <1>7, <1>8
  DEF Work, WorkerStep, StoreCompleted, StoreExpired, StoreDeadLetter

(* The other tasks leave all workers where they are.                       *)
LEMMA OthersMoveNone ==
  ASSUME Boot \/ StopWorkers \/ Tick \/ Schedule \/ Reap \/ Serve
  PROVE  UNCHANGED <<wpc, held>>
BY DEF Boot, StopWorkers, NotifyWaiters, Tick, Schedule, SchedulerStep, RefreshHeap, WakeUp,
       Deadline, DispatchDone, Lease, SendOk, SendFull, SendClosed, GiveBack, Renotify,
       ToSelect, Reap, Serve, workerVars

LEMMA EmittersFrame ==
  ASSUME LifeInv, CoreStep, NEW v \in Worker
  PROVE  /\ wpc[v] = "emit" => wpc'[v] = "emit" /\ held'[v] = held[v]
         /\ wpc[v] # "emit" /\ wpc'[v] = "emit" =>
              /\ Busy(v)
              /\ jobs[held[v].id].state = "RUNNING"
              /\ held'[v] = held[v]
              /\ held[v].id \in Job
              /\ jobs'[held[v].id].state \in Terminal
<1>1. CASE UNCHANGED <<wpc, held>>
  BY <1>1
<1>2. ASSUME NEW w \in Worker, WorkElsewhere(w)
      PROVE  wpc[w] # "emit" /\ OnlyMoves(w)
  BY <1>2, WorkMovesOne DEF WorkElsewhere, LifeInv, OwnerInv
<1>3. CASE \E w \in Worker : WorkElsewhere(w)
  <2>1. PICK w \in Worker : WorkElsewhere(w)
    BY <1>3
  <2>2. CASE v = w
    BY <1>2, <2>1, <2>2, EmitBegins
  <2>3. CASE v # w
    BY <1>2, <2>1, <2>3 DEF OnlyMoves
  <2> QED
    BY <2>2, <2>3
<1>4. CASE Boot \/ StopWorkers \/ Tick \/ Schedule \/ Reap \/ Serve
  BY <1>1, <1>4, OthersMoveNone
<1> QED
  BY <1>3, <1>4 DEF CoreStep

LEMMA CoreKeepsHook ==
  ASSUME LifeInv, HookInv, CoreStep, UNCHANGED hookVars
  PROVE  HookInv'
<1> USE DEF hookVars
<1>1. \A j \in Job : jobs[j].state \in Terminal => jobs'[j] = jobs[j]
  BY TerminalStep, HookIsCore DEF HookNext
<1>2. FreshRows'
  BY <1>1 DEF HookInv, FreshRows
<1>3. ASSUME NEW v \in Worker, wpc'[v] = "emit", wpc[v] # "emit"
      PROVE  /\ emission[v] = NoEmission
             /\ hook[held[v].id] = FreshHook
             /\ received[held[v].id] = <<>>
  BY <1>3, EmittersFrame DEF HookInv, EmittersMatch, Emits, FreshRows, Terminal
<1>4. EmittersMatch'
  <2> SUFFICES ASSUME NEW v \in Worker
      PROVE  /\ wpc'[v] # "emit" => emission[v] = NoEmission
             /\ wpc'[v] = "emit" => /\ jobs'[held'[v].id].state \in Terminal
                                   /\ hook[held'[v].id] = FreshHook
                                   /\ Locals(held[v].id, emission[v])'
    BY EmittersFrame DEF EmittersMatch, Emits, Locals
  <2>1. CASE wpc'[v] # "emit"
    BY <2>1, EmittersFrame DEF HookInv, EmittersMatch, Emits
  <2>2. CASE wpc'[v] = "emit" /\ wpc[v] # "emit"
    BY <1>3, <2>2, EmittersFrame DEF Locals, NoEmission
  <2>3. CASE wpc'[v] = "emit" /\ wpc[v] = "emit"
    <3>1. held'[v] = held[v] /\ held[v].id \in Job
      BY <2>3, EmittersFrame DEF LifeInv, OwnerInv, TypeOK, PoolTypeOK, Copy
    <3>2. /\ jobs[held[v].id].state \in Terminal
          /\ hook[held[v].id] = FreshHook
          /\ Locals(held[v].id, emission[v])
      BY <2>3 DEF HookInv, EmittersMatch, Emits
    <3> QED
      BY <1>1, <2>3, <3>1, <3>2 DEF Locals
  <2> QED
    BY <2>1, <2>2, <2>3
<1>5. OneEmitter'
  <2> SUFFICES ASSUME NEW v \in Worker, NEW w \in Worker, wpc'[v] = "emit", wpc'[w] = "emit",
                      held'[v].id = held'[w].id, v # w
               PROVE  FALSE
    BY DEF OneEmitter, Emits
  <2>1. held'[v] = held[v] /\ held'[w] = held[w]
    BY EmittersFrame
  <2>2. CASE wpc[v] = "emit" /\ wpc[w] = "emit"
    BY <2>1, <2>2 DEF HookInv, OneEmitter, Emits
  <2>3. CASE wpc[v] # "emit" /\ wpc[w] # "emit"
    <3>1. Busy(v) /\ Busy(w)
      BY <2>3, EmittersFrame
    <3> QED
      BY <2>1, <3>1 DEF LifeInv, OwnerInv, SoleOwner, OneCopy
  <2>4. ASSUME NEW x \in Worker, NEW y \in Worker, wpc[x] = "emit",
               wpc'[y] = "emit", wpc[y] # "emit"
        PROVE  held[x].id # held[y].id
    BY <2>4, EmittersFrame DEF HookInv, EmittersMatch, Emits, Terminal
  <2> QED
    BY <2>1, <2>2, <2>3, <2>4
<1>6. WebhookTruth'
  <2> SUFFICES ASSUME NEW j \in Job
               PROVE  \A i \in 1..Len(received[j]) : received[j][i] = jobs'[j].state
    BY DEF HookInv, WebhookTruth
  <2>1. CASE jobs[j].state \in Terminal
    BY <1>1, <2>1 DEF HookInv, WebhookTruth
  <2>2. CASE jobs[j].state \notin Terminal
    BY <2>2 DEF HookInv, FreshRows
  <2> QED
    BY <2>1, <2>2
<1> QED
  BY <1>2, <1>4, <1>5, <1>6 DEF HookInv, HookTypeOK

LEMMA CrashKeepsHook == ASSUME HookInv, HookCrash PROVE HookInv'
<1>1. jobs' = jobs /\ UNCHANGED <<hook, received>> /\ emission' = [w \in Worker |-> NoEmission]
  BY DEF HookCrash, Crash, storeVars
<1>2. \A w \in Worker : wpc'[w] # "emit"
  BY DEF HookCrash, Crash
<1>3. HookTypeOK'
  BY <1>1 DEF HookInv, HookTypeOK, Emission, NoEmission
<1> QED
  BY <1>1, <1>2, <1>3
  DEF HookInv, FreshRows, EmittersMatch, OneEmitter, Emits, WebhookTruth

(* What one emitter does, it does to its own job: the others' locals, rows *)
(* and endpoints stay as they are.                                         *)
LEMMA EmitFrame ==
  ASSUME TypeOK, HookInv, NEW w \in Worker, EmitStep(w)
  PROVE  /\ wpc[w] = "emit" /\ held[w].id \in Job
         /\ jobs' = jobs
         /\ \A u \in Worker \ {w} :
              wpc'[u] = wpc[u] /\ held'[u] = held[u] /\ emission'[u] = emission[u]
         /\ \A j \in Job \ {held[w].id} : hook'[j] = hook[j] /\ received'[j] = received[j]
         /\ \/ wpc' = wpc /\ held' = held
            \/ wpc'[w] # "emit" /\ emission'[w] = NoEmission
<1>1. wpc[w] = "emit"
  BY DEF EmitStep, EmitLoad, EmitSend, EmitStore, Emitting
<1>2. held[w].id \in Job
  BY <1>1 DEF TypeOK, PoolTypeOK, Copy
<1>3. /\ wpc \in [Worker -> WorkerPc] /\ DOMAIN held = Worker
      /\ emission \in [Worker -> Emission]
      /\ DOMAIN hook = Job /\ DOMAIN received = Job
  BY DEF TypeOK, PoolTypeOK, HookInv, HookTypeOK
<1>4. jobs' = jobs
  BY DEF EmitStep, EmitLoad, EmitSend, EmitStore, EmitReturns, EmitWebhook, DbCall, vars,
         storeVars
<1>5. UNCHANGED <<wpc, held>> \/ (NextTurn(w) /\ emission' = [emission EXCEPT ![w] = NoEmission])
  BY DEF EmitStep, EmitLoad, EmitSend, EmitStore, EmitReturns, EmitWebhook, DbCall, vars,
         workerVars
<1>6. NextTurn(w) => /\ wpc'[w] # "emit"
                     /\ \A u \in Worker \ {w} : wpc'[u] = wpc[u] /\ held'[u] = held[u]
  BY <1>3 DEF NextTurn
<1>7. \A u \in Worker \ {w} : emission'[u] = emission[u]
  BY <1>3 DEF EmitStep, EmitLoad, EmitSend, EmitStore, EmitReturns
<1>8. \A j \in Job \ {held[w].id} : hook'[j] = hook[j] /\ received'[j] = received[j]
  BY <1>3 DEF EmitStep, EmitLoad, EmitSend, EmitStore, UpdateWebhookResult, Got
<1> QED
  BY <1>1, <1>2, <1>3, <1>4, <1>5, <1>6, <1>7, <1>8

(* What the emitter of job j leaves behind.                                *)
Own(w, j) ==
  /\ hook[j] \in HookRow
  /\ received[j] \in Seq(Terminal)
  /\ emission[w] \in Emission
  /\ Emits(w) => hook[j] = FreshHook /\ Locals(j, emission[w])
  /\ \A i \in 1..Len(received[j]) : received[j][i] = jobs[j].state
  /\ received[j] # <<>> => Len(received[j]) <= WebhookMaxRetries + 1
  /\ hook[j].success = "TRUE" => received[j] # <<>>
  /\ hook[j].success = "FALSE" => hook[j].attempts > WebhookMaxRetries

(* A repeated event more.                                                  *)
LEMMA AppendEvent ==
  ASSUME NEW S, NEW s \in Seq(S), NEW x \in S, \A i \in 1..Len(s) : s[i] = x
  PROVE  /\ Append(s, x) \in Seq(S) /\ Append(s, x) # <<>>
         /\ Len(s) \in Nat /\ Len(Append(s, x)) = Len(s) + 1
         /\ \A i \in 1..Len(Append(s, x)) : Append(s, x)[i] = x
<1>1. Len(s) \in Nat
  OBVIOUS
<1>2. /\ Append(s, x) \in Seq(S) /\ Append(s, x) # <<>>
      /\ Len(Append(s, x)) = Len(s) + 1
      /\ \A i \in 1..Len(s) : Append(s, x)[i] = s[i]
      /\ Append(s, x)[Len(s) + 1] = x
  BY AppendProperties
<1>3. \A i \in 1..(Len(s) + 1) : i \in 1..Len(s) \/ i = Len(s) + 1
  BY <1>1
<1> QED
  BY <1>1, <1>2, <1>3

LEMMA EmitOwn ==
  ASSUME TypeOK, HookInv, NEW w \in Worker, EmitStep(w), NEW j \in Job, j = held[w].id
  PROVE  Own(w, j)'
<1> DEFINE e == emission[w]
           n == e.attempts + 1
<1>1. /\ wpc[w] = "emit" /\ jobs' = jobs /\ jobs[j].state \in Terminal
      /\ hook[j] = FreshHook /\ Locals(j, e)
  BY EmitFrame DEF HookInv, EmittersMatch, Emits
<1>2. /\ emission \in [Worker -> Emission] /\ hook \in [Job -> HookRow]
      /\ received \in [Job -> Seq(Terminal)]
      /\ e \in Emission /\ e.attempts \in Nat /\ n \in Nat /\ WebhookMaxRetries \in Int
  BY WebhookAssumption DEF HookInv, HookTypeOK, Emission
<1>3. /\ \A i \in 1..Len(received[j]) : received[j][i] = jobs[j].state
      /\ received[j] # <<>> => Len(received[j]) <= WebhookMaxRetries + 1
  BY DEF HookInv, WebhookTruth
<1>4. /\ hook[j].success = "NULL" /\ hook[j].attempts = 0 /\ hook[j] \in HookRow
      /\ received[j] \in Seq(Terminal)
  BY <1>1, <1>2 DEF FreshHook
<1>5. CASE EmitLoad(w)
  <2>1. UNCHANGED <<hook, received>> /\ e.at = "load" /\ received[j] = <<>>
    BY <1>1, <1>5 DEF EmitLoad, Emitting, Locals
  <2>2. CASE emission' = [emission EXCEPT ![w] = NoEmission] /\ wpc'[w] # "emit"
    <3>1. emission'[w] \in Emission
      BY <1>2, <2>2 DEF Emission, NoEmission
    <3> QED
      BY <1>1, <1>3, <1>4, <2>1, <2>2, <3>1 DEF Own, Emits
  <2>3. CASE emission' = [emission EXCEPT ![w] =
               [at |-> LoopHead(0), event |-> jobs[j].state, attempts |-> 0,
                success |-> "FALSE"]]
    <3>1. emission'[w] = [at |-> LoopHead(0), event |-> jobs[j].state, attempts |-> 0,
                          success |-> "FALSE"]
      BY <1>2, <2>3
    <3>2. LoopHead(0) \in {"send", "store"} /\ (LoopHead(0) = "send" <=> 0 <= WebhookMaxRetries)
      BY DEF LoopHead
    <3>3. emission'[w] \in Emission
      BY <1>1, <3>1, <3>2 DEF Emission
    <3>4. Locals(j, emission[w])'
      BY <1>1, <1>2, <2>1, <3>1, <3>2 DEF Locals
    <3> QED
      BY <1>1, <1>3, <1>4, <2>1, <3>3, <3>4 DEF Own, Emits
  <2>4. EmitReturns(w) => emission' = [emission EXCEPT ![w] = NoEmission] /\ wpc'[w] # "emit"
    BY DEF EmitReturns, EmitWebhook, DbCall, NextTurn, TypeOK, PoolTypeOK
  <2> QED
    BY <1>4, <1>5, <2>2, <2>3, <2>4 DEF EmitLoad
<1>6. CASE EmitSend(w)
  <2>1. /\ e.event = jobs[j].state /\ Len(received[j]) <= e.attempts
        /\ n <= WebhookMaxRetries + 1 /\ hook' = hook /\ e.success = "FALSE"
    BY <1>1, <1>2, <1>6 DEF EmitSend, Emitting, Locals
  <2>2. /\ Append(received[j], e.event) \in Seq(Terminal)
        /\ Append(received[j], e.event) # <<>>
        /\ Len(received[j]) \in Nat
        /\ Len(Append(received[j], e.event)) = Len(received[j]) + 1
        /\ \A i \in 1..Len(Append(received[j], e.event)) :
             Append(received[j], e.event)[i] = jobs[j].state
    BY <1>1, <1>3, <1>4, <2>1, AppendEvent
  <2>3. received'[j] = received[j] \/ received'[j] = Append(received[j], e.event)
    BY <1>2, <1>6 DEF EmitSend, Got
  <2>4. /\ received'[j] \in Seq(Terminal)
        /\ \A i \in 1..Len(received'[j]) : received'[j][i] = jobs[j].state
        /\ Len(received'[j]) <= n
        /\ received'[j] # <<>> => Len(received'[j]) <= WebhookMaxRetries + 1
    <3>1. CASE received'[j] = received[j]
      BY <1>2, <1>3, <1>4, <2>1, <2>2, <3>1
    <3>2. CASE received'[j] = Append(received[j], e.event)
      <4> HIDE DEF n
      <4>1. Len(received[j]) + 1 <= n
        BY <1>2, <2>1, <2>2 DEF n
      <4> QED
        BY <1>2, <2>1, <2>2, <3>2, <4>1
    <3> QED
      BY <2>3, <3>1, <3>2
  <2>5. CASE /\ emission' = [emission EXCEPT ![w] =
                   [e EXCEPT !.at = "store", !.attempts = n, !.success = "TRUE"]]
             /\ received'[j] = Append(received[j], e.event)
    <3>1. /\ emission'[w] \in Emission /\ emission'[w].at = "store"
          /\ emission'[w].success = "TRUE" /\ emission'[w].attempts = n
          /\ emission'[w].event = e.event
      BY <1>2, <2>5 DEF Emission
    <3>2. received'[j] # <<>>
      BY <2>2, <2>5
    <3>3. Locals(j, emission[w])'
      BY <1>1, <2>1, <2>4, <3>1, <3>2 DEF Locals
    <3> QED
      BY <1>1, <1>4, <2>1, <2>4, <3>1, <3>3 DEF Own, Emits
  <2>6. CASE emission' = [emission EXCEPT ![w] =
                 [e EXCEPT !.at = LoopHead(n), !.attempts = n]]
    <3>1. LoopHead(n) \in {"send", "store"} /\ (LoopHead(n) = "send" <=> n <= WebhookMaxRetries)
      BY DEF LoopHead
    <3>2. /\ emission'[w] \in Emission /\ emission'[w].at = LoopHead(n)
          /\ emission'[w].success = "FALSE" /\ emission'[w].attempts = n
          /\ emission'[w].event = e.event
      BY <1>2, <2>1, <2>6, <3>1 DEF Emission
    <3>3. Locals(j, emission[w])'
      BY <1>1, <1>2, <2>1, <2>4, <3>1, <3>2 DEF Locals
    <3> QED
      BY <1>1, <1>4, <2>1, <2>4, <3>2, <3>3 DEF Own, Emits
  <2> QED
    BY <1>2, <1>6, <2>5, <2>6 DEF EmitSend, Got
<1>7. CASE EmitStore(w)
  <2>1. /\ received' = received /\ e.at = "store" /\ wpc'[w] # "emit"
        /\ emission'[w] = NoEmission
        /\ hook' = hook \/ hook' = UpdateWebhookResult(j, e)
    BY <1>2, <1>7, EmitFrame DEF EmitStore, EmitReturns, Emitting, EmitWebhook, DbCall, NextTurn,
                                 TypeOK, PoolTypeOK
  <2>2. emission'[w] \in Emission
    BY <2>1 DEF Emission, NoEmission
  <2>3. CASE hook' = hook
    BY <1>1, <1>3, <1>4, <2>1, <2>2, <2>3 DEF Own, Emits
  <2>4. CASE hook' = UpdateWebhookResult(j, e)
    <3>1. hook'[j] = [success |-> e.success, attempts |-> e.attempts]
      BY <1>2, <2>4 DEF UpdateWebhookResult
    <3>2. hook'[j] \in HookRow
      BY <1>2, <3>1 DEF HookRow, Emission
    <3> QED
      BY <1>1, <1>3, <1>4, <2>1, <2>2, <3>1, <3>2 DEF Own, Emits, Locals
  <2> QED
    BY <2>1, <2>3, <2>4
<1> QED
  BY <1>5, <1>6, <1>7 DEF EmitStep

LEMMA EmitKeepsHook ==
  ASSUME TypeOK, HookInv, NEW w \in Worker, EmitStep(w)
  PROVE  HookInv'
<1> SUFFICES ASSUME NEW h \in Job, h = held[w].id PROVE HookInv'
  BY EmitFrame
<1>1. /\ wpc[w] = "emit" /\ jobs' = jobs
      /\ \A u \in Worker \ {w} :
           wpc'[u] = wpc[u] /\ held'[u] = held[u] /\ emission'[u] = emission[u]
      /\ \A j \in Job \ {h} : hook'[j] = hook[j] /\ received'[j] = received[j]
      /\ \/ wpc' = wpc /\ held' = held
         \/ wpc'[w] # "emit" /\ emission'[w] = NoEmission
  BY EmitFrame
<1>2. Own(w, h)'
  BY <1>1, EmitOwn
<1>3. jobs[h].state \in Terminal
  BY <1>1 DEF HookInv, EmittersMatch, Emits
<1>4. HookTypeOK'
  <2>1. /\ hook' = [j \in Job |-> hook'[j]] /\ received' = [j \in Job |-> received'[j]]
        /\ emission' = [u \in Worker |-> emission'[u]]
    BY DEF EmitStep, EmitLoad, EmitSend, EmitStore, EmitReturns, UpdateWebhookResult, Got,
           HookInv, HookTypeOK
  <2>2. \A j \in Job : hook'[j] \in HookRow /\ received'[j] \in Seq(Terminal)
    BY <1>1, <1>2 DEF Own, HookInv, HookTypeOK
  <2>3. \A u \in Worker : emission'[u] \in Emission
    BY <1>1, <1>2 DEF Own, HookInv, HookTypeOK
  <2> QED
    BY <2>1, <2>2, <2>3 DEF HookTypeOK
<1>5. FreshRows'
  BY <1>1, <1>3 DEF HookInv, FreshRows
<1>6. EmittersMatch'
  <2> SUFFICES ASSUME NEW u \in Worker
      PROVE  /\ wpc'[u] # "emit" => emission'[u] = NoEmission
             /\ wpc'[u] = "emit" => /\ jobs'[held'[u].id].state \in Terminal
                                   /\ hook'[held'[u].id] = FreshHook
                                   /\ Locals(held[u].id, emission[u])'
    BY DEF EmittersMatch, Emits
  <2>1. CASE u = w
    BY <1>1, <1>2, <1>3, <2>1 DEF Own, Emits, Locals
  <2>2. CASE u # w /\ wpc[u] # "emit"
    BY <1>1, <2>2 DEF HookInv, EmittersMatch, Emits
  <2>3. CASE u # w /\ wpc[u] = "emit"
    <3>1. held[u].id \in Job \ {h}
      BY <1>1, <2>3 DEF HookInv, OneEmitter, Emits, TypeOK, PoolTypeOK, Copy
    <3> QED
      BY <1>1, <2>3, <3>1 DEF HookInv, EmittersMatch, Emits, Locals
  <2> QED
    BY <2>1, <2>2, <2>3
<1>7. OneEmitter'
  BY <1>1 DEF HookInv, OneEmitter, Emits
<1>8. WebhookTruth'
  BY <1>1, <1>2 DEF Own, HookInv, WebhookTruth
<1> QED
  BY <1>4, <1>5, <1>6, <1>7, <1>8 DEF HookInv

LEMMA HookStep ==
  ASSUME LifeInv, HookInv, [HookNext]_<<vars, hookVars>>
  PROVE  HookInv'
<1>1. CASE CoreStep /\ UNCHANGED hookVars
  BY <1>1, CoreKeepsHook
<1>2. CASE HookCrash
  BY <1>2, CrashKeepsHook
<1>3. CASE \E w \in Worker : EmitStep(w)
  BY <1>3, EmitKeepsHook DEF LifeInv, OwnerInv
<1>4. CASE UNCHANGED <<vars, hookVars>>
  BY <1>4
  DEF vars, storeVars, workerVars, hookVars, HookInv, HookTypeOK, FreshRows, EmittersMatch,
      OneEmitter, Emits, Locals, WebhookTruth
<1> QED
  BY <1>1, <1>2, <1>3, <1>4 DEF HookNext

-----------------------------------------------------------------------------
LEMMA HookInvariant ==
  ASSUME TimelyPickup
  PROVE  HookSpec => [](LifeInv /\ HookInv)
<1>1. LifeInv /\ HookInv /\ [HookNext]_<<vars, hookVars>> => LifeInv' /\ HookInv'
  BY HookStep, HookIsCore, LifeNext
<1> QED
  BY <1>1, LifeInit, HookInvInit, PTL DEF HookSpec

(* What the endpoints are told is true, whatever fails and whenever the    *)
(* process ends.                                                           *)
THEOREM EndpointsHearTheTruth ==
  ASSUME TimelyPickup
  PROVE  DaemonSpec => []WebhookTruth
<1>1. HookInv => WebhookTruth
  BY DEF HookInv
<1> QED
  BY <1>1, HookInvariant, DaemonRefinesEmitter, PTL

LEMMA OutcomeStep ==
  ASSUME TypeOK, HookInv, [HookNext]_<<vars, hookVars>>, NEW j \in Job, hook[j].success # "NULL"
  PROVE  hook'[j] = hook[j]
<1>1. CASE \E w \in Worker : EmitStep(w)
  <2>1. PICK w \in Worker : EmitStep(w)
    BY <1>1
  <2>2. wpc[w] = "emit" /\ \A i \in Job \ {held[w].id} : hook'[i] = hook[i]
    BY <2>1, EmitFrame
  <2>3. hook[held[w].id].success = "NULL"
    BY <2>2 DEF HookInv, EmittersMatch, Emits, FreshHook
  <2> QED
    BY <2>2, <2>3
<1>2. CASE UNCHANGED hook
  BY <1>2
<1> QED
  BY <1>1, <1>2 DEF HookNext, HookCrash, hookVars

(* The recorded outcome of a callback is final.                            *)
THEOREM OutcomesAreFinal ==
  ASSUME TimelyPickup
  PROVE  DaemonSpec => WebhookResultFinal
<1>1. LifeInv /\ HookInv /\ [HookNext]_<<vars, hookVars>> =>
        [\A j \in Job : hook[j].success # "NULL" => hook'[j] = hook[j]]_<<vars, hookVars>>
  BY OutcomeStep DEF LifeInv, OwnerInv
<1> QED
  BY <1>1, HookInvariant, DaemonRefinesEmitter, PTL DEF HookSpec, WebhookResultFinal

-----------------------------------------------------------------------------
(* Draining.  Rows never fall back behind the copies of them that workers  *)
(* hold, so a run is over for good when its row has a higher attempt       *)
(* number or is terminal with its callback's outcome recorded; until then, *)
(* when nothing fails, a counted worker is busy with it.                   *)
InTurn(w) == wpc[w] \notin {"recv", "gone"}

TurnsOld ==
  \A w \in Worker : InTurn(w) =>
    /\ jobs[held[w].id].state # "ABSENT"
    /\ held[w].attempt <= jobs[held[w].id].attempt
    /\ wpc[w] = "notify" => held[w].attempt < jobs[held[w].id].attempt

Reported(j) == jobs[j].state \in Terminal /\ (j \in Announced => hook[j].success # "NULL")

Over(u) == jobs[u.id].attempt = u.attempt => Reported(u.id)

Handles(w, u) ==
  w \in counted /\ InTurn(w) /\ held[w].id = u.id /\ held[w].attempt = u.attempt

Behind(u) == jobs[u.id].state # "ABSENT" /\ u.attempt <= jobs[u.id].attempt

Drains(u) ==
  /\ Behind(u)
  /\ Over(u) \/ (phase # "drained" /\ \E w \in Worker : Handles(w, u))

MainTypeOK ==
  /\ phase \in MainPc
  /\ counted \subseteq Worker
  /\ polls \in 0..MaxPolls
  /\ underway \subseteq [id : Job, attempt : Nat]

DrainInv ==
  /\ MainTypeOK
  /\ Budget
  /\ phase \in {"serve", "closing"} => underway = {}
  /\ NothingFailed => \A u \in underway : Drains(u)

LEMMA AttemptsGrow ==
  ASSUME LifeInv, [Next]_vars, NEW j \in Job, jobs[j].state # "ABSENT"
  PROVE  /\ jobs'[j].state # "ABSENT"
         /\ jobs[j].attempt \in Nat /\ jobs'[j].attempt \in Nat
         /\ jobs[j].attempt <= jobs'[j].attempt
<1>1. Effect /\ jobs \in [Job -> Row] /\ jobs[j].attempt \in Nat
  BY StepEffect DEF LifeInv, OwnerInv, TypeOK, StoreTypeOK, Row
<1>2. CASE jobs' = jobs
  BY <1>1, <1>2
<1>3. CASE jobs' \in {RecoverOnStartup, ReapExpiredLeases}
  <2>1. jobs'[j] \in {jobs[j], Reclaimed(jobs[j])}
    BY <1>3 DEF RecoverOnStartup, ReapExpiredLeases
  <2>2. /\ Reclaimed(jobs[j]).state = "SCHEDULED"
        /\ Reclaimed(jobs[j]).attempt = jobs[j].attempt
    BY <1>1 DEF Reclaimed, Row
  <2> QED
    BY <1>1, <2>1, <2>2
<1>4. ASSUME NEW i \in Job, RowEffect(i)
      PROVE  /\ jobs'[j].state # "ABSENT"
             /\ jobs'[j].attempt \in {jobs[j].attempt, jobs[j].attempt + 1}
  <2>1. CASE i # j
    BY <1>1, <1>4, <2>1
    DEF RowEffect, InsertJob, CancelJob, LeaseJob, SetState, ScheduleRetry
  <2>2. ASSUME NEW s \in JobState, jobs' = SetState(j, s)
        PROVE  jobs'[j].state # "ABSENT" /\ jobs'[j].attempt = jobs[j].attempt
    BY <1>1, <2>2 DEF SetState, Row, JobState, Terminal
  <2>3. CASE jobs' = LeaseJob(j)
    BY <1>1, <2>3 DEF LeaseJob, Row
  <2>4. ASSUME NEW at, NEW n, jobs' = ScheduleRetry(j, at, n)
        PROVE  jobs'[j].state # "ABSENT" /\ jobs'[j].attempt = n
    BY <1>1, <2>4 DEF ScheduleRetry
  <2>5. CASE i = j
    BY <1>4, <2>2, <2>3, <2>4, <2>5 DEF RowEffect, CancelJob, JobState, Terminal
  <2> QED
    BY <2>1, <2>5
<1> QED
  BY <1>1, <1>2, <1>3, <1>4 DEF Effect

(* How a worker comes into a turn, and what it holds during the turn.      *)
LEMMA WorkTurn ==
  ASSUME LifeInv, NEW w \in Worker, Work(w), InTurn(w)'
  PROVE  \/ /\ wpc'[w] = "start"
            /\ held'[w] \in Copy /\ Leased(held'[w]) /\ jobs' = jobs
         \/ /\ InTurn(w) /\ held'[w] = held[w]
            /\ wpc'[w] = "notify" => jobs'[held[w].id].attempt = held[w].attempt + 1
<1>1. /\ wpc \in [Worker -> WorkerPc] /\ held \in [Worker -> Copy \cup {Null}]
      /\ queue \in Seq(Copy) /\ jobs \in [Job -> Row]
  BY DEF LifeInv, OwnerInv, TypeOK, PoolTypeOK, StoreTypeOK
<1>2. ~NextTurn(w)
  BY <1>1 DEF NextTurn, InTurn
<1>3. ASSUME NEW pc, GoTo(w, pc) PROVE wpc'[w] = pc /\ held'[w] = held[w]
  BY <1>1, <1>3 DEF GoTo
<1>4. CASE Receive(w)
  <2>1. Head(queue) \in Copy /\ Leased(Head(queue))
    <3>1. Len(queue) \in Nat /\ Len(queue) # 0 /\ Head(queue) = queue[1]
      BY <1>1, <1>4 DEF Receive
    <3>2. 1 \in 1..Len(queue)
      BY <3>1
    <3> QED
      BY <1>1, <3>1, <3>2 DEF LifeInv, OwnerInv, SoleOwner, CopiesMatch
  <2> QED
    BY <1>1, <1>4, <2>1 DEF Receive, storeVars
<1>5. CASE Exit(w) \/ ExecutePanics(w)
  BY <1>1, <1>5 DEF Exit, ExecutePanics, InTurn
<1>6. CASE SetRunning(w) \/ ExecuteOk(w) \/ NotifyRetry(w) \/ EmitWebhook(w)
  BY <1>2, <1>3, <1>6 DEF SetRunning, ExecuteOk, NotifyRetry, EmitWebhook, DbCall, InTurn
<1>7. CASE ExecuteFailed(w)
  <2>1. InTurn(w)
    BY <1>7 DEF ExecuteFailed, InTurn
  <2>2. wpc' = [wpc EXCEPT ![w] = "retry"] /\ UNCHANGED <<held, told>> =>
          wpc'[w] = "retry" /\ held'[w] = held[w]
    BY <1>1
  <2> QED
    BY <1>3, <1>7, <2>1, <2>2 DEF ExecuteFailed
<1>8. ASSUME NEW pc \in Storing, NEW s, StoreTerminal(w, pc, s)
      PROVE  InTurn(w) /\ wpc'[w] = "emit" /\ held'[w] = held[w]
  BY <1>2, <1>3, <1>8 DEF StoreTerminal, DbCall, InTurn, Storing
<1>9. CASE StoreRetry(w)
  <2>1. /\ wpc[w] = "retry" /\ GoTo(w, "notify")
        /\ jobs' = ScheduleRetry(held[w].id, retryAt[w], held[w].attempt + 1)
    BY <1>2, <1>9 DEF StoreRetry, DbCall
  <2>2. held[w] \in Copy
    BY <2>1 DEF LifeInv, OwnerInv, TypeOK, PoolTypeOK
  <2> QED
    BY <1>1, <1>3, <2>1, <2>2 DEF InTurn, ScheduleRetry, Copy
<1> QED
  BY <1>4, <1>5, <1>6, <1>7, <1>8, <1>9
  DEF Work, WorkerStep, StoreCompleted, StoreExpired, StoreDeadLetter, Storing

(* No failure: a turn before its last position goes on.                    *)
LEMMA WorkStays ==
  ASSUME TypeOK, NEW w \in Worker, Work(w), InTurn(w), wpc[w] \notin {"notify", "emit"},
         faults' = faults
  PROVE  InTurn(w)' /\ held'[w] = held[w]
<1>1. wpc \in [Worker -> WorkerPc] /\ faults' # faults - 1
  BY DEF TypeOK, PoolTypeOK, StoreTypeOK
<1>2. ASSUME NEW pc \in WorkerPc \ {"recv", "gone"}, GoTo(w, pc)
      PROVE  InTurn(w)' /\ held'[w] = held[w]
  BY <1>1, <1>2 DEF GoTo, InTurn
<1>3. ~Receive(w) /\ ~Exit(w) /\ ~ExecutePanics(w) /\ ~NotifyRetry(w) /\ ~EmitWebhook(w)
  BY <1>1 DEF Receive, Exit, ExecutePanics, NotifyRetry, EmitWebhook, InTurn
<1>4. CASE SetRunning(w) \/ ExecuteOk(w) \/ StoreRetry(w)
  BY <1>1, <1>2, <1>4 DEF SetRunning, ExecuteOk, StoreRetry, DbCall, WorkerPc, Started, Storing
<1>5. CASE ExecuteFailed(w)
  <2>1. wpc' = [wpc EXCEPT ![w] = "retry"] /\ UNCHANGED <<held, told>> =>
          InTurn(w)' /\ held'[w] = held[w]
    BY <1>1 DEF InTurn
  <2> QED
    BY <1>2, <1>5, <2>1 DEF ExecuteFailed, WorkerPc, Started, Storing
<1>6. ASSUME NEW pc, NEW s, StoreTerminal(w, pc, s) PROVE InTurn(w)' /\ held'[w] = held[w]
  BY <1>1, <1>2, <1>6 DEF StoreTerminal, DbCall, WorkerPc
<1> QED
  BY <1>3, <1>4, <1>5, <1>6
  DEF Work, WorkerStep, StoreCompleted, StoreExpired, StoreDeadLetter

LEMMA CoreStays ==
  ASSUME LifeInv, CoreStep, faults' = faults, NEW w \in Worker, InTurn(w), wpc[w] # "notify"
  PROVE  InTurn(w)' /\ held'[w] = held[w]
<1>0. TypeOK
  BY DEF LifeInv, OwnerInv
<1>1. CASE Boot \/ StopWorkers \/ Tick \/ Schedule \/ Reap \/ Serve
  BY <1>1, OthersMoveNone DEF InTurn
<1>2. CASE \E v \in Worker : WorkElsewhere(v)
  <2>1. PICK v \in Worker : Work(v) /\ wpc[v] # "emit"
    BY <1>2 DEF WorkElsewhere
  <2>2. CASE v = w
    BY <1>0, <2>1, <2>2, WorkStays
  <2>3. CASE v # w
    BY <1>0, <2>1, <2>3, WorkMovesOne DEF OnlyMoves, InTurn
  <2> QED
    BY <2>2, <2>3
<1> QED
  BY <1>1, <1>2 DEF CoreStep

LEMMA EmitStays ==
  ASSUME TypeOK, HookInv, NEW w \in Worker, EmitStep(w), faults' = faults,
         NEW j \in Job, j = held[w].id
  PROVE  (InTurn(w)' /\ held'[w] = held[w]) \/ Reported(j)'
<1>1. wpc[w] = "emit" /\ jobs' = jobs /\ jobs[j].state \in Terminal
  BY EmitFrame DEF HookInv, EmittersMatch, Emits
<1>2. CASE EmitLoad(w)
  <2>1. CASE UNCHANGED vars
    BY <1>1, <2>1 DEF vars, workerVars, InTurn
  <2>2. CASE j \notin Announced
    BY <1>1, <2>2 DEF Reported
  <2> QED
    BY <1>1, <1>2, <2>1, <2>2 DEF EmitLoad, StatementFailed
<1>3. CASE EmitSend(w)
  BY <1>1, <1>3 DEF EmitSend, vars, workerVars, InTurn
<1>4. CASE EmitStore(w)
  <2>1. hook' = UpdateWebhookResult(j, emission[w])
    BY <1>4 DEF EmitStore, StatementFailed
  <2>2. hook'[j].success # "NULL"
    BY <2>1 DEF UpdateWebhookResult, HookInv, HookTypeOK, Emission
  <2> QED
    BY <1>1, <2>2 DEF Reported
<1> QED
  BY <1>2, <1>3, <1>4 DEF EmitStep

LEMMA TurnsNext == ASSUME LifeInv, TurnsOld, [Next]_vars PROVE TurnsOld'
<1>0. TypeOK
  BY DEF LifeInv, OwnerInv
<1>1. ASSUME NEW w \in Worker, InTurn(w), held'[w] = held[w],
             wpc'[w] = "notify" =>
               wpc[w] = "notify" \/ jobs'[held[w].id].attempt = held[w].attempt + 1
      PROVE  /\ jobs'[held'[w].id].state # "ABSENT"
             /\ held'[w].attempt <= jobs'[held'[w].id].attempt
             /\ wpc'[w] = "notify" => held'[w].attempt < jobs'[held'[w].id].attempt
  <2>1. held[w].id \in Job /\ held[w].attempt \in Nat
    BY <1>0, <1>1 DEF TypeOK, PoolTypeOK, InTurn, Copy
  <2>2. /\ jobs[held[w].id].state # "ABSENT"
        /\ held[w].attempt <= jobs[held[w].id].attempt
        /\ wpc[w] = "notify" => held[w].attempt < jobs[held[w].id].attempt
    BY <1>1 DEF TurnsOld
  <2>3. /\ jobs'[held[w].id].state # "ABSENT"
        /\ jobs[held[w].id].attempt \in Nat /\ jobs'[held[w].id].attempt \in Nat
        /\ jobs[held[w].id].attempt <= jobs'[held[w].id].attempt
    BY <2>1, <2>2, AttemptsGrow
  <2> QED
    BY <1>1, <2>1, <2>2, <2>3
<1>2. CASE UNCHANGED <<wpc, held>>
  BY <1>1, <1>2 DEF TurnsOld, InTurn
<1>3. CASE Crash
  BY <1>3 DEF Crash, TurnsOld, InTurn
<1>4. ASSUME NEW v \in Worker, Work(v) PROVE TurnsOld'
  <2> SUFFICES ASSUME NEW w \in Worker, InTurn(w)'
      PROVE  /\ jobs'[held'[w].id].state # "ABSENT"
             /\ held'[w].attempt <= jobs'[held'[w].id].attempt
             /\ wpc'[w] = "notify" => held'[w].attempt < jobs'[held'[w].id].attempt
    BY DEF TurnsOld
  <2>1. CASE w # v
    BY <1>0, <1>1, <1>4, <2>1, WorkMovesOne DEF OnlyMoves, InTurn
  <2>2. CASE w = v
    <3>1. CASE /\ wpc'[w] = "start"
               /\ held'[w] \in Copy /\ Leased(held'[w]) /\ jobs' = jobs
      BY <3>1 DEF Leased, Copy
    <3>2. CASE /\ InTurn(w) /\ held'[w] = held[w]
               /\ wpc'[w] = "notify" => jobs'[held[w].id].attempt = held[w].attempt + 1
      BY <1>1, <3>2
    <3> QED
      BY <1>4, <2>2, <3>1, <3>2, WorkTurn
  <2> QED
    BY <2>1, <2>2
<1> QED
  BY <1>2, <1>3, <1>4, OthersMoveNone DEF Next, vars, workerVars

(* A run that is over stays over.                                          *)
LEMMA OverStays ==
  ASSUME LifeInv, HookInv, [HookNext]_<<vars, hookVars>>,
         NEW u \in [id : Job, attempt : Nat], Behind(u)
  PROVE  Behind(u)' /\ (Over(u) => Over(u)')
<1>1. /\ jobs'[u.id].state # "ABSENT"
      /\ jobs[u.id].attempt \in Nat /\ jobs'[u.id].attempt \in Nat
      /\ jobs[u.id].attempt <= jobs'[u.id].attempt
  BY AttemptsGrow, HookIsCore DEF Behind
<1>2. Behind(u)'
  BY <1>1 DEF Behind
<1>3. Reported(u.id) => Reported(u.id)'
  <2>1. jobs[u.id].state \in Terminal => jobs'[u.id] = jobs[u.id]
    BY TerminalStep, HookIsCore
  <2>2. hook[u.id].success # "NULL" => hook'[u.id] = hook[u.id]
    BY OutcomeStep DEF LifeInv, OwnerInv
  <2> QED
    BY <2>1, <2>2 DEF Reported
<1>4. jobs'[u.id].attempt = u.attempt => jobs[u.id].attempt = u.attempt
  BY <1>1 DEF Behind
<1> QED
  BY <1>2, <1>3, <1>4 DEF Over

(* A step that is not main's: as long as nothing fails, the worker that    *)
(* handles a run goes on with it or has ended it.                          *)
LEMMA RunsDrain ==
  ASSUME LifeInv, HookInv, TurnsOld, UNCHANGED mainVars, faults' = faults,
         \/ CoreStep /\ UNCHANGED hookVars
         \/ \E w \in Worker : EmitStep(w),
         NEW u \in [id : Job, attempt : Nat], Drains(u)
  PROVE  Drains(u)'
<1>0. TypeOK /\ UNCHANGED <<phase, counted>>
  BY DEF LifeInv, OwnerInv, mainVars
<1>1. Behind(u)' /\ (Over(u) => Over(u)')
  BY OverStays DEF Drains, HookNext
<1>2. ASSUME NEW w \in Worker, Handles(w, u)
      PROVE  Over(u)' \/ Handles(w, u)'
  <2>1. InTurn(w)' /\ held'[w] = held[w] => Handles(w, u)'
    BY <1>0, <1>2 DEF Handles
  <2>2. CASE CoreStep /\ wpc[w] # "notify"
    BY <1>2, <2>1, <2>2, CoreStays DEF Handles
  <2>3. CASE wpc[w] = "notify"
    <3>1. held[w].attempt < jobs[u.id].attempt /\ held[w].attempt = u.attempt
      BY <1>2, <2>3 DEF TurnsOld, Handles
    <3>2. Over(u)
      BY <3>1, <1>0 DEF Over, TypeOK, StoreTypeOK, Row
    <3> QED
      BY <1>1, <3>2
  <2>4. ASSUME NEW v \in Worker, EmitStep(v), v = w PROVE Over(u)' \/ Handles(w, u)'
    BY <1>0, <1>2, <2>1, <2>4, EmitStays DEF Over, Handles
  <2>5. ASSUME NEW v \in Worker, EmitStep(v), v # w PROVE Handles(w, u)'
    BY <1>0, <1>2, <2>1, <2>5, EmitFrame DEF InTurn, Handles
  <2> QED
    BY <2>2, <2>3, <2>4, <2>5
<1> QED
  BY <1>0, <1>1, <1>2 DEF Drains

LEMMA DrainInit == Init /\ FreshMain => DrainInv
BY KronkeeperAssumption, ShutdownAssumption
DEF Init, StoreInit, FreshMain, DrainInv, Budget, MainTypeOK, MainPc

LEMMA DrainNext ==
  ASSUME LifeInv, HookInv, TurnsOld, DrainInv, [DaemonNext]_daemonVars
  PROVE  DrainInv'
<1>0. TypeOK /\ MainTypeOK /\ Budget /\ MaxPolls \in Nat
  BY ShutdownAssumption DEF LifeInv, OwnerInv, DrainInv
<1>1. Budget' /\ (NothingFailed' => NothingFailed /\ faults' = faults)
  BY <1>0, BudgetNext, CalmBefore, DaemonIsHook, HookIsCore
<1>2. CASE UNCHANGED vars /\ UNCHANGED hookVars /\ MainTypeOK' /\ UNCHANGED underway
           /\ (phase' \in {"serve", "closing"} => underway = {})
           /\ \A w \in Worker, u \in underway :
                phase # "drained" /\ Handles(w, u) => phase' # "drained" /\ w \in counted'
  <2> SUFFICES ASSUME NEW u \in underway, Drains(u) PROVE Drains(u)'
    BY <1>1, <1>2 DEF DrainInv
  <2>1. Behind(u)' /\ (Over(u) => Over(u)')
    BY <1>2 DEF vars, storeVars, hookVars, Behind, Over, Reported, Drains
  <2>2. ASSUME NEW w \in Worker, phase # "drained", Handles(w, u)
        PROVE  phase' # "drained" /\ Handles(w, u)'
    BY <1>2, <2>2 DEF vars, workerVars, Handles, InTurn
  <2> QED
    BY <2>1, <2>2 DEF Drains
<1>3. ASSUME UNCHANGED mainVars,
             \/ CoreStep /\ UNCHANGED hookVars
             \/ \E w \in Worker : EmitStep(w)
      PROVE  DrainInv'
  <2>1. MainTypeOK' /\ UNCHANGED <<phase, underway>>
    BY <1>0, <1>3 DEF mainVars, MainTypeOK
  <2>2. ASSUME NothingFailed', NEW u \in underway PROVE Drains(u)'
    BY <1>0, <1>1, <1>3, <2>2, RunsDrain DEF DrainInv, MainTypeOK
  <2> QED
    BY <1>1, <2>1, <2>2 DEF DrainInv
<1>4. CASE ProcessEnds
  BY <1>0, <1>1, <1>4 DEF ProcessEnds, DrainInv, MainTypeOK, MainPc
<1>5. CASE ServeReturns
  <2>1. UNCHANGED <<jobs, wpc, held, counted, hook>> /\ phase' = "drain" /\ polls' = polls
    BY <1>5 DEF ServeReturns, StopWorkers, NotifyWaiters, storeVars, hookVars
  <2>2. ASSUME NEW u \in underway'
        PROVE  u \in [id : Job, attempt : Nat] /\ Drains(u)'
    <3>1. PICK w \in Worker : /\ w \in counted /\ InTurn(w)
                              /\ u = [id |-> held[w].id, attempt |-> held[w].attempt]
      BY <1>0, <1>5, <2>2 DEF ServeReturns, InTurn, MainTypeOK
    <3>2. held[w].id \in Job /\ held[w].attempt \in Nat
      BY <1>0, <3>1 DEF TypeOK, PoolTypeOK, InTurn, Copy
    <3>3. Behind(u)' /\ Handles(w, u)'
      BY <2>1, <3>1 DEF TurnsOld, Behind, Handles, InTurn
    <3> QED
      BY <2>1, <3>1, <3>2, <3>3 DEF Drains
  <2>3. MainTypeOK'
    BY <1>0, <2>1, <2>2 DEF MainTypeOK, MainPc
  <2> QED
    BY <1>1, <2>1, <2>2, <2>3 DEF DrainInv
<1>6. CASE Poll
  <2>1. MainTypeOK' /\ UNCHANGED underway
    BY <1>0, <1>6 DEF Poll, MainTypeOK, MainPc
  <2>2. \A w \in Worker, u \in underway : Handles(w, u) => phase' # "drained" /\ w \in counted'
    BY <1>6 DEF Poll, Handles
  <2> QED
    BY <1>2, <1>6, <2>1, <2>2 DEF Poll
<1>7. CASE Signal
  <2>1. MainTypeOK' /\ underway = {}
    BY <1>0, <1>7 DEF Signal, DrainInv, MainTypeOK, MainPc
  <2> QED
    BY <1>2, <1>7, <2>1 DEF Signal
<1>8. ASSUME NEW v \in Worker, FetchAdd(v) \/ FetchSub(v) PROVE DrainInv'
  <2>1. /\ MainTypeOK'
        /\ \A w \in Worker, u \in underway :
             Handles(w, u) => w \in counted'
    BY <1>0, <1>8 DEF FetchAdd, FetchSub, MainTypeOK, Handles, InTurn
  <2> QED
    BY <1>2, <1>8, <2>1 DEF FetchAdd, FetchSub, DrainInv
<1>9. CASE UNCHANGED daemonVars
  <2>1. MainTypeOK'
    BY <1>0, <1>9 DEF daemonVars, mainVars, MainTypeOK
  <2> QED
    BY <1>2, <1>9, <2>1 DEF daemonVars, mainVars, DrainInv, Handles
<1>10. CASE Background /\ UNCHANGED <<hookVars, mainVars>>
  BY <1>3, <1>10 DEF Background, CoreStep, mainVars
<1>11. ASSUME NEW w \in Worker,
              \/ WorkCounted(w) /\ UNCHANGED <<hookVars, mainVars>>
              \/ EmitStep(w) /\ UNCHANGED mainVars
       PROVE  DrainInv'
  BY <1>3, <1>11 DEF WorkCounted, CoreStep, mainVars
<1> QED
  BY <1>4, <1>5, <1>6, <1>7, <1>8, <1>9, <1>10, <1>11 DEF DaemonNext

-----------------------------------------------------------------------------
(* Verdicts.  Until something fails, a row that a worker brings to a       *)
(* terminal state is the row of the worker that goes on to emit.           *)
LEMMA VerdictStored ==
  ASSUME LifeInv, NEW w \in Worker, Work(w), faults' = faults,
         NEW j \in Job, jobs[j].state \notin Terminal, jobs'[j].state \in Verdict
  PROVE  wpc'[w] = "emit" /\ held'[w].id = j
<1>1. /\ jobs \in [Job -> Row] /\ wpc \in [Worker -> WorkerPc] /\ faults \in Nat
      /\ held[w].id \in Job \/ wpc[w] \in {"recv", "gone"}
  BY DEF LifeInv, OwnerInv, TypeOK, StoreTypeOK, PoolTypeOK, Copy
<1>2. jobs' # jobs
  BY DEF Verdict, Terminal
<1>3. CASE SetRunning(w)
  <2>1. jobs' = SetState(held[w].id, "RUNNING")
    BY <1>1, <1>2, <1>3 DEF SetRunning, DbCall
  <2> QED
    BY <1>1, <2>1 DEF SetState, Verdict, Terminal
<1>4. CASE StoreRetry(w)
  <2>1. jobs' = ScheduleRetry(held[w].id, retryAt[w], held[w].attempt + 1)
    BY <1>1, <1>2, <1>4 DEF StoreRetry, DbCall
  <2> QED
    BY <1>1, <2>1 DEF ScheduleRetry, Verdict, Terminal
<1>5. ASSUME NEW pc \in Storing, NEW s, StoreTerminal(w, pc, s)
      PROVE  wpc'[w] = "emit" /\ held'[w].id = j
  <2>1. GoTo(w, "emit") /\ jobs' = SetState(held[w].id, s)
    BY <1>1, <1>5 DEF StoreTerminal, DbCall
  <2>2. held[w].id # j => jobs'[j] = jobs[j]
    BY <1>1, <2>1 DEF SetState
  <2> QED
    BY <1>1, <2>1, <2>2 DEF GoTo, Verdict, Terminal
<1>6. CASE \/ Receive(w) \/ Exit(w) \/ ExecuteOk(w) \/ ExecuteFailed(w) \/ ExecutePanics(w)
           \/ NotifyRetry(w) \/ EmitWebhook(w)
  BY <1>2, <1>6 DEF Receive, Exit, ExecuteOk, ExecuteFailed, ExecutePanics, NotifyRetry,
                    EmitWebhook, DbCall, storeVars
<1> QED
  BY <1>3, <1>4, <1>5, <1>6
  DEF Work, WorkerStep, StoreCompleted, StoreExpired, StoreDeadLetter, Storing

(* No other task stores a verdict.                                         *)
LEMMA OnlyWorkersDecide ==
  ASSUME LifeInv, Boot \/ StopWorkers \/ Tick \/ Schedule \/ Reap \/ Serve,
         NEW j \in Job, jobs'[j].state \in Verdict
  PROVE  jobs'[j] = jobs[j]
<1>1. jobs \in [Job -> Row]
  BY DEF LifeInv, OwnerInv, TypeOK, StoreTypeOK
<1>2. jobs' \in {RecoverOnStartup, ReapExpiredLeases} => jobs'[j] = jobs[j]
  <2>1. Reclaimed(jobs[j]).state = "SCHEDULED"
    BY <1>1 DEF Reclaimed, Row
  <2> QED
    BY <2>1 DEF RecoverOnStartup, ReapExpiredLeases, Verdict
<1>3. ASSUME NEW i, NEW s \in {"LEASED", "CANCELLED"},
             jobs' = SetState(i, s) \/ (s = "LEASED" /\ jobs' = LeaseJob(i))
      PROVE  jobs'[j] = jobs[j]
  BY <1>1, <1>3 DEF SetState, LeaseJob, Verdict, Row
<1>4. ASSUME NEW i, jobs' = InsertJob(i) \/ \E at, n : jobs' = ScheduleRetry(i, at, n)
      PROVE  jobs'[j] = jobs[j]
  BY <1>1, <1>4 DEF InsertJob, NewRow, ScheduleRetry, Verdict
<1>5. CASE Boot \/ Reap
  BY <1>2, <1>5 DEF Boot, Reap, ReaperStep, ReapPass, ReapNotify, DbCall, storeVars
<1>6. CASE Schedule
  BY <1>3, <1>4, <1>6
  DEF Schedule, SchedulerStep, RefreshHeap, WakeUp, Deadline, DispatchDone, Lease, DbCall,
      SendOk, SendFull, SendClosed, GiveBack, Renotify, storeVars
<1>7. CASE Serve
  BY <1>3, <1>4, <1>7
  DEF Serve, ApiStep, CreateJob, CancelScheduled, CancelJob, RequestNotify, RequestDropped,
      storeVars
<1>8. CASE StopWorkers \/ Tick
  BY <1>8 DEF StopWorkers, NotifyWaiters, Tick, storeVars
<1> QED
  BY <1>5, <1>6, <1>7, <1>8

LEMMA AnnouncedNext ==
  ASSUME LifeInv, HookInv, Budget, VerdictsAnnounced, [HookNext]_<<vars, hookVars>>
  PROVE  VerdictsAnnounced'
<1> SUFFICES ASSUME NothingFailed', crashes' = 0, NEW j \in Announced,
                    jobs'[j].state \in Verdict
             PROVE  \/ hook'[j].success # "NULL"
                    \/ \E w \in Worker : wpc'[w] = "emit" /\ held'[w].id = j
  BY DEF VerdictsAnnounced
<1>0. TypeOK /\ j \in Job
  BY WebhookAssumption DEF LifeInv, OwnerInv
<1>1. NothingFailed /\ faults' = faults
  BY <1>0, CalmBefore, HookIsCore
<1>2. ~Crash
  BY <1>0 DEF Crash, TypeOK
<1>3. crashes = 0
  BY <1>2
  DEF HookNext, CoreStep, HookCrash, Boot, StopWorkers, Tick, Schedule, WorkElsewhere, Work,
      Reap, Serve, EmitStep, EmitLoad, EmitSend, EmitStore, EmitReturns, vars
<1>4. ASSUME jobs[j].state \in Verdict, hook[j].success = "NULL"
      PROVE  \E w \in Worker : wpc[w] = "emit" /\ held[w].id = j
  BY <1>1, <1>3, <1>4 DEF VerdictsAnnounced
<1>5. hook[j].success # "NULL" => hook'[j] = hook[j]
  BY <1>0, OutcomeStep
<1>6. CASE CoreStep /\ UNCHANGED hookVars
  <2>1. CASE jobs[j].state \in Terminal
    <3>1. jobs'[j] = jobs[j]
      BY <1>0, <1>6, <2>1, TerminalStep, HookIsCore DEF HookNext
    <3> QED
      BY <1>4, <1>5, <1>6, <3>1, EmittersFrame
  <2>2. CASE jobs[j].state \notin Terminal
    <3>1. PICK w \in Worker : WorkElsewhere(w)
      BY <1>0, <1>6, <2>2, OnlyWorkersDecide DEF CoreStep, Verdict, Terminal
    <3> QED
      BY <1>0, <1>1, <2>2, <3>1, VerdictStored DEF WorkElsewhere
  <2> QED
    BY <2>1, <2>2
<1>7. ASSUME NEW v \in Worker, EmitStep(v)
      PROVE  \/ hook'[j].success # "NULL"
             \/ \E w \in Worker : wpc'[w] = "emit" /\ held'[w].id = j
  <2>1. jobs' = jobs /\ wpc[v] = "emit" /\ held[v].id \in Job
    BY <1>0, <1>7, EmitFrame
  <2>2. ASSUME hook[j].success = "NULL"
        PROVE  \E w \in Worker : wpc[w] = "emit" /\ held[w].id = j
    BY <1>4, <2>1, <2>2
  <2>3. ASSUME NEW w \in Worker, w # v, wpc[w] = "emit", held[w].id = j
        PROVE  wpc'[w] = "emit" /\ held'[w].id = j
    BY <1>0, <1>7, <2>3, EmitFrame
  <2>4. ASSUME held[v].id = j
        PROVE  hook'[j].success # "NULL" \/ (wpc'[v] = "emit" /\ held'[v].id = j)
    <3>1. (InTurn(v)' /\ held'[v] = held[v]) \/ Reported(j)'
      BY <1>0, <1>1, <1>7, <2>4, EmitStays
    <3>2. InTurn(v)' => wpc'[v] = "emit"
      BY <1>0, <1>7, <2>1
      DEF EmitStep, EmitLoad, EmitSend, EmitStore, EmitReturns, EmitWebhook, DbCall, NextTurn,
          InTurn, vars, workerVars, TypeOK, PoolTypeOK
    <3> QED
      BY <2>4, <3>1, <3>2 DEF Reported
  <2> QED
    BY <1>5, <2>2, <2>3, <2>4
<1>8. CASE UNCHANGED <<vars, hookVars>>
  BY <1>4, <1>8 DEF vars, storeVars, workerVars, hookVars
<1> QED
  BY <1>2, <1>6, <1>7, <1>8 DEF HookNext, HookCrash

(* No verdict of a worker goes unannounced until something fails.          *)
THEOREM VerdictsAreAnnounced ==
  ASSUME TimelyPickup
  PROVE  DaemonSpec => []VerdictsAnnounced
<1>1. Init => VerdictsAnnounced /\ Budget
  <2> SUFFICES ASSUME Init PROVE VerdictsAnnounced /\ Budget
    OBVIOUS
  <2>1. \A j \in Job : jobs[j].state = "ABSENT"
    BY DEF Init, StoreInit, NewRow
  <2>2. faults <= MaxFaults
    BY KronkeeperAssumption DEF Init, StoreInit
  <2> QED
    BY <2>1, <2>2, WebhookAssumption DEF Verdict, VerdictsAnnounced, Budget
<1>2. LifeInv /\ HookInv /\ Budget /\ VerdictsAnnounced /\ [HookNext]_<<vars, hookVars>> =>
        VerdictsAnnounced' /\ Budget'
  BY AnnouncedNext, BudgetNext, HookIsCore DEF LifeInv, OwnerInv
<1> QED
  BY <1>1, <1>2, HookInvariant, DaemonRefinesEmitter, PTL DEF HookSpec

-----------------------------------------------------------------------------
LEMMA DaemonInvariant ==
  ASSUME TimelyPickup
  PROVE  DaemonSpec => [](LifeInv /\ HookInv /\ TurnsOld /\ DrainInv)
<1>1. DaemonInit => LifeInv /\ HookInv /\ TurnsOld /\ DrainInv
  <2>1. Init => TurnsOld
    BY DEF Init, PoolInit, TurnsOld, InTurn
  <2> QED
    BY <2>1, LifeInit, HookInvInit, DrainInit DEF DaemonInit
<1>2. LifeInv /\ HookInv /\ TurnsOld /\ DrainInv /\ [DaemonNext]_daemonVars =>
        LifeInv' /\ HookInv' /\ TurnsOld' /\ DrainInv'
  <2> SUFFICES ASSUME LifeInv, HookInv, TurnsOld, DrainInv, [DaemonNext]_daemonVars
               PROVE  LifeInv' /\ HookInv' /\ TurnsOld' /\ DrainInv'
    OBVIOUS
  <2>1. [HookNext]_<<vars, hookVars>> /\ [Next]_vars
    BY DaemonIsHook, HookIsCore
  <2> QED
    BY <2>1, LifeNext, HookStep, TurnsNext, DrainNext
<1> QED
  BY <1>1, <1>2, PTL DEF DaemonSpec

(* Types of the whole daemon.                                              *)
THEOREM DaemonTypesCorrect ==
  ASSUME TimelyPickup
  PROVE  DaemonSpec => []DaemonTypeOK
<1>1. LifeInv /\ HookInv /\ DrainInv => DaemonTypeOK
  BY DEF LifeInv, OwnerInv, HookInv, DrainInv, MainTypeOK, DaemonTypeOK
<1> QED
  BY <1>1, DaemonInvariant, PTL

(* When main has seen the counter at 0, and nothing failed, every run that *)
(* was in flight when the pool was told to stop is over.                   *)
THEOREM DrainedRunsAreOver ==
  ASSUME TimelyPickup
  PROVE  DaemonSpec => []InFlightDrained
<1>1. DrainInv => InFlightDrained
  BY DEF DrainInv, Drains, Over, Reported, InFlightDrained
<1> QED
  BY <1>1, DaemonInvariant, PTL

(* What is proved of the core holds of the daemon with its webhook emitter *)
(* and its shutdown: what it promises when leases outlast the wait for a   *)
(* worker,                                                                 *)
THEOREM DaemonKeepsCore ==
  ASSUME TimelyPickup
  PROVE  DaemonSpec => /\ []SoleOwner
                       /\ []HeapSound
                       /\ NoEarlyLease
                       /\ TerminalFinal
                       /\ LateRunIsLast
                       /\ ImplementsLifecycle
BY DaemonRefinesEmitter, EmitterRefinesCore, OneOwnerPerJob, HeapAgrees, LeasesAreNotEarly,
   TerminalStatesAreFinal, LateRunsAreLast, DaemonImplementsLifecycle, PTL

(* and what it promises in any case.                                       *)
THEOREM DaemonKeepsPromises ==
  ASSUME IsFiniteSet(Job), Cardinality(Job) <= LookaheadLimit
  PROVE  DaemonSpec => /\ []RunsHaveWorkers
                       /\ []AttemptsBounded
                       /\ []NoLostWakeup
BY DaemonRefinesEmitter, EmitterRefinesCore, FailuresAloneOrphan, RetriesAreLimited,
   WakeupsAreNotLost, PTL

=============================================================================
