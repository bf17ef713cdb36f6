----------------------------- MODULE WorkerPool -----------------------------
(***************************************************************************)
(* The bounded worker pool: the mpsc channel and the worker tasks of       *)
(* src/worker/pool.rs, with the result handler of src/worker/result.rs     *)
(* that each worker runs to the end before it takes the next job.          *)
(*                                                                         *)
(*   queue    the mpsc channel, at most QueueSize jobs                     *)
(*   wpc      where a worker is; one value per await point                 *)
(*   held     the job value a worker took from the channel                 *)
(*   retryAt  the retry time the result handler computed                   *)
(*   told     the workers that WorkerPoolHandle::shutdown woke while they  *)
(*            waited for a job, and that have not reacted yet              *)
(*                                                                         *)
(* The job's payload (src/worker/executor.rs) is outside of the system:    *)
(* it succeeds, fails or times out as it likes, or makes the task panic    *)
(* (executor.rs:157 slices a string at a byte index; pool.rs:71 spawns the *)
(* worker without supervision).                                            *)
(***************************************************************************)
EXTENDS JobStore, Wakeup, Sequences

CONSTANTS
  Worker,     \* worker tasks, Config::worker_count of them
  QueueSize,  \* Config::worker_queue_size
  RetryDelay  \* RetryDelay[j][n]: compute_retry_delay for the n-th attempt

ASSUME WorkerPoolAssumption ==
  /\ QueueSize \in Nat \ {0}
  /\ \A j \in Job : \A n \in 1..MaxRetries[j] : RetryDelay[j][n] \in Int

VARIABLES queue, wpc, held, retryAt, told

workerVars == <<wpc, held, retryAt, told>>

(* Positions of a worker.                                                  *)
(*   recv        waiting for a job                                         *)
(*   start       has a job, set_running not yet executed                   *)
(*   exec        executing the payload                                     *)
(*   complete, expire, deadletter, retry                                   *)
(*               the verdict is taken, its statement not yet executed      *)
(*   notify      retry stored, scheduler not yet notified                  *)
(*   emit        terminal state stored, delivering the webhook             *)
(*   gone        the task stopped or panicked; nothing restarts it         *)
Storing == {"complete", "expire", "deadletter", "retry"}
Started == {"exec"} \cup Storing
WorkerPc == {"recv", "start", "notify", "emit", "gone"} \cup Started

PoolInit ==
  /\ queue = <<>>
  /\ wpc = [w \in Worker |-> "recv"]
  /\ held = [w \in Worker |-> Null]
  /\ retryAt = [w \in Worker |-> 0]
  /\ told = {}

(* A worker that left recv has a job; the channel never holds more than    *)
(* WORKER_QUEUE_SIZE jobs (pool.rs:50, scheduler.rs:102).                  *)
PoolTypeOK ==
  /\ queue \in Seq(Copy)
  /\ Len(queue) <= QueueSize
  /\ wpc \in [Worker -> WorkerPc]
  /\ held \in [Worker -> Copy \cup {Null}]
  /\ retryAt \in [Worker -> Int]
  /\ told \subseteq Worker
  /\ \A w \in Worker : wpc[w] \notin {"recv", "gone"} => held[w] \in Copy

(* All receivers dropped.                                                  *)
ChannelClosed == \A w \in Worker : wpc[w] = "gone"

GoTo(w, pc) == wpc' = [wpc EXCEPT ![w] = pc] /\ UNCHANGED <<held, retryAt, told>>

(* End of one turn of the worker's loop: its locals go out of scope.       *)
NextTurn(w) ==
  /\ wpc' = [wpc EXCEPT ![w] = "recv"]
  /\ held' = [held EXCEPT ![w] = Null]
  /\ retryAt' = [retryAt EXCEPT ![w] = 0]
  /\ UNCHANGED told

(* The receiver lives as long as one worker does; the channel's content is *)
(* dropped with it.                                                        *)
QueueWithout(w) == IF \A v \in Worker \ {w} : wpc[v] = "gone" THEN <<>> ELSE queue

-----------------------------------------------------------------------------
(* Workers take turns on the Mutex around the receiver: any idle worker    *)
(* may get the head of the queue.  One that was told to stop may get it    *)
(* too: select! looks at its two futures in random order (pool.rs:80-83).  *)
Receive(w) ==
  /\ wpc[w] = "recv"
  /\ queue # <<>>
  /\ held' = [held EXCEPT ![w] = Head(queue)]
  /\ queue' = Tail(queue)
  /\ wpc' = [wpc EXCEPT ![w] = "start"]
  /\ told' = told \ {w}
  /\ UNCHANGED <<retryAt, storeVars, permit>>

Exit(w) ==
  /\ wpc[w] = "recv"
  /\ w \in told
  /\ wpc' = [wpc EXCEPT ![w] = "gone"]
  /\ told' = told \ {w}
  /\ queue' = QueueWithout(w)
  /\ UNCHANGED <<held, retryAt, storeVars, permit>>

SetRunning(w) ==
  /\ wpc[w] = "start"
  /\ DbCall(SetState(held[w].id, "RUNNING"), GoTo(w, "exec"), NextTurn(w))
  /\ UNCHANGED <<queue, now, permit>>

(* The attempt that just failed was the last one allowed.                  *)
RetriesExhaustedEarly(c) == c.attempt + 1 >= MaxRetries[c.id]  \* mutant
RetriesExhaustedLate(c) == c.attempt > MaxRetries[c.id]        \* mutant
RetriesExhausted(c) == c.attempt + 1 > MaxRetries[c.id]

(* The result handler's TTL check.                                         *)
ExpiredSince(j) == ExpiresAt[j] # Null /\ now > ExpiresAt[j]  \* mutant
Expired(j) == PastTTL(j)

(* Executor::execute returns and ResultHandler::handle takes its decision  *)
(* from the job value the worker holds and the time read here.             *)
ExecuteOk(w) ==
  /\ wpc[w] = "exec"
  /\ GoTo(w, "complete")
  /\ UNCHANGED <<queue, storeVars, permit>>

ExecuteFailed(w) ==
  LET j == held[w].id
      nextAttempt == held[w].attempt + 1
  IN  /\ wpc[w] = "exec"
      /\ \/ /\ Expired(j)
            /\ GoTo(w, "expire")
         \/ /\ ~Expired(j)
            /\ RetriesExhausted(held[w])
            /\ GoTo(w, "deadletter")
         \/ /\ ~Expired(j)
            /\ ~RetriesExhausted(held[w])
            /\ wpc' = [wpc EXCEPT ![w] = "retry"]
            /\ retryAt' = [retryAt EXCEPT ![w] = now + RetryDelay[j][nextAttempt]]
            /\ UNCHANGED <<held, told>>
      /\ UNCHANGED <<queue, storeVars, permit>>

ExecutePanics(w) ==
  /\ wpc[w] = "exec"
  /\ faults > 0
  /\ faults' = faults - 1
  /\ wpc' = [wpc EXCEPT ![w] = "gone"]
  /\ held' = [held EXCEPT ![w] = Null]
  /\ queue' = QueueWithout(w)
  /\ UNCHANGED <<retryAt, told, jobs, now, permit>>

-----------------------------------------------------------------------------
(* The statements of ResultHandler::handle; an error of any of them ends   *)
(* the turn with a log line.                                               *)
StoreTerminal(w, pc, s) ==
  /\ wpc[w] = pc
  /\ DbCall(SetState(held[w].id, s), GoTo(w, "emit"), NextTurn(w))
  /\ UNCHANGED <<queue, now, permit>>

AnnounceDeadLetter(w) ==  \* mutant: emitted but not stored
  /\ wpc[w] = "deadletter"
  /\ GoTo(w, "emit")
  /\ UNCHANGED <<queue, storeVars, permit>>

StoreCompleted(w)  == StoreTerminal(w, "complete", "COMPLETED")
StoreExpired(w)    == StoreTerminal(w, "expire", "EXPIRED")
StoreDeadLetter(w) == StoreTerminal(w, "deadletter", "DEAD_LETTER")

StoreRetry(w) ==
  /\ wpc[w] = "retry"
  /\ DbCall(ScheduleRetry(held[w].id, retryAt[w], held[w].attempt + 1),
            GoTo(w, "notify"), NextTurn(w))
  /\ UNCHANGED <<queue, now, permit>>

NotifyRetryForgotten(w) ==  \* mutant: no notify_one
  /\ wpc[w] = "notify"
  /\ NextTurn(w)
  /\ UNCHANGED <<queue, storeVars, permit>>

NotifyRetry(w) ==
  /\ wpc[w] = "notify"
  /\ NotifyOne
  /\ NextTurn(w)
  /\ UNCHANGED <<queue, storeVars>>

(* WebhookEmitter::emit keeps the worker busy and writes only webhook_*    *)
(* columns, which nothing in this module reads (module WebhookEmitter has  *)
(* its steps); if one of its statements fails, that is logged.             *)
EmitWebhook(w) ==
  /\ wpc[w] = "emit"
  /\ DbCall(jobs, NextTurn(w), NextTurn(w))
  /\ UNCHANGED <<queue, now, permit>>

WorkerStep(w) ==
  \/ Receive(w)
  \/ Exit(w)
  \/ SetRunning(w)
  \/ ExecuteOk(w)
  \/ ExecuteFailed(w)
  \/ ExecutePanics(w)
  \/ StoreCompleted(w)
  \/ StoreExpired(w)
  \/ StoreDeadLetter(w)
  \/ StoreRetry(w)
  \/ NotifyRetry(w)
  \/ EmitWebhook(w)

-----------------------------------------------------------------------------
(* WorkerPoolHandle::shutdown, notify_waiters(): wakes the workers whose   *)
(* select! waits at that moment, and stores nothing for the others.  A     *)
(* worker that is at recv may still be on its way to its select!.          *)
NotifyWaiters(S) ==
  /\ \A w \in S : wpc[w] = "recv"
  /\ told' = told \cup S
  /\ UNCHANGED <<queue, wpc, held, retryAt, storeVars, permit>>

=============================================================================
