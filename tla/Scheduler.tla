----------------------------- MODULE Scheduler ------------------------------
(***************************************************************************)
(* The event-driven scheduler task of src/scheduler.rs.                    *)
(*                                                                         *)
(*   spc   where the task is; one value per await point                    *)
(*   heap  the in-memory BinaryHeap<ScheduledJob>: (id, scheduled_at)      *)
(*         pairs as the last refresh read them                             *)
(*   hand  the leased job between lease_job and try_send / schedule_retry  *)
(*   dnow  the `now` that dispatch_due_jobs reads once, before its loop    *)
(***************************************************************************)
EXTENDS WorkerPool, FiniteSets

CONSTANT LookaheadLimit  \* Config::heap_lookahead_limit

ASSUME SchedulerAssumption == LookaheadLimit \in Nat

VARIABLES spc, heap, hand, dnow

schedVars == <<spc, heap, hand, dnow>>

(* Positions of the scheduler.                                             *)
(*   down      the daemon is not running                                   *)
(*   refresh   refresh_heap called, its SELECT not yet executed            *)
(*   select    in select!, waiting for the next deadline or a permit       *)
(*   dispatch  at the head of the loop of dispatch_due_jobs                *)
(*   send      a job is leased, not yet offered to the worker queue        *)
(*   giveback  the queue was full, schedule_retry not yet executed         *)
(*   renotify  the job was given back, notify_one not yet called           *)
SchedulerPc == {"down", "refresh", "select", "dispatch", "send", "giveback",
                "renotify"}

ScheduledJob == [id : Job, at : Int]

SchedulerInit ==
  /\ spc = "down"
  /\ heap = {}
  /\ hand = Null
  /\ dnow = 0

(* A leased job is at hand until it is sent or given back.                 *)
SchedulerTypeOK ==
  /\ spc \in SchedulerPc
  /\ heap \subseteq ScheduledJob
  /\ hand \in Copy \cup {Null}
  /\ dnow \in Nat
  /\ spc \in {"send", "giveback"} => hand \in Copy

(* Back to the head of the loop of run(); locals go out of scope.          *)
ToSelect == spc' = "select" /\ hand' = Null /\ dnow' = 0

(* The heap's peek(): an entry with the smallest scheduled_at.             *)
Earliest == {e \in heap : \A f \in heap : e.at <= f.at}

-----------------------------------------------------------------------------
(* fetch_scheduled_jobs: ORDER BY scheduled_at LIMIT heap_lookahead_limit; *)
(* the database chooses among rows with equal times.                       *)
ScheduledJobsLeasedToo ==  \* mutant: WHERE state IN ('SCHEDULED', 'LEASED')
  {j \in Job : jobs[j].state \in {"SCHEDULED", "LEASED"}}
ScheduledJobs == {j \in Job : IsScheduled(j)}

FetchedJobs(S) ==
  /\ S \subseteq ScheduledJobs
  /\ \/ S = ScheduledJobs /\ Cardinality(S) <= LookaheadLimit
     \/ Cardinality(S) = LookaheadLimit
  /\ \A a \in S, b \in ScheduledJobs \ S :
        jobs[a].scheduledAt <= jobs[b].scheduledAt

(* refresh_heap: the heap is rebuilt from what the SELECT returned; on an  *)
(* error the old heap stays and the permit is already consumed.            *)
RefreshHeap ==
  /\ spc = "refresh"
  /\ \/ /\ \E S \in SUBSET ScheduledJobs :
             /\ FetchedJobs(S)
             /\ heap' = {[id |-> j, at |-> jobs[j].scheduledAt] : j \in S}
        /\ UNCHANGED faults
     \/ /\ faults > 0
        /\ faults' = faults - 1
        /\ UNCHANGED heap
  /\ ToSelect
  /\ UNCHANGED <<jobs, now, permit, queue, workerVars>>

(* select!: the permit of the Notify ...                                   *)
WakeUp ==
  /\ spc = "select"
  /\ Notified
  /\ spc' = "refresh"
  /\ UNCHANGED <<heap, hand, dnow, storeVars, queue, workerVars>>

(* ... or the deadline of the first heap entry.  With an empty heap the    *)
(* timer fires after an hour and dispatches nothing.                       *)
Deadline ==
  /\ spc = "select"
  /\ \E e \in Earliest : e.at <= now
  /\ spc' = "dispatch"
  /\ dnow' = now
  /\ UNCHANGED <<heap, hand, storeVars, permit, queue, workerVars>>

-----------------------------------------------------------------------------
DueSoon(e) == e.at <= dnow + 1  \* mutant
Due(e) == e.at <= dnow

DispatchDone ==
  /\ spc = "dispatch"
  /\ \A e \in Earliest : ~Due(e)
  /\ ToSelect
  /\ UNCHANGED <<heap, storeVars, permit, queue, workerVars>>

(* heap.pop() and lease_job.  A row that is no longer SCHEDULED is         *)
(* skipped; an error leaves dispatch_due_jobs with the entry already       *)
(* popped, the row leased or not.                                          *)
Lease ==
  /\ spc = "dispatch"
  /\ \E e \in Earliest :
       /\ Due(e)
       /\ heap' = heap \ {e}
       /\ \/ /\ IsScheduled(e.id)
             /\ DbCall(LeaseJob(e.id),
                       /\ spc' = "send"
                       /\ hand' = CopyOf(e.id)
                       /\ UNCHANGED dnow,
                       ToSelect)
          \/ /\ ~IsScheduled(e.id)
             /\ DbCall(jobs, UNCHANGED <<spc, hand, dnow>>, ToSelect)
  /\ UNCHANGED <<now, permit, queue, workerVars>>

(* worker_tx.try_send: sent, Full, or Closed.                              *)
SendOkUnbounded ==  \* mutant: an unbounded channel
  /\ spc = "send"
  /\ ~ChannelClosed
  /\ queue' = Append(queue, hand)
  /\ spc' = "dispatch"
  /\ hand' = Null
  /\ UNCHANGED <<heap, dnow, storeVars, permit, workerVars>>

SendOk ==
  /\ spc = "send"
  /\ ~ChannelClosed
  /\ Len(queue) < QueueSize
  /\ queue' = Append(queue, hand)
  /\ spc' = "dispatch"
  /\ hand' = Null
  /\ UNCHANGED <<heap, dnow, storeVars, permit, workerVars>>

SendFull ==
  /\ spc = "send"
  /\ ~ChannelClosed
  /\ Len(queue) >= QueueSize
  /\ spc' = "giveback"
  /\ UNCHANGED <<heap, hand, dnow, storeVars, permit, queue, workerVars>>

SendClosed ==
  /\ spc = "send"
  /\ ChannelClosed
  /\ ToSelect
  /\ UNCHANGED <<heap, storeVars, permit, queue, workerVars>>

GiveBack ==
  /\ spc = "giveback"
  /\ DbCall(ScheduleRetry(hand.id, hand.scheduledAt, hand.attempt),
            spc' = "renotify" /\ UNCHANGED <<hand, dnow>>,
            ToSelect)
  /\ UNCHANGED <<heap, now, permit, queue, workerVars>>

RenotifyForgotten ==  \* mutant: no notify_one
  /\ spc = "renotify"
  /\ ToSelect
  /\ UNCHANGED <<heap, storeVars, permit, queue, workerVars>>

Renotify ==
  /\ spc = "renotify"
  /\ NotifyOne
  /\ ToSelect
  /\ UNCHANGED <<heap, storeVars, queue, workerVars>>

SchedulerStep ==
  \/ RefreshHeap
  \/ WakeUp
  \/ Deadline
  \/ DispatchDone
  \/ Lease
  \/ SendOk
  \/ SendFull
  \/ SendClosed
  \/ GiveBack
  \/ Renotify

=============================================================================
