------------------------------ MODULE JobsApi -------------------------------
(***************************************************************************)
(* The handlers of src/api/handlers/jobs.rs that change one-off jobs:      *)
(* POST /api/v1/jobs and DELETE /api/v1/jobs/{id}.  A handler executes one *)
(* statement that changes the table and then wakes the scheduler.          *)
(*                                                                         *)
(*   owed  the requests whose statement is committed and whose notify_one  *)
(*         is still to come                                                *)
(***************************************************************************)
EXTENDS JobStore, Wakeup

VARIABLE owed

Request == [op : {"create", "cancel"}, id : Job]

ApiInit == owed = {}

(* A second POST with the same idempotency key finds the row, or fails on  *)
(* the UNIQUE constraint, and changes nothing.                             *)
CreateJob(j) ==
  /\ jobs[j].state = "ABSENT"
  /\ jobs' = InsertJob(j)
  /\ owed' = owed \cup {[op |-> "create", id |-> j]}
  /\ UNCHANGED <<now, faults, permit>>

(* cancel_job of the repository changes a row only WHERE state =           *)
(* 'SCHEDULED'; otherwise the client gets 400 and nothing changes.         *)
CancelAtAnyTime(j) ==  \* mutant: no WHERE state = 'SCHEDULED'
  /\ jobs[j].state \notin Terminal \cup {"ABSENT"}
  /\ jobs' = CancelJob(j)
  /\ owed' = owed \cup {[op |-> "cancel", id |-> j]}
  /\ UNCHANGED <<now, faults, permit>>

CancelScheduled(j) ==
  /\ IsScheduled(j)
  /\ jobs' = CancelJob(j)
  /\ owed' = owed \cup {[op |-> "cancel", id |-> j]}
  /\ UNCHANGED <<now, faults, permit>>

RequestNotify(r) ==
  /\ r \in owed
  /\ NotifyOne
  /\ owed' = owed \ {r}
  /\ UNCHANGED storeVars

(* The handler stops after its statement took effect: the statement's      *)
(* reply is an error, or the client disconnects and the server drops the   *)
(* handler's future at its await.                                          *)
RequestDropped(r) ==
  /\ r \in owed
  /\ faults > 0
  /\ faults' = faults - 1
  /\ owed' = owed \ {r}
  /\ UNCHANGED <<jobs, now, permit>>

ApiStep ==
  \/ \E j \in Job : CreateJob(j) \/ CancelScheduled(j)
  \/ \E r \in owed : RequestNotify(r) \/ RequestDropped(r)

=============================================================================
