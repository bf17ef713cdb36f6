------------------------------ MODULE JobStore ------------------------------
(***************************************************************************)
(* The PostgreSQL table `jobs` and the statements of the repository        *)
(* (src/db/queries.rs) that read and write it, for one-off jobs.           *)
(*                                                                         *)
(* Every statement is one SQL UPDATE, INSERT or SELECT, so it is atomic;   *)
(* it is modelled as the table that results from it.  The tasks of the     *)
(* daemon (scheduler, workers, reaper, request handlers) take one step per *)
(* statement: whatever they remember between two statements may be stale.  *)
(*                                                                         *)
(*   jobs    the table; a row that was not inserted has state "ABSENT"     *)
(*   now     the clock: Utc::now() of the daemon and NOW() of the database *)
(*   faults  how many more injected failures may happen (a failing         *)
(*           statement, an abandoned request, a panicking worker)          *)
(***************************************************************************)
EXTENDS Integers

CONSTANTS
  Job,           \* ids of the jobs that clients may create
  DueAt,         \* [Job -> Int], scheduled_at of the POST request
  ExpiresAt,     \* [Job -> Int or Null], expires_at of the POST request
  MaxRetries,    \* [Job -> Int], max_retries of the POST request
  LeaseDuration, \* Config::lease_duration
  Null           \* SQL NULL and Option::None

ASSUME JobStoreAssumption ==
  /\ DueAt \in [Job -> Int]
  /\ ExpiresAt \in [Job -> Int \cup {Null}]
  /\ MaxRetries \in [Job -> Int]
  /\ LeaseDuration \in Nat
  /\ Null \notin Int

VARIABLES jobs, now, faults

storeVars == <<jobs, now, faults>>

(* JobState; "FAILED" is a legal value of the column that no statement of  *)
(* the program writes.                                                     *)
Terminal == {"COMPLETED", "FAILED", "EXPIRED", "CANCELLED", "DEAD_LETTER"}
JobState == {"SCHEDULED", "LEASED", "RUNNING"} \cup Terminal

Row == [state       : JobState \cup {"ABSENT"},
        scheduledAt : Int,
        leasedUntil : Int \cup {Null},
        attempt     : Nat]

NewRow(j) == [state |-> "SCHEDULED", scheduledAt |-> DueAt[j],
              leasedUntil |-> Null, attempt |-> 0]

StoreInit(maxFaults) ==
  /\ jobs = [j \in Job |-> [NewRow(j) EXCEPT !.state = "ABSENT"]]
  /\ now = 0
  /\ faults = maxFaults

StoreTypeOK ==
  /\ jobs \in [Job -> Row]
  /\ now \in Nat
  /\ faults \in Nat

-----------------------------------------------------------------------------
(* The in-memory value `Job` that a task keeps of a row: what lease_job    *)
(* returned.  It is not refreshed when the row changes.                    *)
Copy == [id : Job, scheduledAt : Int, attempt : Nat]

CopyOf(j) == [id |-> j, scheduledAt |-> jobs[j].scheduledAt,
              attempt |-> jobs[j].attempt]

IsScheduled(j) == jobs[j].state = "SCHEDULED"
PastTTL(j) == ExpiresAt[j] # Null /\ now >= ExpiresAt[j]

-----------------------------------------------------------------------------
(* The statements, each as the table after it.                             *)

InsertJob(j) == [jobs EXCEPT ![j] = NewRow(j)]

(* WHERE state = 'SCHEDULED' is the caller's test IsScheduled(j).          *)
LeaseJob(j) ==
  [jobs EXCEPT ![j] = [@ EXCEPT !.state = "LEASED",
                                !.leasedUntil = now + LeaseDuration]]

(* set_running, set_completed and set_state: no condition on the row's     *)
(* present state.                                                          *)
SetState(j, s) == [jobs EXCEPT ![j] = [@ EXCEPT !.state = s]]

ScheduleRetry(j, at, n) ==
  [jobs EXCEPT ![j] = [state |-> "SCHEDULED", scheduledAt |-> at,
                       leasedUntil |-> Null, attempt |-> n]]

Reclaimed(r) == [r EXCEPT !.state = "SCHEDULED", !.leasedUntil = Null]

LeaseExpiredAnyState(r) ==  \* mutant: no WHERE state = 'LEASED'
  r.state \notin Terminal /\ r.leasedUntil # Null /\ r.leasedUntil < now
LeaseExpired(r) == r.state = "LEASED" /\ r.leasedUntil # Null /\ r.leasedUntil < now

ReapExpiredLeases ==
  [j \in Job |-> IF LeaseExpired(jobs[j]) THEN Reclaimed(jobs[j]) ELSE jobs[j]]

Orphaned(r) ==
  /\ r.state \in {"LEASED", "RUNNING"}
  /\ \/ r.leasedUntil = Null
     \/ r.leasedUntil < now

RecoverOnStartup ==
  [j \in Job |-> IF Orphaned(jobs[j]) THEN Reclaimed(jobs[j]) ELSE jobs[j]]

CancelJob(j) == SetState(j, "CANCELLED")

-----------------------------------------------------------------------------
(* A task awaits a statement whose result is table t.  Either it succeeds  *)
(* and the task goes on with ok, or sqlx returns an error and the task     *)
(* goes on with failed: the statement may or may not have taken effect (a  *)
(* connection can break after the commit).                                 *)
DbCall(t, ok, failed) ==
  \/ /\ jobs' = t
     /\ ok
     /\ UNCHANGED faults
  \/ /\ faults > 0
     /\ faults' = faults - 1
     /\ jobs' \in {jobs, t}
     /\ failed

=============================================================================
