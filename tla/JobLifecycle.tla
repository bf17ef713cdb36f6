---------------------------- MODULE JobLifecycle ----------------------------
(***************************************************************************)
(* What the daemon promises about one-off jobs, whatever its tasks do: the *)
(* job state machine of the README, with the attempt counter and with what *)
(* only a restart may do.  Nothing here knows of heaps, queues, copies of  *)
(* rows, failing statements or time.                                       *)
(*                                                                         *)
(* A running job leaves RUNNING by the verdict on that run only, which     *)
(* counts every attempt once; while the daemon is up nothing else takes    *)
(* it, so no job runs twice at a time.  Terminal states are final.         *)
(***************************************************************************)
EXTENDS Integers

CONSTANTS
  Job,
  MaxRetries,  \* [Job -> Int]
  MayExpire    \* the jobs that have an expires_at

VARIABLES
  state,    \* [Job -> state]
  attempt,  \* [Job -> number of attempts already counted]
  up        \* is the daemon running?

lifeVars == <<state, attempt, up>>

Init ==
  /\ state = [j \in Job |-> "ABSENT"]
  /\ attempt = [j \in Job |-> 0]
  /\ up = FALSE

Move(j, from, to) ==
  /\ up
  /\ state[j] = from
  /\ state' = [state EXCEPT ![j] = to]
  /\ up' = up

(* A move that counts no attempt.                                          *)
Quietly(j, from, to) == Move(j, from, to) /\ UNCHANGED attempt

Create(j)   == Move(j, "ABSENT", "SCHEDULED") /\ attempt' = [attempt EXCEPT ![j] = 0]
Cancel(j)   == Quietly(j, "SCHEDULED", "CANCELLED")
Lease(j)    == Quietly(j, "SCHEDULED", "LEASED")
Start(j)    == Quietly(j, "LEASED", "RUNNING")
Complete(j) == Quietly(j, "RUNNING", "COMPLETED")
Expire(j)   == j \in MayExpire /\ Quietly(j, "RUNNING", "EXPIRED")

DeadLetter(j) ==
  /\ attempt[j] >= MaxRetries[j]
  /\ Quietly(j, "RUNNING", "DEAD_LETTER")

Retry(j) ==
  /\ attempt[j] < MaxRetries[j]
  /\ Move(j, "RUNNING", "SCHEDULED")
  /\ attempt' = [attempt EXCEPT ![j] = @ + 1]

BackToSchedule(S) ==
  /\ state' = [j \in Job |-> IF j \in S THEN "SCHEDULED" ELSE state[j]]
  /\ UNCHANGED attempt

(* The reaper, or the scheduler facing a full queue.                       *)
Release(S) ==
  /\ up
  /\ \A j \in S : state[j] = "LEASED"
  /\ BackToSchedule(S)
  /\ up' = up

Stop == up /\ up' = FALSE /\ UNCHANGED <<state, attempt>>

(* A restart, complete or given up after its recovery statement.           *)
Recover(S) ==
  /\ ~up
  /\ \A j \in S : state[j] \in {"LEASED", "RUNNING"}
  /\ BackToSchedule(S)
  /\ up' \in BOOLEAN

Next ==
  \/ \E j \in Job :
       \/ Create(j) \/ Cancel(j) \/ Lease(j) \/ Start(j)
       \/ Complete(j) \/ Expire(j) \/ DeadLetter(j) \/ Retry(j)
  \/ \E S \in SUBSET Job : Release(S) \/ Recover(S)
  \/ Stop

Spec == Init /\ [][Next]_lifeVars

=============================================================================
