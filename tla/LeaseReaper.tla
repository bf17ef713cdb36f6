---------------------------- MODULE LeaseReaper -----------------------------
(***************************************************************************)
(* The lease reaper task of src/reaper.rs: on every tick of its interval   *)
(* it returns the jobs whose lease ran out to the schedule, and wakes the  *)
(* scheduler if there were any.  The interval's phase is not modelled: a   *)
(* tick may come at any time.                                              *)
(***************************************************************************)
EXTENDS JobStore, Wakeup

VARIABLE rpc  \* "tick", or "notify" between the statement and notify_one

ReaperInit == rpc = "tick"

(* A pass that reclaims nothing, and a failing statement that took no      *)
(* effect, change nothing.                                                 *)
ReapPass ==
  /\ rpc = "tick"
  /\ \E j \in Job : LeaseExpired(jobs[j])
  /\ DbCall(ReapExpiredLeases, rpc' = "notify", UNCHANGED rpc)
  /\ UNCHANGED <<now, permit>>

ReapNotify ==
  /\ rpc = "notify"
  /\ NotifyOne
  /\ rpc' = "tick"
  /\ UNCHANGED storeVars

ReaperStep == ReapPass \/ ReapNotify

=============================================================================
