------------------------------ MODULE Shutdown ------------------------------
(***************************************************************************)
(* The whole daemon with its graceful shutdown: the end of main            *)
(* (src/main.rs:105-118) and the counter of busy workers that              *)
(* wait_for_drain reads (src/worker/pool.rs).                              *)
(*                                                                         *)
(* A signal makes axum stop accepting connections and wait for the         *)
(* requests it has; then main tells the waiting workers to stop, polls the *)
(* counter until it is 0 or SHUTDOWN_TIMEOUT_SECS are over, and returns,   *)
(* which ends the process.  The scheduler, the reaper and the busy workers *)
(* go on until then.                                                       *)
(*                                                                         *)
(*   phase     where main is                                               *)
(*   counted   the workers between fetch_add and fetch_sub; the counter    *)
(*             `active` is their number                                    *)
(*   polls     how often wait_for_drain has slept                          *)
(*   underway  the runs that were in flight when the pool was told to stop *)
(*             (a history variable)                                        *)
(***************************************************************************)
EXTENDS WebhookEmitter

CONSTANT MaxPolls  \* the polls that SHUTDOWN_TIMEOUT_SECS allows

ASSUME ShutdownAssumption == MaxPolls \in Nat

VARIABLES phase, counted, polls, underway

mainVars == <<phase, counted, polls, underway>>
daemonVars == <<vars, hookVars, mainVars>>

(* Positions of main.                                                      *)
(*   serve    axum::serve is running                                       *)
(*   closing  the signal has come, requests are being finished             *)
(*   drain    in wait_for_drain                                            *)
(*   drained, timeout                                                      *)
(*            wait_for_drain has returned; the process is about to end     *)
MainPc == {"serve", "closing", "drain", "drained", "timeout"}

(* The process has ended or not yet started again.                         *)
FreshMain ==
  /\ phase = "serve"
  /\ counted = {}
  /\ polls = 0
  /\ underway = {}

DaemonInit == Init /\ HookInit /\ FreshMain

-----------------------------------------------------------------------------
(* active.fetch_add, after recv() and before set_running.                  *)
FetchAdd(w) ==
  /\ wpc[w] = "start"
  /\ w \notin counted
  /\ counted' = counted \cup {w}
  /\ UNCHANGED <<vars, hookVars, phase, polls, underway>>

(* active.fetch_sub, after the turn.  A worker that panics never gets      *)
(* here.                                                                   *)
FetchSubEarly(w) ==  \* mutant: before the result is handled
  /\ wpc[w] \in {"recv", "complete"}
  /\ w \in counted
  /\ counted' = counted \ {w}
  /\ UNCHANGED <<vars, hookVars, phase, polls, underway>>

FetchSub(w) ==
  /\ wpc[w] = "recv"
  /\ w \in counted
  /\ counted' = counted \ {w}
  /\ UNCHANGED <<vars, hookVars, phase, polls, underway>>

WorkCounted(w) ==
  /\ wpc[w] = "recv" => w \notin counted
  /\ wpc[w] = "start" => w \in counted
  /\ WorkElsewhere(w)

-----------------------------------------------------------------------------
Signal ==
  /\ Up
  /\ MayShutDown
  /\ crashes < MaxCrashes
  /\ phase = "serve"
  /\ phase' = "closing"
  /\ UNCHANGED <<vars, hookVars, counted, polls, underway>>

(* axum::serve returns when no request is left; worker_pool.shutdown().    *)
ServeReturns ==
  /\ phase = "closing"
  /\ owed = {}
  /\ StopWorkers
  /\ told' \cap counted = told \cap counted
  /\ phase' = "drain"
  /\ underway' = {[id |-> held[w].id, attempt |-> held[w].attempt] :
                     w \in {v \in counted : wpc[v] \notin {"recv", "gone"}}}
  /\ UNCHANGED <<hookVars, counted, polls>>

PollOnceMore ==  \* mutant: off by one
  /\ phase = "drain"
  /\ \/ counted = {} /\ phase' = "drained" /\ UNCHANGED polls
     \/ counted # {} /\ polls <= MaxPolls /\ polls' = polls + 1 /\ UNCHANGED phase
     \/ counted # {} /\ polls > MaxPolls /\ phase' = "timeout" /\ UNCHANGED polls
  /\ UNCHANGED <<vars, hookVars, counted, underway>>

PollForever ==  \* mutant: no time-out
  /\ phase = "drain"
  /\ \/ counted = {} /\ phase' = "drained" /\ UNCHANGED polls
     \/ counted # {} /\ polls < MaxPolls /\ polls' = polls + 1 /\ UNCHANGED phase
  /\ UNCHANGED <<vars, hookVars, counted, underway>>

Poll ==
  /\ phase = "drain"
  /\ \/ counted = {} /\ phase' = "drained" /\ UNCHANGED polls
     \/ counted # {} /\ polls < MaxPolls /\ polls' = polls + 1 /\ UNCHANGED phase
     \/ counted # {} /\ polls = MaxPolls /\ phase' = "timeout" /\ UNCHANGED polls
  /\ UNCHANGED <<vars, hookVars, counted, underway>>

(* main returns, or the process is killed at any other time.               *)
ProcessEnds ==
  /\ HookCrash
  /\ phase' = "serve"
  /\ counted' = {}
  /\ polls' = 0
  /\ underway' = {}

MainReturns == phase \in {"drained", "timeout"} /\ ProcessEnds

-----------------------------------------------------------------------------
Background ==
  \/ Boot
  \/ Tick
  \/ Schedule
  \/ Reap
  \/ phase \in {"serve", "closing"} /\ Serve

DaemonNext ==
  \/ Background /\ UNCHANGED <<hookVars, mainVars>>
  \/ \E w \in Worker :
       \/ WorkCounted(w) /\ UNCHANGED <<hookVars, mainVars>>
       \/ EmitStep(w) /\ UNCHANGED mainVars
       \/ FetchAdd(w)
       \/ FetchSub(w)
  \/ Signal
  \/ ServeReturns
  \/ Poll
  \/ ProcessEnds

DaemonSpec == DaemonInit /\ [][DaemonNext]_daemonVars

-----------------------------------------------------------------------------
DaemonTypeOK ==
  /\ TypeOK
  /\ HookTypeOK
  /\ phase \in MainPc
  /\ counted \subseteq Worker
  /\ polls \in 0..MaxPolls
  /\ underway \subseteq [id : Job, attempt : Nat]

(* Draining does what it is for, when nothing fails and leases outlast the *)
(* wait for a worker: when main has seen the counter at 0, every run that  *)
(* was in flight when the pool was told to stop is over; its retry is on   *)
(* the schedule, or its job is in a terminal state and the outcome of its  *)
(* callback is recorded (pool.rs:29-37, 91-112).                           *)
InFlightDrained ==
  phase = "drained" /\ NothingFailed =>
    \A u \in underway :
      jobs[u.id].attempt = u.attempt =>
        /\ jobs[u.id].state \in Terminal
        /\ u.id \in Announced => hook[u.id].success # "NULL"

(* Fairness as in the core; main goes on when it can.                      *)
FairDaemon ==
  /\ DaemonSpec
  /\ WF_daemonVars(Boot /\ UNCHANGED <<hookVars, mainVars>>)
  /\ WF_daemonVars(Tick /\ UNCHANGED <<hookVars, mainVars>>)
  /\ WF_daemonVars(Schedule /\ UNCHANGED <<hookVars, mainVars>>)
  /\ WF_daemonVars(Reap /\ UNCHANGED <<hookVars, mainVars>>)
  /\ \A w \in Worker :
       /\ WF_daemonVars(WorkCounted(w) /\ UNCHANGED <<hookVars, mainVars>>)
       /\ WF_daemonVars(EmitStep(w) /\ UNCHANGED mainVars)
       /\ WF_daemonVars(FetchAdd(w) \/ FetchSub(w))
  /\ \A r \in Request :
       WF_daemonVars(/\ Up /\ RequestNotify(r)
                     /\ UNCHANGED <<queue, workerVars, schedVars, rpc, crashes>>
                     /\ UNCHANGED <<hookVars, mainVars>>)
  /\ WF_daemonVars(ServeReturns)
  /\ WF_daemonVars(Poll)
  /\ WF_daemonVars(MainReturns)

(* A shutdown ends: whatever the workers do, and however many of them      *)
(* panicked without leaving the counter, the process exits.                *)
ShutdownEnds == (phase # "serve") ~> (phase = "serve")

=============================================================================
