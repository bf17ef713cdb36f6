--------------------------- MODULE WebhookEmitter ---------------------------
(***************************************************************************)
(* The daemon with the webhook emitter of src/webhook.rs.  A worker that   *)
(* stored a terminal state runs WebhookEmitter::emit before its next turn: *)
(* the single step EmitWebhook of the core becomes a read of the row, a    *)
(* loop of POSTs to the client's endpoint and an UPDATE of the row's       *)
(* webhook columns.  Every step is a step of the core or leaves the core's *)
(* state alone.                                                            *)
(*                                                                         *)
(*   hook      columns webhook_success (NULL, TRUE, FALSE) and             *)
(*             webhook_attempts of each row                                *)
(*   emission  the locals of emit, per worker                              *)
(*   received  the events the endpoint of each job has received, in order  *)
(*             (outside of the system)                                     *)
(*                                                                         *)
(* The sleep between two attempts is part of the wait for the next POST.   *)
(***************************************************************************)
EXTENDS Kronkeeper

CONSTANTS
  Announced,          \* the jobs that have a webhook_url
  WebhookMaxRetries   \* Config::webhook_max_retries, an i32

ASSUME WebhookAssumption ==
  /\ Announced \subseteq Job
  /\ WebhookMaxRetries \in Int

VARIABLES hook, emission, received

hookVars == <<hook, emission, received>>

HookRow == [success : {"NULL", "TRUE", "FALSE"}, attempts : Nat]

(* load: the row is not read yet; send: at a POST; store: loop left.       *)
Emission == [at       : {"load", "send", "store"},
             event    : Terminal \cup {Null},
             attempts : Nat,
             success  : {"TRUE", "FALSE"}]

NoEmission == [at |-> "load", event |-> Null, attempts |-> 0, success |-> "FALSE"]

HookInit ==
  /\ hook = [j \in Job |-> [success |-> "NULL", attempts |-> 0]]
  /\ emission = [w \in Worker |-> NoEmission]
  /\ received = [j \in Job |-> <<>>]

-----------------------------------------------------------------------------
(* emit returns, and with it the worker's turn; its last statement may     *)
(* have failed.                                                            *)
EmitReturns(w) ==
  /\ EmitWebhook(w)
  /\ emission' = [emission EXCEPT ![w] = NoEmission]
  /\ UNCHANGED <<schedVars, rpc, owed, crashes>>

StatementFailed == faults' # faults

Emitting(w, at) == wpc[w] = "emit" /\ emission[w].at = at

(* while attempts <= max_retries                                           *)
LoopHeadStrict(n) == IF n < WebhookMaxRetries THEN "send" ELSE "store"  \* mutant
LoopHead(n) == IF n <= WebhookMaxRetries THEN "send" ELSE "store"

(* get_job_by_id_internal and the early returns.                           *)
EmitLoad(w) ==
  LET j == held[w].id IN
  /\ Emitting(w, "load")
  /\ \/ /\ jobs[j].state \in Terminal
        /\ j \in Announced
        /\ emission' = [emission EXCEPT ![w] =
             [at |-> LoopHead(hook[j].attempts), event |-> jobs[j].state,
              attempts |-> hook[j].attempts, success |-> "FALSE"]]
        /\ UNCHANGED vars
     \/ /\ EmitReturns(w)
        /\ StatementFailed \/ jobs[j].state \notin Terminal \/ j \notin Announced
  /\ UNCHANGED <<hook, received>>

Got(w) == [received EXCEPT ![held[w].id] = Append(@, emission[w].event)]

(* A POST: answered with a 2xx status, or with another one, or not in time *)
(* (WEBHOOK_TIMEOUT_SECS); an unanswered POST may or may not have arrived. *)
EmitSend(w) ==
  LET e == emission[w]
      n == e.attempts + 1
  IN  /\ Emitting(w, "send")
      /\ \/ /\ emission' = [emission EXCEPT ![w] =
                 [e EXCEPT !.at = "store", !.attempts = n, !.success = "TRUE"]]
            /\ received' = Got(w)
         \/ /\ emission' = [emission EXCEPT ![w] =
                 [e EXCEPT !.at = LoopHead(n), !.attempts = n]]
            /\ received' \in {received, Got(w)}
      /\ UNCHANGED <<vars, hook>>

UpdateWebhookResult(j, e) ==
  [hook EXCEPT ![j] = [success |-> e.success, attempts |-> e.attempts]]

EmitStoreTwice(w) ==  \* mutant: emit starts again after its UPDATE
  /\ Emitting(w, "store")
  /\ hook' = UpdateWebhookResult(held[w].id, emission[w])
  /\ emission' = [emission EXCEPT ![w] = NoEmission]
  /\ UNCHANGED <<vars, received>>

EmitStoreSuccess(w) ==  \* mutant: only a success is recorded
  /\ Emitting(w, "store")
  /\ hook' = IF emission[w].success = "TRUE"
               THEN UpdateWebhookResult(held[w].id, emission[w]) ELSE hook
  /\ EmitReturns(w)
  /\ UNCHANGED received

EmitStore(w) ==
  /\ Emitting(w, "store")
  /\ EmitReturns(w)
  /\ \/ hook' = UpdateWebhookResult(held[w].id, emission[w])
     \/ StatementFailed /\ UNCHANGED hook
  /\ UNCHANGED received

EmitStep(w) == EmitLoad(w) \/ EmitSend(w) \/ EmitStore(w)

-----------------------------------------------------------------------------
(* The core with the emitter in the place of EmitWebhook.                  *)
HookCrash ==
  /\ Crash
  /\ emission' = [w \in Worker |-> NoEmission]
  /\ UNCHANGED <<hook, received>>

WorkElsewhere(w) == wpc[w] # "emit" /\ Work(w)

CoreStep ==
  \/ Boot
  \/ StopWorkers
  \/ Tick
  \/ Schedule
  \/ \E w \in Worker : WorkElsewhere(w)
  \/ Reap
  \/ Serve

HookNext ==
  \/ CoreStep /\ UNCHANGED hookVars
  \/ HookCrash
  \/ \E w \in Worker : EmitStep(w)

HookSpec == Init /\ HookInit /\ [][HookNext]_<<vars, hookVars>>

HookTypeOK ==
  /\ hook \in [Job -> HookRow]
  /\ emission \in [Worker -> Emission]
  /\ received \in [Job -> Seq(Terminal)]

-----------------------------------------------------------------------------
(* What the endpoint is told is true, when leases outlast the wait for a   *)
(* worker: every event it receives is the state the job has for good (the  *)
(* body is built from a row that is read again, webhook.rs:33-53), it      *)
(* receives no more POSTs than one emission may send (webhook.rs:59),      *)
(* webhook_success = TRUE means that it did receive one, and FALSE that    *)
(* all attempts were used (webhook.rs:88-94).                              *)
WebhookTruth ==
  \A j \in Job :
    /\ \A i \in 1..Len(received[j]) : received[j][i] = jobs[j].state
    /\ received[j] # <<>> => Len(received[j]) <= WebhookMaxRetries + 1
    /\ hook[j].success = "TRUE" => received[j] # <<>>
    /\ hook[j].success = "FALSE" => hook[j].attempts > WebhookMaxRetries

(* A job is announced by one emission only: the recorded outcome is never  *)
(* overwritten, in particular not by a second emission that starts from    *)
(* the stored counter and finds no attempts left (webhook.rs:55-59).       *)
WebhookResultFinal ==
  [][\A j \in Job : hook[j].success # "NULL" => hook'[j] = hook[j]]_<<vars, hookVars>>

(* No verdict goes unannounced, unless the process ended or a statement    *)
(* failed: a job that a worker brought to a terminal state has the outcome *)
(* of its callback recorded, or the worker is still at it (result.rs:62,   *)
(* :75 and :90 are followed by emit, webhook.rs:95 records the outcome of  *)
(* every emission that was not cut short).                                 *)
Verdict == {"COMPLETED", "EXPIRED", "DEAD_LETTER"}

VerdictsAnnounced ==
  NothingFailed /\ crashes = 0 =>
    \A j \in Announced :
      jobs[j].state \in Verdict =>
        \/ hook[j].success # "NULL"
        \/ \E w \in Worker : wpc[w] = "emit" /\ held[w].id = j

(* The outcome of the callback of every verdict is recorded (README,       *)
(* "Webhooks"), unless the process ended or a statement failed.            *)
EveryVerdictReported ==
  \A j \in Announced :
    jobs[j].state \in Verdict
      ~> \/ hook[j].success # "NULL"
         \/ crashes > 0 \/ faults < MaxFaults

=============================================================================
