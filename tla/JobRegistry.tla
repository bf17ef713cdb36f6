----------------------------- MODULE JobRegistry -----------------------------
(***************************************************************************)
(* What POST /jobs promises about idempotency keys (README, "Create a      *)
(* job"): the first request with a key creates its job, and every later    *)
(* one is told of that job.  A job is named after the request it was       *)
(* created for.                                                            *)
(***************************************************************************)
CONSTANTS Request, Key, KeyOf, Null

VARIABLES registry, reply

vars == <<registry, reply>>

Reply(s, j) == [status |-> s, job |-> j]

Init ==
  /\ registry = [k \in Key |-> Null]
  /\ reply = [r \in Request |-> Reply("none", Null)]

Unanswered(r) == reply[r] = Reply("none", Null)
Tell(r, s, j) == reply' = [reply EXCEPT ![r] = Reply(s, j)]

(* The job is created; its client may be told at once, or told an error    *)
(* although it was.                                                        *)
Create(r) ==
  /\ Unanswered(r)
  /\ registry[KeyOf[r]] = Null
  /\ registry' = [registry EXCEPT ![KeyOf[r]] = r]
  /\ UNCHANGED reply \/ Tell(r, "created", r) \/ Tell(r, "error", Null)

(* 201 for the request that created the job of its key, 200 with that job  *)
(* for the others once there is one; an error is possible at any time and  *)
(* says nothing.                                                           *)
Inform(r) ==
  /\ Unanswered(r)
  /\ \/ registry[KeyOf[r]] = r /\ Tell(r, "created", r)
     \/ registry[KeyOf[r]] \notin {r, Null} /\ Tell(r, "existing", registry[KeyOf[r]])
     \/ Tell(r, "error", Null)
  /\ UNCHANGED registry

Next == \E r \in Request : Create(r) \/ Inform(r)

Spec == Init /\ [][Next]_vars

=============================================================================
