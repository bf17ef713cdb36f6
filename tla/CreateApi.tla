------------------------------ MODULE CreateApi ------------------------------
(***************************************************************************)
(* POST /jobs by many clients at once (src/api/handlers/jobs.rs:23-64,     *)
(* src/recurring.rs:50-86): the lookup of the idempotency key, the         *)
(* insertion of the job or of a template and its first instance, and the   *)
(* answer, as separate steps of each request's handler.  A client that     *)
(* repeats a request is a further request with the same key.               *)
(*                                                                         *)
(*   rows    the requests whose row (job or template) is in the table; a   *)
(*           row is named after its request, its id being a fresh UUID     *)
(*   first   the templates whose first instance is in the table            *)
(*   pc      where the handler of a request is                             *)
(*   answer  what the client was told                                      *)
(*   faults  how many more failures may happen: statements that fail       *)
(*           (committed or not), and handlers that are dropped because     *)
(*           the client disconnects or the process dies                    *)
(*                                                                         *)
(* What happens to the rows later (they are never deleted), and the        *)
(* notifications of the scheduler, are modelled in Kronkeeper and          *)
(* Recurring.                                                              *)
(***************************************************************************)
EXTENDS Naturals

CONSTANTS
  Request,
  Key,
  KeyOf,      \* idempotency_key of a request
  Repeating,  \* the requests with a recurrence
  Fires,      \* the requests whose cron expression has a next fire time
  MaxFaults,
  Null

ASSUME CreateApiAssumption ==
  /\ KeyOf \in [Request -> Key]
  /\ Repeating \subseteq Request
  /\ Fires \subseteq Request
  /\ MaxFaults \in Nat
  /\ Null \notin Request

VARIABLES rows, first, pc, answer, faults

vars == <<rows, first, pc, answer, faults>>

(* Positions of a handler.                                                 *)
(*   new      the request is not sent yet                                  *)
(*   select   at get_by_idempotency_key                                    *)
(*   insert   at insert_job                                                *)
(*   first    template inserted, at insert_instance                        *)
(*   done     answered, or dropped                                         *)
Pc == {"new", "select", "insert", "first", "done"}

(* The status, and the job in the body: a row, or the first instance of a  *)
(* template.                                                               *)
NoAnswer == [status |-> "none", job |-> Null, instance |-> FALSE]
Failure  == [status |-> "error", job |-> Null, instance |-> FALSE]
Answer == [status   : {"none", "created", "existing", "error"},
           job      : Request \cup {Null},
           instance : BOOLEAN]

Init ==
  /\ rows = {}
  /\ first = {}
  /\ pc = [r \in Request |-> "new"]
  /\ answer = [r \in Request |-> NoAnswer]
  /\ faults = MaxFaults

RowsOf(k) == {s \in rows : KeyOf[s] = k}

-----------------------------------------------------------------------------
GoTo(r, p) == pc' = [pc EXCEPT ![r] = p] /\ UNCHANGED answer

Respond(r, a) ==
  /\ pc' = [pc EXCEPT ![r] = "done"]
  /\ answer' = [answer EXCEPT ![r] = a]

(* A statement that makes the table <<t, f>>, as in the core.              *)
Statement(r, t, f, ok) ==
  \/ /\ rows' = t /\ first' = f
     /\ ok
     /\ UNCHANGED faults
  \/ /\ faults > 0
     /\ faults' = faults - 1
     /\ \/ rows' = t /\ first' = f
        \/ UNCHANGED <<rows, first>>
     /\ Respond(r, Failure)

Receive(r) ==
  /\ pc[r] = "new"
  /\ GoTo(r, "select")
  /\ UNCHANGED <<rows, first, faults>>

SelectCreated(r) ==  \* mutant: the status of a new job for an existing one
  /\ pc[r] = "select"
  /\ \/ \E s \in RowsOf(KeyOf[r]) :
          Statement(r, rows, first,
                    Respond(r, [status |-> "created", job |-> s, instance |-> FALSE]))
     \/ /\ RowsOf(KeyOf[r]) = {}
        /\ Statement(r, rows, first, GoTo(r, "insert"))

(* A request for recurrence is refused before the INSERT if the expression *)
(* has no next fire time.                                                  *)
Select(r) ==
  /\ pc[r] = "select"
  /\ \/ \E s \in RowsOf(KeyOf[r]) :
          Statement(r, rows, first,
                    Respond(r, [status |-> "existing", job |-> s, instance |-> FALSE]))
     \/ /\ RowsOf(KeyOf[r]) = {}
        /\ Statement(r, rows, first,
                     IF r \in Repeating \ Fires THEN Respond(r, Failure)
                                                ELSE GoTo(r, "insert"))

InsertedTemplateOnly(r) ==  \* mutant: the first instance is forgotten
  Respond(r, [status |-> "created", job |-> r, instance |-> FALSE])
InsertedAsTemplate(r) == GoTo(r, "first")  \* mutant: every row gets an instance
Inserted(r) ==
  IF r \in Repeating
  THEN GoTo(r, "first")
  ELSE Respond(r, [status |-> "created", job |-> r, instance |-> FALSE])

InsertUnchecked(r) ==  \* mutant: no UNIQUE constraint on idempotency_key
  /\ pc[r] = "insert"
  /\ Statement(r, rows \cup {r}, first, Inserted(r))

(* The UNIQUE constraint refuses a second row with the key.                *)
Insert(r) ==
  /\ pc[r] = "insert"
  /\ \/ /\ RowsOf(KeyOf[r]) = {}
        /\ Statement(r, rows \cup {r}, first, Inserted(r))
     \/ /\ RowsOf(KeyOf[r]) # {}
        /\ Respond(r, Failure)
        /\ UNCHANGED <<rows, first, faults>>

InsertFirstSameKey(r) ==  \* mutant: the instance has the template's key
  /\ pc[r] = "first"
  /\ Respond(r, Failure)
  /\ UNCHANGED <<rows, first, faults>>

InsertFirst(r) ==
  /\ pc[r] = "first"
  /\ Statement(r, rows, first \cup {r},
               Respond(r, [status |-> "created", job |-> r, instance |-> TRUE]))

Drop(r) ==
  /\ pc[r] \in {"select", "insert", "first"}
  /\ faults > 0
  /\ faults' = faults - 1
  /\ GoTo(r, "done")
  /\ UNCHANGED <<rows, first>>

Handle(r) == Receive(r) \/ Select(r) \/ Insert(r) \/ InsertFirst(r)

Next == \E r \in Request : Handle(r) \/ Drop(r)

Spec == Init /\ [][Next]_vars

(* Requests that were sent are handled; no statement hangs for ever.       *)
FairSpec == Spec /\ \A r \in Request : WF_vars(Handle(r) /\ pc[r] # "new")

-----------------------------------------------------------------------------
TypeOK ==
  /\ rows \subseteq Request
  /\ first \subseteq rows \cap Repeating
  /\ pc \in [Request -> Pc]
  /\ answer \in [Request -> Answer]
  /\ faults \in 0..MaxFaults

Answered(r, s) == answer[r].status = s
Schedulable(r) == r \in rows /\ (r \in Repeating => r \in first)
NothingFailed == faults = MaxFaults

(* All clients of a key that were not told of an error were told of its    *)
(* only row, and one of them at most that the row was inserted for it: the *)
(* lookup and the INSERT are two statements (jobs.rs:34, :48), so this     *)
(* rests on the UNIQUE constraint.  That one client, and nobody else, is   *)
(* answered with the first instance of its template, once it is in the     *)
(* table (jobs.rs:39-43).                                                  *)
OneJobPerKey ==
  /\ \A r \in Request : answer[r].job # Null =>
       /\ RowsOf(KeyOf[r]) = {answer[r].job}
       /\ answer[r].instance <=> Answered(r, "created") /\ r \in first
  /\ \A r, s \in Request :
       Answered(r, "created") /\ Answered(s, "created") /\ KeyOf[r] = KeyOf[s] => r = s

(* What the documentation promises: a repeated request is answered with    *)
(* the same job id (README.md:121).  The code violates it for recurring    *)
(* jobs: the first client gets the id of the instance, a repeated request  *)
(* the row with the key, which is the template (jobs.rs:34-43).            *)
SameJobAgain ==
  \A r, s \in Request :
    answer[r].job # Null /\ answer[s].job # Null /\ KeyOf[r] = KeyOf[s] =>
      answer[r].job = answer[s].job /\ (answer[r].instance <=> answer[s].instance)

(* A client is told of an error only if something failed, its expression   *)
(* was refused, or another request took the key between the lookup and the *)
(* INSERT; in that last case the key has a job, and repeating the request  *)
(* helps.                                                                  *)
ErrorsExplained ==
  \A r \in Request :
    Answered(r, "error") /\ NothingFailed =>
      r \in Repeating \ Fires \/ RowsOf(KeyOf[r]) \notin {{}, {r}}

(* Whoever was told that a job was created or exists can rely on it being  *)
(* scheduled: for a recurring job, on its first instance, which follows    *)
(* the template that a second client may already have been told of         *)
(* (recurring.rs:58-79), unless something fails in between.                *)
AcceptedIsScheduled ==
  \A r \in Request :
    Answered(r, "created") \/ Answered(r, "existing")
      ~> (\E s \in RowsOf(KeyOf[r]) : Schedulable(s)) \/ ~NothingFailed

(* Until something fails, nobody has been told of a job that is neither    *)
(* scheduled nor about to be: the job, or the first instance of the        *)
(* template, is in the table, or the handler that inserted the template is *)
(* at its next statement (recurring.rs:58-79).                             *)
AcceptedIsKept ==
  NothingFailed =>
    \A r \in Request :
      Answered(r, "created") \/ Answered(r, "existing") =>
        \E s \in RowsOf(KeyOf[r]) : Schedulable(s) \/ pc[s] = "first"

(* The handlers implement the registry of keys, in which a template and    *)
(* its first instance are one job.                                         *)
RegistryOf ==
  [k \in Key |-> IF RowsOf(k) = {} THEN Null ELSE CHOOSE s \in rows : KeyOf[s] = k]

Registry == INSTANCE JobRegistry WITH
  registry <- RegistryOf,
  reply <- [r \in Request |-> [status |-> answer[r].status, job |-> answer[r].job]]

ImplementsRegistry == Registry!Spec

=============================================================================
