----------------------------- MODULE Recurring ------------------------------
(***************************************************************************)
(* Recurring jobs (src/recurring.rs): a template row, the instances that   *)
(* are spawned from it, and the tasks that change them: POST, PATCH and    *)
(* DELETE of the template, and the workers that run an instance and then   *)
(* spawn the next one.  Templates do not interact; this is one of them.    *)
(*                                                                         *)
(*   tmpl    the template row                                              *)
(*   inst    the instance rows; an instance's idempotency key is           *)
(*           "template:fire time", so its fire time names it               *)
(*   wpc     where a worker is; one value per await point                  *)
(*   held    the instance a worker took: its name and its scheduled_at     *)
(*   seen    the template row as spawn_next_instance read it               *)
(*   post    how far the POST is: "none", "template", "done"               *)
(*   delete  how far the DELETE is: "none", "instances", "done"            *)
(*   faults, crashes   how many failures and crashes may still happen      *)
(*   late    how many leases may still end while their jobs wait for a     *)
(*           worker                                                        *)
(*                                                                         *)
(* What happens to a job between its insertion and its run is the business *)
(* of Kronkeeper; here a worker stands for the worker and for the place in *)
(* the queue its job came from, and payloads succeed or fail as they like. *)
(* The notifications of the scheduler and the column next_instance_at,     *)
(* which nothing reads, are left out.                                      *)
(***************************************************************************)
EXTENDS Integers, FiniteSets

CONSTANTS
  Worker,
  Time,            \* the instants of the model
  CronExpr,        \* what clients send as cron_expr, legal or not
  NextFire,        \* [CronExpr -> [Time -> Time or Null]], next_fire_after
  FirstCron,       \* cron_expr and
  ScheduledAt,     \*   scheduled_at of the POST request
  MaxOccurrences,  \* max_occurrences, Int or Null
  EndAt,           \* recurrence_end_at, Int or Null
  Policy,          \* concurrency_policy
  RetryAt,         \* bound: the instants a retry may be scheduled at
  MaxFaults, MaxCrashes,  \* bounds of the injected failures and crashes
  MaxLate,         \* bound of the leases that end in the queue
  Null

ASSUME RecurringAssumption ==
  /\ Time \subseteq Int
  /\ NextFire \in [CronExpr -> [Time -> Time \cup {Null}]]
  /\ \A c \in CronExpr, t \in Time : NextFire[c][t] # Null => NextFire[c][t] > t
  /\ FirstCron \in CronExpr
  /\ ScheduledAt \in Time
  /\ MaxOccurrences \in Int \cup {Null}
  /\ EndAt \in Int \cup {Null}
  /\ Policy \in {"allow", "skip", "queue_once"}
  /\ RetryAt \subseteq Time
  /\ MaxFaults \in Nat
  /\ MaxCrashes \in Nat
  /\ MaxLate \in Nat
  /\ Null \notin Int

VARIABLES tmpl, inst, wpc, held, seen, post, delete, faults, crashes, late

table == <<tmpl, inst>>
workers == <<wpc, held, seen>>
vars == <<table, workers, post, delete, faults, crashes, late>>

Template == [state : {"ABSENT", "SCHEDULED", "COMPLETED", "CANCELLED"},
             cron  : CronExpr,
             count : Nat]     \* occurrences_completed

(* "ENDED" is EXPIRED or DEAD_LETTER.                                      *)
Instance == [state : {"ABSENT", "SCHEDULED", "LEASED", "RUNNING", "COMPLETED",
                      "ENDED", "CANCELLED"},
             at    : Time]

Copy == [id : Time, at : Time]

(* Positions of a worker.  Spawning are those of spawn_next_instance at    *)
(* which the next instance may still be inserted.                          *)
Spawning == {"load", "finish", "count", "key", "insert"}
WorkerPc == {"idle", "start", "run", "skip", "bump"} \cup Spawning

Init ==
  /\ tmpl = [state |-> "ABSENT", cron |-> FirstCron, count |-> 0]
  /\ inst = [f \in Time |-> [state |-> "ABSENT", at |-> f]]
  /\ wpc = [w \in Worker |-> "idle"]
  /\ held = [w \in Worker |-> Null]
  /\ seen = [w \in Worker |-> Null]
  /\ post = "none"
  /\ delete = "none"
  /\ faults = MaxFaults
  /\ crashes = MaxCrashes
  /\ late = MaxLate

-----------------------------------------------------------------------------
(* The statements, as the template or the instances after them.            *)

SetTemplate(s) == [tmpl EXCEPT !.state = s]
DecrementOccurrences == [tmpl EXCEPT !.count = @ - 1]  \* mutant
IncrementOccurrences == [tmpl EXCEPT !.count = @ + 1]

SetInstance(f, s) == [inst EXCEPT ![f].state = s]
Inserted(f) == inst[f].state # "ABSENT"
InsertInstance(f) == [inst EXCEPT ![f] = [state |-> "SCHEDULED", at |-> f]]

CancelPending ==
  [f \in Time |-> IF inst[f].state = "SCHEDULED"
                  THEN [inst[f] EXCEPT !.state = "CANCELLED"] ELSE inst[f]]

(* count_active_siblings: does the policy see another instance?            *)
Competing ==
  CASE Policy = "skip"       -> {"LEASED", "RUNNING"}
    [] Policy = "queue_once" -> {"SCHEDULED", "LEASED", "RUNNING"}
    [] Policy = "allow"      -> {}
AllSiblings ==  \* mutant: finished instances count too
  {f \in Time : inst[f].state \in Competing \cup {"COMPLETED"}}
ActiveSiblings == {f \in Time : inst[f].state \in Competing}

(* A task awaits a statement that makes the table <<t, i>>.  It succeeds,  *)
(* or its caller sees an error and the statement may have taken effect.    *)
Statement(t, i, ok, failed) ==
  \/ /\ tmpl' = t /\ inst' = i
     /\ ok
     /\ UNCHANGED faults
  \/ /\ faults > 0
     /\ faults' = faults - 1
     /\ \/ tmpl' = t /\ inst' = i
        \/ UNCHANGED table
     /\ failed

GoTo(w, pc) == wpc' = [wpc EXCEPT ![w] = pc] /\ UNCHANGED <<held, seen>>

NextTurn(w) ==
  /\ wpc' = [wpc EXCEPT ![w] = "idle"]
  /\ held' = [held EXCEPT ![w] = Null]
  /\ seen' = [seen EXCEPT ![w] = Null]

-----------------------------------------------------------------------------
(* POST: create_recurring inserts the template, then its first instance.   *)
(* A cron expression without a next fire time is refused before.           *)
FirstFire == NextFire[FirstCron][ScheduledAt]

CreateTemplate ==
  /\ post = "none"
  /\ FirstFire # Null
  /\ Statement(SetTemplate("SCHEDULED"), inst, post' = "template", post' = "done")
  /\ UNCHANGED <<workers, delete, crashes, late>>

CreateFirst ==
  /\ post = "template"
  /\ Statement(tmpl, InsertInstance(FirstFire), post' = "done", post' = "done")
  /\ UNCHANGED <<workers, delete, crashes, late>>

(* PATCH stores any expression, in a template of any state.                *)
Patch(c) ==
  /\ tmpl.state # "ABSENT"
  /\ tmpl' = [tmpl EXCEPT !.cron = c]
  /\ UNCHANGED <<inst, workers, post, delete, faults, crashes, late>>

(* DELETE of the template: it is cancelled whatever its state, then its    *)
(* pending instances are.                                                  *)
CancelTemplate ==
  /\ delete = "none"
  /\ tmpl.state # "ABSENT"
  /\ Statement(SetTemplate("CANCELLED"), inst, delete' = "instances", UNCHANGED delete)
  /\ UNCHANGED <<workers, post, crashes, late>>

CancelInstances ==
  /\ delete = "instances"
  /\ Statement(tmpl, CancelPending, delete' = "done", delete' = "none")
  /\ UNCHANGED <<workers, post, crashes, late>>

(* DELETE of a single instance.                                            *)
CancelInstance(f) ==
  /\ inst[f].state = "SCHEDULED"
  /\ inst' = SetInstance(f, "CANCELLED")
  /\ UNCHANGED <<tmpl, workers, post, delete, faults, crashes, late>>

Serve ==
  \/ CreateTemplate
  \/ CreateFirst
  \/ \E c \in CronExpr : Patch(c)
  \/ CancelTemplate
  \/ CancelInstances
  \/ \E f \in Time : CancelInstance(f)

-----------------------------------------------------------------------------
(* The run of an instance.                                                 *)
Lease(w, f) ==
  /\ wpc[w] = "idle"
  /\ inst[f].state = "SCHEDULED"
  /\ inst' = SetInstance(f, "LEASED")
  /\ wpc' = [wpc EXCEPT ![w] = "start"]
  /\ held' = [held EXCEPT ![w] = [id |-> f, at |-> inst[f].at]]
  /\ UNCHANGED <<tmpl, seen, post, delete, faults, crashes, late>>

SetRunning(w) ==
  /\ wpc[w] = "start"
  /\ Statement(tmpl, SetInstance(held[w].id, "RUNNING"), GoTo(w, "run"), NextTurn(w))
  /\ UNCHANGED <<post, delete, crashes, late>>

(* The worker queue was full: the scheduler returns the job.               *)
GiveBack(w) ==
  /\ wpc[w] = "start"
  /\ Statement(tmpl, [inst EXCEPT ![held[w].id] = [state |-> "SCHEDULED", at |-> held[w].at]],
               NextTurn(w), NextTurn(w))
  /\ UNCHANGED <<post, delete, crashes, late>>

(* The payload succeeded.                                                  *)
SetCompletedUnchecked(w) ==  \* mutant: goes on after an error
  /\ wpc[w] = "run"
  /\ Statement(tmpl, SetInstance(held[w].id, "COMPLETED"), GoTo(w, "load"), GoTo(w, "load"))
  /\ UNCHANGED <<post, delete, crashes, late>>

SetCompleted(w) ==
  /\ wpc[w] = "run"
  /\ Statement(tmpl, SetInstance(held[w].id, "COMPLETED"), GoTo(w, "load"), NextTurn(w))
  /\ UNCHANGED <<post, delete, crashes, late>>

(* It failed: the instance is given up, or retried at a time that may lie  *)
(* before its own: nothing bounds retry_delay_sec from below, and its      *)
(* product with a power of two wraps (models/job.rs:341-345).              *)
Failed(w) ==
  /\ wpc[w] = "run"
  /\ \/ \E t \in RetryAt :
          Statement(tmpl, [inst EXCEPT ![held[w].id] = [state |-> "SCHEDULED", at |-> t]],
                    NextTurn(w), NextTurn(w))
     \/ Statement(tmpl, SetInstance(held[w].id, "ENDED"), NextTurn(w), NextTurn(w))
  /\ UNCHANGED <<post, delete, crashes, late>>

(* The reaper: a lease ended.  Its holder has gone, or its job still waits *)
(* for a worker that will run it all the same.                             *)
Reclaim(f) ==
  /\ inst[f].state = "LEASED"
  /\ \/ /\ \A w \in Worker : wpc[w] = "start" => held[w].id # f
        /\ UNCHANGED late
     \/ late > 0 /\ late' = late - 1
  /\ inst' = SetInstance(f, "SCHEDULED")
  /\ UNCHANGED <<tmpl, workers, post, delete, faults, crashes>>

-----------------------------------------------------------------------------
(* spawn_next_instance, called by the worker that completed an instance.   *)

(* next_occurrences >= max of the row that was read.                       *)
LimitPassed(t) == MaxOccurrences # Null /\ t.count >= MaxOccurrences  \* mutant
LimitReached(t) == MaxOccurrences # Null /\ t.count + 1 >= MaxOccurrences

PastEnd(f) == EndAt # Null /\ f > EndAt

(* The fire time of the next instance, from the cron expression that was   *)
(* read and the scheduled_at of the finished one.                          *)
FollowingStart(t, w) == NextFire[t.cron][ScheduledAt]  \* mutant: from the template
Following(t, w) == NextFire[t.cron][held[w].at]
NextAt(w) == Following(seen[w], w)

LoadCancelled(w) ==  \* mutant: the state of the template is not looked at
  /\ wpc[w] = "load"
  /\ Following(tmpl, w) # Null
  /\ wpc' = [wpc EXCEPT ![w] = "count"]
  /\ seen' = [seen EXCEPT ![w] = tmpl]
  /\ UNCHANGED <<table, held, post, delete, faults, crashes, late>>

LoadTemplate(w) ==
  LET go(pc) == wpc' = [wpc EXCEPT ![w] = pc] /\ seen' = [seen EXCEPT ![w] = tmpl]
                /\ UNCHANGED held
      next == Following(tmpl, w)
  IN  /\ wpc[w] = "load"
      /\ \/ /\ tmpl.state # "CANCELLED"
            /\ \/ LimitReached(tmpl) /\ go("finish")
               \/ /\ ~LimitReached(tmpl)
                  /\ next # Null
                  /\ \/ PastEnd(next) /\ go("finish")
                     \/ ~PastEnd(next) /\ go("count")
               \/ ~LimitReached(tmpl) /\ next = Null /\ NextTurn(w)
            /\ UNCHANGED faults
         \/ tmpl.state = "CANCELLED" /\ NextTurn(w) /\ UNCHANGED faults
         \/ faults > 0 /\ faults' = faults - 1 /\ NextTurn(w)
      /\ UNCHANGED <<table, post, delete, crashes, late>>

CompleteTemplateOn(w) ==  \* mutant: no return after complete_template
  /\ wpc[w] = "finish"
  /\ Statement(SetTemplate("COMPLETED"), inst, GoTo(w, "count"), NextTurn(w))
  /\ UNCHANGED <<post, delete, crashes, late>>

CompleteTemplate(w) ==
  /\ wpc[w] = "finish"
  /\ Statement(SetTemplate("COMPLETED"), inst, NextTurn(w), NextTurn(w))
  /\ UNCHANGED <<post, delete, crashes, late>>

CountSiblings(w) ==
  /\ wpc[w] = "count"
  /\ Statement(tmpl, inst,
               GoTo(w, IF ActiveSiblings # {} THEN "skip" ELSE "key"),
               NextTurn(w))
  /\ UNCHANGED <<post, delete, crashes, late>>

FindKey(w) ==
  /\ wpc[w] = "key"
  /\ Statement(tmpl, inst,
               IF Inserted(NextAt(w)) THEN NextTurn(w) ELSE GoTo(w, "insert"),
               NextTurn(w))
  /\ UNCHANGED <<post, delete, crashes, late>>

(* The UNIQUE constraint on the key refuses a second instance.             *)
InsertNext(w) ==
  /\ wpc[w] = "insert"
  /\ \/ /\ ~Inserted(NextAt(w))
        /\ Statement(tmpl, InsertInstance(NextAt(w)), GoTo(w, "bump"), NextTurn(w))
     \/ /\ Inserted(NextAt(w))
        /\ NextTurn(w)
        /\ UNCHANGED <<table, faults>>
  /\ UNCHANGED <<post, delete, crashes, late>>

(* increment_template_occurrences, for an instance that was inserted or    *)
(* skipped.                                                                *)
CountOccurrenceInMemory(w) ==  \* mutant: occurrences_completed of the row read before
  /\ wpc[w] \in {"skip", "bump"}
  /\ Statement([tmpl EXCEPT !.count = seen[w].count + 1], inst, NextTurn(w), NextTurn(w))
  /\ UNCHANGED <<post, delete, crashes, late>>

CountOccurrence(w) ==
  /\ wpc[w] \in {"skip", "bump"}
  /\ Statement(IncrementOccurrences, inst, NextTurn(w), NextTurn(w))
  /\ UNCHANGED <<post, delete, crashes, late>>

Work(w) ==
  \/ \E f \in Time : Lease(w, f)
  \/ GiveBack(w)
  \/ SetRunning(w)
  \/ SetCompleted(w)
  \/ Failed(w)
  \/ LoadTemplate(w)
  \/ CompleteTemplate(w)
  \/ CountSiblings(w)
  \/ FindKey(w)
  \/ InsertNext(w)
  \/ CountOccurrence(w)

(* The process dies and restarts: handlers and workers are gone; the       *)
(* recovery returns some of the jobs that were under way, the others wait  *)
(* for the reaper or, RUNNING, are stuck.                                  *)
CrashAndRestart ==
  /\ crashes > 0
  /\ crashes' = crashes - 1
  /\ \E S \in SUBSET {f \in Time : inst[f].state \in {"LEASED", "RUNNING"}} :
       inst' = [f \in Time |-> IF f \in S THEN [inst[f] EXCEPT !.state = "SCHEDULED"]
                               ELSE inst[f]]
  /\ wpc' = [w \in Worker |-> "idle"]
  /\ held' = [w \in Worker |-> Null]
  /\ seen' = [w \in Worker |-> Null]
  /\ post' = IF post = "none" THEN "none" ELSE "done"
  /\ delete' = IF delete = "instances" THEN "none" ELSE delete
  /\ UNCHANGED <<tmpl, faults, late>>

Next ==
  \/ Serve
  \/ \E w \in Worker : Work(w)
  \/ \E f \in Time : Reclaim(f)
  \/ CrashAndRestart

Spec == Init /\ [][Next]_vars

-----------------------------------------------------------------------------
(* Types; a worker that took an instance holds it, and one that goes on    *)
(* with spawn_next_instance holds the template and a fire time.            *)
TypeOK ==
  /\ tmpl \in Template
  /\ inst \in [Time -> Instance]
  /\ wpc \in [Worker -> WorkerPc]
  /\ held \in [Worker -> Copy \cup {Null}]
  /\ seen \in [Worker -> Template \cup {Null}]
  /\ post \in {"none", "template", "done"}
  /\ delete \in {"none", "instances", "done"}
  /\ faults \in Nat
  /\ crashes \in Nat
  /\ late \in 0..MaxLate
  /\ \A w \in Worker :
       /\ wpc[w] # "idle" => held[w] \in Copy
       /\ wpc[w] \in {"finish", "count", "skip", "key", "insert", "bump"}
            => seen[w] \in Template
       /\ wpc[w] \in {"count", "skip", "key", "insert", "bump"} => NextAt(w) \in Time

Live(f) == inst[f].state \in {"SCHEDULED", "LEASED", "RUNNING"}
WillSpawn(w) == wpc[w] \in Spawning

(* What the properties below are conditional on.  No lease ended while its *)
(* job waited for a worker: rows and copies agree.  No statement failed    *)
(* and the process did not die.  No instance was completed in a run that   *)
(* was scheduled before its own fire time, which a retry can be when its   *)
(* delay is negative or its product wraps (result.rs:86-94).               *)
NoneLate == late = MaxLate
NothingFailed == faults = MaxFaults /\ crashes = MaxCrashes
NoneRanEarly == \A f \in Time : inst[f].state = "COMPLETED" => inst[f].at >= f

(* One chain, until a lease ends in the queue: at any time there is at     *)
(* most one instance that is pending or under way, or one worker that may  *)
(* still insert the next one, through failing statements, crashes and      *)
(* restarts (result.rs:52-61, recurring.rs:88-155).  So instances of a     *)
(* template never overlap, whatever the concurrency policy: its count      *)
(* (recurring.rs:128-143) finds nothing, "allow" included.                 *)
AtMostOne ==
  /\ \A f, g \in Time : Live(f) /\ Live(g) => f = g
  /\ \A v, w \in Worker : WillSpawn(v) /\ WillSpawn(w) => v = w
  /\ \A f \in Time, w \in Worker : ~(Live(f) /\ WillSpawn(w))

OneChain == NoneLate => AtMostOne

(* The chain goes forward in time as long as no instance ran early: every  *)
(* instance fires after all earlier ones, so the key test of               *)
(* recurring.rs:146 and the UNIQUE constraint never meet an earlier        *)
(* instance, whatever PATCH does to the expression.                        *)
FiresIncrease ==
  [][NoneLate /\ NoneRanEarly =>
       \A f, g \in Time :
         Inserted(g) /\ ~Inserted(f) /\ inst'[f].state # "ABSENT" => g < f]_vars

(* A completed template is over, until a lease ends in the queue: nothing  *)
(* is pending or under way, and no worker may still insert an instance     *)
(* (recurring.rs:107-125), although DELETE and PATCH change the row        *)
(* without looking at its state.                                           *)
CompletedIsOver ==
  NoneLate /\ tmpl.state = "COMPLETED" =>
    /\ \A f \in Time : ~Live(f)
    /\ \A w \in Worker : ~WillSpawn(w)

(* Where NoSpawnAfterCancel below fails, it fails once, until a lease ends *)
(* in the queue: after DELETE of the template was answered, at most one    *)
(* more instance appears, of a POST or of a worker that was past its look  *)
(* at the template's state (recurring.rs:58-79, :94-152), and once nobody  *)
(* is there, none.                                                         *)
Stopped ==
  /\ delete = "done"
  /\ post # "template"
  /\ \A w \in Worker : wpc[w] \notin {"count", "key", "insert"}

Appears == \E f \in Time : ~Inserted(f) /\ Inserted(f)'

CancelStopsChain ==
  [][NoneLate =>
       /\ Stopped => Stopped' /\ ~Appears
       /\ delete = "done" /\ Appears => Stopped']_vars

(* Without failures occurrences_completed, which ends the chain, misses no *)
(* instance after the first, but for those whose worker has yet to count   *)
(* them (recurring.rs:150-155), even when leases end in the queue and      *)
(* several workers spawn at a time; it may be ahead, by the occurrences    *)
(* that were skipped (:139-141).                                           *)
InstancesCounted ==
  NothingFailed /\ post = "done" =>
    Cardinality({f \in Time : Inserted(f)})
      <= 1 + tmpl.count + Cardinality({w \in Worker : wpc[w] = "bump"})

(* A chain never breaks: once the first instance of a template that is     *)
(* still SCHEDULED exists, there is a live instance, or a worker that is   *)
(* about to insert one or to complete the template, or some instance ended *)
(* without success or was cancelled, or was completed at a time after      *)
(* which an expression fires no more (README, "Components": the recurring  *)
(* service spawns instances "after each successful run").                  *)
NoNextFire(f) ==
  inst[f].state = "COMPLETED" /\ \E c \in CronExpr : NextFire[c][inst[f].at] = Null

ChainUnbroken ==
  tmpl.state = "SCHEDULED" /\ (\E f \in Time : Inserted(f)) =>
    \/ \E f \in Time : Live(f)
    \/ \E w \in Worker : WillSpawn(w)
    \/ \E f \in Time : inst[f].state \in {"ENDED", "CANCELLED"}
    \/ \E f \in Time : NoNextFire(f)

(* As long as no statement failed, the process did not die, no lease ended *)
(* in the queue and no instance ran early, the chain does not break        *)
(* (result.rs:57-61, recurring.rs:98-152).                                 *)
UnbrokenWithoutFailure == NothingFailed /\ NoneLate /\ NoneRanEarly => ChainUnbroken

(* And max_occurrences, which recurring.rs:107-115 compares with a count   *)
(* that :153 increments after the insertion, is exceeded by at most the    *)
(* instances whose workers, the present one aside, have yet to count them. *)
(* POST always creates the first instance.                                 *)
LimitWithoutFailure ==
  NothingFailed /\ NoneLate /\ MaxOccurrences # Null =>
    LET n == Cardinality({f \in Time : Inserted(f)})
    IN  n <= 1 \/ n <= MaxOccurrences + Cardinality(Worker) - 1

(* Once DELETE of a template was answered, no new instance of its chain    *)
(* appears (README, "Cancel a job": pending instances are cancelled with   *)
(* it).                                                                    *)
NoSpawnAfterCancel ==
  [][\A f \in Time :
       delete = "done" /\ post = "done" /\ ~Inserted(f) => inst'[f].state = "ABSENT"]_vars

(* Strengthenings the proofs need.  A worker that holds an instance is the *)
(* only one, and the row shows it, as it shows to a worker that spawns the *)
(* next one when the present one ran; before POST inserted the first       *)
(* instance there is nothing; and whatever may still lead to a next        *)
(* instance is the last of the instances inserted so far.                  *)
Holds(w) == wpc[w] \in {"start", "run"}

HoldersMatch ==
  /\ \A w \in Worker : wpc[w] = "start" => inst[held[w].id].state = "LEASED"
  /\ \A w \in Worker : wpc[w] = "run" => inst[held[w].id].state = "RUNNING"
  /\ \A w \in Worker : WillSpawn(w) => inst[held[w].id].state = "COMPLETED"
  /\ \A w \in Worker : Holds(w) \/ WillSpawn(w) => inst[held[w].id].at = held[w].at
  /\ \A v, w \in Worker : Holds(v) /\ Holds(w) => v = w

NothingBeforePost ==
  post # "done" =>
    /\ \A f \in Time : ~Inserted(f)
    /\ \A w \in Worker : wpc[w] = "idle"

LastComesNext ==
  /\ \A f, g \in Time : Live(f) /\ Inserted(g) => g <= f
  /\ \A w \in Worker, g \in Time : WillSpawn(w) /\ Inserted(g) => g <= held[w].id

=============================================================================
