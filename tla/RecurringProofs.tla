-------------------------- MODULE RecurringProofs ---------------------------
(***************************************************************************)
(* Proofs about Recurring: its types, and that a template has one chain of *)
(* instances that goes forward in time, for any number of workers, any     *)
(* cron expressions and any number of failures and crashes.                *)
(***************************************************************************)
EXTENDS Recurring, FiniteSetTheorems, TLAPS

-----------------------------------------------------------------------------
(* TypeOK in two parts: the workers' variables, and the rest.              *)
Knows(w) ==
  /\ wpc[w] # "idle" => held[w] \in Copy
  /\ wpc[w] \in {"finish", "count", "skip", "key", "insert", "bump"}
       => seen[w] \in Template
  /\ wpc[w] \in {"count", "skip", "key", "insert", "bump"} => NextAt(w) \in Time

WorkersTyped ==
  /\ wpc \in [Worker -> WorkerPc]
  /\ held \in [Worker -> Copy \cup {Null}]
  /\ seen \in [Worker -> Template \cup {Null}]
  /\ \A w \in Worker : Knows(w)

RestTyped ==
  /\ tmpl \in Template
  /\ inst \in [Time -> Instance]
  /\ post \in {"none", "template", "done"}
  /\ delete \in {"none", "instances", "done"}
  /\ faults \in Nat
  /\ crashes \in Nat
  /\ late \in 0..MaxLate

LEMMA TypeParts == TypeOK <=> WorkersTyped /\ RestTyped
  BY DEF TypeOK, WorkersTyped, RestTyped, Knows

(* The fire time of a copy, by the row it was computed from.               *)
LEMMA FireTime ==
  ASSUME NEW t \in Template, NEW c \in Copy
  PROVE  /\ NextFire[t.cron][c.at] \in Time \cup {Null}
         /\ NextFire[t.cron][c.at] # Null => NextFire[t.cron][c.at] > c.at
<1>1. t.cron \in CronExpr /\ c.at \in Time
  BY DEF Template, Copy
<1>2. NextFire[t.cron] \in [Time -> Time \cup {Null}]
  BY <1>1, RecurringAssumption
<1> QED
  BY <1>1, <1>2, RecurringAssumption

LEMMA TimeIsInt == \A t \in Time : t \in Int
  BY RecurringAssumption

LEMMA NextTurnTyped ==
  ASSUME NEW w \in Worker, WorkersTyped, NextTurn(w)
  PROVE  WorkersTyped'
<1>1. wpc' \in [Worker -> WorkerPc] /\ wpc'[w] = "idle"
  BY DEF WorkersTyped, NextTurn, WorkerPc
<1>2. held' \in [Worker -> Copy \cup {Null}] /\ seen' \in [Worker -> Template \cup {Null}]
  BY DEF WorkersTyped, NextTurn
<1>3. ASSUME NEW v \in Worker PROVE Knows(v)'
  <2>1. CASE v = w
    BY <1>1, <2>1 DEF Knows
  <2>2. CASE v # w
    <3>1. wpc'[v] = wpc[v] /\ held'[v] = held[v] /\ seen'[v] = seen[v]
      BY <2>2 DEF WorkersTyped, NextTurn
    <3>2. Knows(v)
      BY DEF WorkersTyped
    <3> QED
      BY <3>1, <3>2 DEF Knows, NextAt, Following
  <2> QED
    BY <2>1, <2>2
<1> QED
  BY <1>1, <1>2, <1>3 DEF WorkersTyped

(* A worker with an instance goes on; to count siblings and beyond only    *)
(* with a template and a fire time.                                        *)
LEMMA GoToTyped ==
  ASSUME NEW w \in Worker, NEW pc \in WorkerPc, WorkersTyped, GoTo(w, pc),
         wpc[w] # "idle",
         pc \in {"idle", "start", "run", "load"} \/ wpc[w] \in {"count", "key", "insert"}
  PROVE  WorkersTyped'
<1>1. wpc' \in [Worker -> WorkerPc] /\ wpc'[w] = pc /\ held' = held /\ seen' = seen
  BY DEF WorkersTyped, GoTo
<1>2. ASSUME NEW v \in Worker PROVE Knows(v)'
  <2>1. Knows(v)
    BY DEF WorkersTyped
  <2>2. NextAt(v)' = NextAt(v)
    BY <1>1 DEF NextAt, Following
  <2>3. CASE v = w
    BY <1>1, <2>1, <2>2, <2>3 DEF Knows
  <2>4. CASE v # w
    <3>1. wpc'[v] = wpc[v]
      BY <2>4 DEF WorkersTyped, GoTo
    <3> QED
      BY <3>1, <1>1, <2>1, <2>2 DEF Knows
  <2> QED
    BY <2>3, <2>4
<1> QED
  BY <1>1, <1>2 DEF WorkersTyped

LEMMA StayTyped == WorkersTyped /\ UNCHANGED workers => WorkersTyped'
  BY DEF WorkersTyped, workers, Knows, NextAt, Following

-----------------------------------------------------------------------------
(* Each step keeps the types.                                              *)

LEMMA InitTypes == Init => TypeOK
  BY RecurringAssumption DEF Init, TypeOK, Template, Instance, WorkerPc

LEMMA ServeTypes == TypeOK /\ Serve => TypeOK'
<1> SUFFICES ASSUME WorkersTyped, RestTyped, Serve PROVE WorkersTyped' /\ RestTyped'
  BY TypeParts, PTL
<1>1. WorkersTyped'
  <2>1. UNCHANGED workers
    BY DEF Serve, CreateTemplate, CreateFirst, Patch, CancelTemplate, CancelInstances,
           CancelInstance
  <2> QED
    BY <2>1, StayTyped
<1>2. RestTyped'
  <2> USE RecurringAssumption DEF RestTyped, Template, Instance, table
  <2>1. CASE CreateTemplate
    BY <2>1 DEF CreateTemplate, Statement, SetTemplate
  <2>2. CASE CreateFirst
    BY <2>2 DEF CreateFirst, Statement, InsertInstance
  <2>3. CASE \E c \in CronExpr : Patch(c)
    BY <2>3 DEF Patch
  <2>4. CASE CancelTemplate
    BY <2>4 DEF CancelTemplate, Statement, SetTemplate
  <2>5. CASE CancelInstances
    BY <2>5 DEF CancelInstances, Statement, CancelPending
  <2>6. CASE \E f \in Time : CancelInstance(f)
    BY <2>6 DEF CancelInstance, SetInstance
  <2> QED
    BY <2>1, <2>2, <2>3, <2>4, <2>5, <2>6 DEF Serve
<1> QED
  BY <1>1, <1>2

(* The end of a turn, or the next position after a statement.              *)
LEMMA WorkTypes == ASSUME NEW w \in Worker PROVE TypeOK /\ Work(w) => TypeOK'
<1> SUFFICES ASSUME WorkersTyped, RestTyped, Work(w) PROVE WorkersTyped' /\ RestTyped'
  BY TypeParts, PTL
<1>k. Knows(w)
  BY DEF WorkersTyped
<1>1. CASE \E f \in Time : Lease(w, f)
  <2> PICK f \in Time : Lease(w, f)
    BY <1>1
  <2>1. [id |-> f, at |-> inst[f].at] \in Copy
    BY DEF RestTyped, Instance, Copy
  <2>2. /\ wpc' \in [Worker -> WorkerPc]
        /\ held' \in [Worker -> Copy \cup {Null}]
        /\ seen' = seen
    BY <2>1 DEF WorkersTyped, Lease, WorkerPc
  <2>3. ASSUME NEW v \in Worker PROVE Knows(v)'
    <3>1. CASE v = w
      BY <2>1, <2>2, <3>1 DEF Lease, WorkersTyped, Knows
    <3>2. CASE v # w
      <4>1. wpc'[v] = wpc[v] /\ held'[v] = held[v] /\ seen'[v] = seen[v]
        BY <3>2 DEF WorkersTyped, Lease
      <4>2. Knows(v)
        BY DEF WorkersTyped
      <4> QED
        BY <4>1, <4>2 DEF Knows, NextAt, Following
    <3> QED
      BY <3>1, <3>2
  <2>4. WorkersTyped'
    BY <2>2, <2>3 DEF WorkersTyped
  <2> QED
    BY <2>4 DEF RestTyped, Lease, SetInstance, Instance
<1>2. CASE SetRunning(w)
  <2>1. NextTurn(w) \/ GoTo(w, "run")
    BY <1>2 DEF SetRunning, Statement
  <2>2. WorkersTyped'
    BY <2>1, <1>2, NextTurnTyped, GoToTyped DEF SetRunning, WorkerPc
  <2> QED
    BY <2>2, <1>2, <1>k DEF RestTyped, SetRunning, Statement, SetInstance, Instance, table, Knows, Copy
<1>3. CASE SetCompleted(w)
  <2>1. NextTurn(w) \/ GoTo(w, "load")
    BY <1>3 DEF SetCompleted, Statement
  <2>2. WorkersTyped'
    BY <2>1, <1>3, NextTurnTyped, GoToTyped DEF SetCompleted, WorkerPc, Spawning
  <2> QED
    BY <2>2, <1>3, <1>k DEF RestTyped, SetCompleted, Statement, SetInstance, Instance, table, Knows, Copy
<1>4. CASE Failed(w)
  <2>1. NextTurn(w)
    BY <1>4 DEF Failed, Statement
  <2>2. WorkersTyped'
    BY <2>1, NextTurnTyped
  <2>3. inst \in [Time -> Instance] /\ held[w].id \in Time
    BY <1>4, <1>k DEF RestTyped, Failed, Knows, Copy
  <2>4. inst' \in [Time -> Instance]
    <3>1. CASE inst' = inst
      BY <2>3, <3>1
    <3>2. CASE inst' = SetInstance(held[w].id, "ENDED")
      BY <2>3, <3>2 DEF SetInstance, Instance
    <3>3. ASSUME NEW t \in Time,
                 inst' = [inst EXCEPT ![held[w].id] = [state |-> "SCHEDULED", at |-> t]]
          PROVE  inst' \in [Time -> Instance]
      <4>1. [state |-> "SCHEDULED", at |-> t] \in Instance
        BY DEF Instance
      <4> QED
        BY <2>3, <3>3, <4>1
    <3> QED
      BY <1>4, <3>1, <3>2, <3>3, RecurringAssumption DEF Failed, Statement, table
  <2>5. /\ tmpl' = tmpl /\ UNCHANGED <<post, delete, crashes, late>>
        /\ faults' = faults \/ (faults > 0 /\ faults' = faults - 1)
    <3>1. ASSUME NEW i, Statement(tmpl, i, NextTurn(w), NextTurn(w))
          PROVE  /\ tmpl' = tmpl
                 /\ faults' = faults \/ (faults > 0 /\ faults' = faults - 1)
      BY <3>1 DEF Statement, table
    <3> QED
      BY <1>4, <3>1 DEF Failed
  <2> QED
    BY <2>2, <2>4, <2>5 DEF RestTyped
<1>5. CASE LoadTemplate(w)
  <2>1. RestTyped'
    BY <1>5 DEF LoadTemplate, RestTyped, table
  <2>2. CASE NextTurn(w)
    BY <2>1, <2>2, NextTurnTyped
  <2>3. CASE ~NextTurn(w)
    <3>1. PICK pc \in {"finish", "count"} :
            /\ wpc' = [wpc EXCEPT ![w] = pc]
            /\ seen' = [seen EXCEPT ![w] = tmpl]
            /\ held' = held
            /\ pc = "count" => Following(tmpl, w) # Null
      BY <1>5, <2>3 DEF LoadTemplate
    <3>2. held[w] \in Copy /\ tmpl \in Template
      BY <1>5, <1>k DEF LoadTemplate, Knows, RestTyped
    <3>3. /\ wpc' \in [Worker -> WorkerPc]
          /\ seen' \in [Worker -> Template \cup {Null}]
          /\ wpc'[w] = pc /\ seen'[w] = tmpl
      BY <3>1, <3>2 DEF WorkersTyped, WorkerPc, Spawning
    <3>4. pc = "count" => NextFire[tmpl.cron][held[w].at] \in Time
      BY <3>1, <3>2, FireTime DEF Following
    <3>5. ASSUME NEW v \in Worker PROVE Knows(v)'
      <4>1. CASE v = w
        BY <3>1, <3>2, <3>3, <3>4, <4>1 DEF Knows, NextAt, Following
      <4>2. CASE v # w
        <5>1. wpc'[v] = wpc[v] /\ held'[v] = held[v] /\ seen'[v] = seen[v]
          BY <3>1, <4>2 DEF WorkersTyped
        <5>2. Knows(v)
          BY DEF WorkersTyped
        <5> QED
          BY <5>1, <5>2 DEF Knows, NextAt, Following
      <4> QED
        BY <4>1, <4>2
    <3> QED
      BY <2>1, <3>1, <3>3, <3>5 DEF WorkersTyped
  <2> QED
    BY <2>2, <2>3
<1>6. CASE CompleteTemplate(w)
  <2>1. NextTurn(w)
    BY <1>6 DEF CompleteTemplate, Statement
  <2>2. WorkersTyped'
    BY <2>1, NextTurnTyped
  <2> QED
    BY <2>2, <1>6 DEF RestTyped, CompleteTemplate, Statement, SetTemplate, Template, table
<1>7. CASE CountSiblings(w)
  <2>1. NextTurn(w) \/ GoTo(w, "skip") \/ GoTo(w, "key")
    BY <1>7 DEF CountSiblings, Statement
  <2>2. WorkersTyped'
    BY <2>1, <1>7, NextTurnTyped, GoToTyped DEF CountSiblings, WorkerPc, Spawning
  <2> QED
    BY <2>2, <1>7 DEF RestTyped, CountSiblings, Statement, table
<1>8. CASE FindKey(w)
  <2>1. NextTurn(w) \/ GoTo(w, "insert")
    BY <1>8 DEF FindKey, Statement
  <2>2. WorkersTyped'
    BY <2>1, <1>8, NextTurnTyped, GoToTyped DEF FindKey, WorkerPc, Spawning
  <2> QED
    BY <2>2, <1>8 DEF RestTyped, FindKey, Statement, table
<1>9. CASE InsertNext(w)
  <2>1. NextTurn(w) \/ GoTo(w, "bump")
    BY <1>9 DEF InsertNext, Statement
  <2>2. WorkersTyped'
    BY <2>1, <1>9, NextTurnTyped, GoToTyped DEF InsertNext, WorkerPc
  <2>3. NextAt(w) \in Time
    BY <1>9, <1>k DEF InsertNext, Knows
  <2> QED
    BY <2>2, <2>3, <1>9 DEF RestTyped, InsertNext, Statement, InsertInstance, Instance, table
<1>10. CASE CountOccurrence(w)
  <2>1. NextTurn(w)
    BY <1>10 DEF CountOccurrence, Statement
  <2>2. WorkersTyped'
    BY <2>1, NextTurnTyped
  <2> QED
    BY <2>2, <1>10 DEF RestTyped, CountOccurrence, Statement, IncrementOccurrences, Template, table
<1>11. CASE GiveBack(w)
  <2>1. NextTurn(w)
    BY <1>11 DEF GiveBack, Statement
  <2>2. WorkersTyped'
    BY <2>1, NextTurnTyped
  <2>3. [state |-> "SCHEDULED", at |-> held[w].at] \in Instance
    BY <1>11, <1>k DEF GiveBack, Knows, Copy, Instance
  <2>4. inst' \in [Time -> Instance]
    BY <1>11, <2>3 DEF GiveBack, Statement, RestTyped, table
  <2> QED
    BY <2>2, <2>4, <1>11 DEF RestTyped, GiveBack, Statement, table
<1> QED
  BY <1>1, <1>2, <1>3, <1>4, <1>5, <1>6, <1>7, <1>8, <1>9, <1>10, <1>11 DEF Work

LEMMA StepTypes == TypeOK /\ [Next]_vars => TypeOK'
<1> SUFFICES ASSUME TypeOK, [Next]_vars PROVE TypeOK'
  OBVIOUS
<1>1. CASE Serve
  BY <1>1, ServeTypes
<1>2. ASSUME NEW w \in Worker, Work(w) PROVE TypeOK'
  BY <1>2, WorkTypes
<1>3. CASE \E f \in Time : Reclaim(f)
  <2>1. WorkersTyped'
    BY <1>3, TypeParts, StayTyped DEF Reclaim
  <2>2. late' \in 0..MaxLate
    BY <1>3, TypeParts, RecurringAssumption DEF Reclaim, RestTyped
  <2>3. RestTyped'
    BY <1>3, <2>2, TypeParts DEF Reclaim, SetInstance, RestTyped, Instance
  <2> QED
    BY <2>1, <2>3, TypeParts, PTL
<1>4. CASE CrashAndRestart
  BY <1>4 DEF CrashAndRestart, TypeOK, Instance, WorkerPc
<1>5. CASE UNCHANGED vars
  <2>1. WorkersTyped'
    BY <1>5, TypeParts, StayTyped DEF vars
  <2>2. RestTyped'
    BY <1>5, TypeParts DEF vars, table, RestTyped
  <2> QED
    BY <2>1, <2>2, TypeParts, PTL
<1> QED
  BY <1>1, <1>2, <1>3, <1>4, <1>5 DEF Next

(* The types of Recurring (TypeOK: what a worker has in hand at each point *)
(* of spawn_next_instance), for all values of the constants.               *)
THEOREM ChainTypes == Spec => []TypeOK
  BY InitTypes, StepTypes, PTL DEF Spec

-----------------------------------------------------------------------------
(* One chain, until a lease ends in the queue.  AtMostOne alone is not     *)
(* inductive: that a worker completes the one live instance is             *)
(* HoldersMatch, and that POST finds nothing is NothingBeforePost.         *)
ChainInv == AtMostOne /\ HoldersMatch /\ NothingBeforePost

(* A worker goes on, without an instance, or ends its turn.                *)
Leaves(w, pc) ==
  /\ wpc' = [wpc EXCEPT ![w] = pc]
  /\ pc \notin {"start", "run"}
  /\ pc \in Spawning => wpc[w] \in Spawning
  /\ pc # "idle" => held'[w] = held[w]
  /\ \A v \in Worker : v # w => held'[v] = held[v]

LEMMA LeavesChain ==
  ASSUME NEW w \in Worker, NEW pc \in WorkerPc, TypeOK, ChainInv,
         wpc[w] # "idle", Leaves(w, pc), inst' = inst, post' = post
  PROVE  ChainInv'
<1> USE DEF Live, Inserted, WillSpawn, Holds
<1>1. /\ wpc'[w] = pc
      /\ \A v \in Worker : v # w => wpc'[v] = wpc[v] /\ held'[v] = held[v]
  BY DEF TypeOK, Leaves
<1>2. post = "done"
  BY DEF ChainInv, NothingBeforePost
<1>3. AtMostOne'
  BY <1>1 DEF ChainInv, AtMostOne, Leaves
<1>4. HoldersMatch'
  BY <1>1 DEF ChainInv, HoldersMatch, Leaves, Spawning
<1>5. NothingBeforePost'
  BY <1>2 DEF NothingBeforePost
<1> QED
  BY <1>3, <1>4, <1>5 DEF ChainInv

(* A worker that holds the instance x changes its row to r, which is not   *)
(* leased, and ends its turn, goes on to run it, or has completed it.      *)
LEMMA HolderChain ==
  ASSUME NEW w \in Worker, NEW pc \in {"idle", "run", "load"}, NEW r \in Instance,
         TypeOK, ChainInv, Holds(w),
         wpc' = [wpc EXCEPT ![w] = pc],
         pc # "idle" => held'[w] = held[w],
         \A v \in Worker : v # w => held'[v] = held[v],
         inst' = [inst EXCEPT ![held[w].id] = r], post' = post,
         r.state # "ABSENT", pc # "idle" => r.at = held[w].at,
         pc = "run" => r.state = "RUNNING",
         pc = "load" => r.state = "COMPLETED"
  PROVE  ChainInv'
<1> USE DEF Live, Inserted, WillSpawn, Holds
<1> DEFINE x == held[w].id
<1>1. /\ wpc'[w] = pc
      /\ \A v \in Worker : v # w => wpc'[v] = wpc[v] /\ held'[v] = held[v]
  BY DEF TypeOK
<1>2. /\ x \in Time /\ inst'[x] = r
      /\ \A f \in Time : f # x => inst'[f] = inst[f]
  BY DEF TypeOK, Copy
<1>3. Live(x) /\ post = "done"
  BY <1>2 DEF ChainInv, HoldersMatch, NothingBeforePost
<1>4. /\ \A f \in Time : Live(f) => f = x
      /\ \A v \in Worker : ~WillSpawn(v)
      /\ \A v \in Worker : Holds(v) => v = w
  BY <1>2, <1>3 DEF ChainInv, AtMostOne, HoldersMatch
<1>5. AtMostOne'
  BY <1>1, <1>2, <1>3, <1>4 DEF AtMostOne, Spawning
<1>6. HoldersMatch'
  BY <1>1, <1>2, <1>4 DEF HoldersMatch, Spawning
<1>7. NothingBeforePost'
  BY <1>3 DEF NothingBeforePost
<1> QED
  BY <1>5, <1>6, <1>7 DEF ChainInv

LEMMA NextTurnLeaves == \A w \in Worker : TypeOK /\ NextTurn(w) => Leaves(w, "idle")
  BY DEF NextTurn, Leaves, TypeOK, Spawning

LEMMA GoToLeaves ==
  ASSUME NEW w \in Worker, NEW pc, GoTo(w, pc), pc \notin {"start", "run"},
         wpc[w] \in Spawning
  PROVE  Leaves(w, pc)
  BY DEF GoTo, Leaves

LEMMA WorkChain ==
  ASSUME NEW w \in Worker, TypeOK, ChainInv, Work(w)
  PROVE  ChainInv'
<1>t. wpc[w] # "idle" => held[w].id \in Time /\ held[w].at \in Time
  BY DEF TypeOK, Copy
<1>p. {"idle", "run", "load", "finish", "count", "skip", "key", "insert", "bump"} \subseteq WorkerPc
  BY DEF WorkerPc, Spawning
<1>e. ASSUME wpc[w] # "idle", NextTurn(w), inst' = inst, post' = post PROVE ChainInv'
  BY <1>e, <1>p, NextTurnLeaves, LeavesChain
<1>1. CASE \E f \in Time : Lease(w, f)
  <2> PICK f \in Time : Lease(w, f)
    BY <1>1
  <2> USE DEF Live, Inserted, WillSpawn, Holds
  <2>1. /\ wpc'[w] = "start" /\ held'[w].id = f /\ held'[w].at = inst[f].at
        /\ \A v \in Worker : v # w => wpc'[v] = wpc[v] /\ held'[v] = held[v]
        /\ post' = post
    BY DEF Lease, TypeOK
  <2>2. /\ inst[f].state = "SCHEDULED"
        /\ inst'[f].state = "LEASED" /\ inst'[f].at = inst[f].at
        /\ \A g \in Time : g # f => inst'[g] = inst[g]
    BY DEF Lease, TypeOK, SetInstance, Instance
  <2>3. \A v \in Worker : Holds(v) => held[v].id \in Time /\ Live(held[v].id)
    BY DEF TypeOK, Copy, ChainInv, HoldersMatch
  <2>4. \A v \in Worker : ~Holds(v) /\ ~WillSpawn(v)
    BY <2>2, <2>3 DEF ChainInv, AtMostOne, HoldersMatch
  <2>5. AtMostOne'
    BY <2>1, <2>2, <2>4 DEF ChainInv, AtMostOne, Spawning
  <2>6. HoldersMatch'
    BY <2>1, <2>2, <2>4 DEF HoldersMatch, Spawning
  <2>7. NothingBeforePost'
    BY <2>1, <2>2 DEF ChainInv, NothingBeforePost
  <2> QED
    BY <2>5, <2>6, <2>7 DEF ChainInv
<1>2. CASE SetRunning(w)
  <2> DEFINE r == [inst[held[w].id] EXCEPT !.state = "RUNNING"]
  <2>1. /\ wpc[w] = "start" /\ post' = post
        /\ \/ inst' = inst /\ NextTurn(w)
           \/ inst' = [inst EXCEPT ![held[w].id] = r] /\ (NextTurn(w) \/ GoTo(w, "run"))
    BY <1>2 DEF SetRunning, Statement, SetInstance, table
  <2>2. r \in Instance /\ r.state = "RUNNING" /\ r.at = held[w].at
    BY <2>1, <1>t DEF TypeOK, Instance, ChainInv, HoldersMatch, Holds
  <2>3. ASSUME inst' = [inst EXCEPT ![held[w].id] = r], NextTurn(w) PROVE ChainInv'
    BY <2>1, <2>2, <2>3, NextTurnLeaves, HolderChain DEF Leaves, Holds
  <2>4. ASSUME inst' = [inst EXCEPT ![held[w].id] = r], GoTo(w, "run") PROVE ChainInv'
    BY <2>1, <2>2, <2>4, HolderChain DEF GoTo, Holds
  <2> QED
    BY <2>1, <2>3, <2>4, <1>e
<1>3. CASE SetCompleted(w)
  <2> DEFINE r == [inst[held[w].id] EXCEPT !.state = "COMPLETED"]
  <2>1. /\ wpc[w] = "run" /\ post' = post
        /\ \/ inst' = inst /\ NextTurn(w)
           \/ inst' = [inst EXCEPT ![held[w].id] = r] /\ (NextTurn(w) \/ GoTo(w, "load"))
    BY <1>3 DEF SetCompleted, Statement, SetInstance, table
  <2>2. r \in Instance /\ r.state = "COMPLETED" /\ r.at = held[w].at
    BY <2>1, <1>t DEF TypeOK, Instance, ChainInv, HoldersMatch, Holds
  <2>3. ASSUME inst' = [inst EXCEPT ![held[w].id] = r], NextTurn(w) PROVE ChainInv'
    BY <2>1, <2>2, <2>3, NextTurnLeaves, HolderChain DEF Leaves, Holds
  <2>4. ASSUME inst' = [inst EXCEPT ![held[w].id] = r], GoTo(w, "load") PROVE ChainInv'
    BY <2>1, <2>2, <2>4, HolderChain DEF GoTo, Holds
  <2> QED
    BY <2>1, <2>3, <2>4, <1>e
<1>4. CASE Failed(w)
  <2>1. wpc[w] = "run" /\ post' = post /\ NextTurn(w)
    BY <1>4 DEF Failed, Statement
  <2>2. ASSUME NEW r \in Instance, inst' = [inst EXCEPT ![held[w].id] = r],
               r.state # "ABSENT"
        PROVE  ChainInv'
    BY <2>1, <2>2, NextTurnLeaves, HolderChain DEF Leaves, Holds
  <2>3. ASSUME NEW t \in Time,
               inst' = [inst EXCEPT ![held[w].id] = [state |-> "SCHEDULED", at |-> t]]
        PROVE  ChainInv'
    <3> DEFINE r == [state |-> "SCHEDULED", at |-> t]
    <3>1. r \in Instance /\ r.state # "ABSENT"
      BY DEF Instance
    <3>2. inst' = [inst EXCEPT ![held[w].id] = r]
      BY <2>3
    <3> HIDE DEF r
    <3> QED
      BY <2>2, <3>1, <3>2
  <2>4. ASSUME inst' = SetInstance(held[w].id, "ENDED") PROVE ChainInv'
    <3> DEFINE r == [inst[held[w].id] EXCEPT !.state = "ENDED"]
    <3>1. r \in Instance /\ r.state # "ABSENT"
      BY <2>1, <1>t DEF TypeOK, Instance
    <3> QED
      BY <2>2, <2>4, <3>1 DEF SetInstance
  <2>5. \/ inst' = inst
        \/ \E t \in Time :
             inst' = [inst EXCEPT ![held[w].id] = [state |-> "SCHEDULED", at |-> t]]
        \/ inst' = SetInstance(held[w].id, "ENDED")
    BY <1>4, RecurringAssumption DEF Failed, Statement, table
  <2> QED
    BY <2>1, <2>3, <2>4, <2>5, <1>e
<1>5. CASE LoadTemplate(w)
  <2>1. wpc[w] = "load" /\ inst' = inst /\ post' = post
    BY <1>5 DEF LoadTemplate, table
  <2>2. NextTurn(w) \/ \E pc \in {"finish", "count"} : wpc' = [wpc EXCEPT ![w] = pc] /\ held' = held
    BY <1>5 DEF LoadTemplate
  <2>3. ASSUME NEW pc \in {"finish", "count"}, wpc' = [wpc EXCEPT ![w] = pc], held' = held
        PROVE  ChainInv'
    BY <2>1, <2>3, <1>p, LeavesChain DEF Leaves, Spawning
  <2> QED
    BY <2>1, <2>2, <2>3, <1>e
<1>6. CASE CompleteTemplate(w)
  BY <1>6, <1>e DEF CompleteTemplate, Statement, table
<1>7. CASE CountSiblings(w)
  <2>1. wpc[w] = "count" /\ inst' = inst /\ post' = post
        /\ (NextTurn(w) \/ \E pc \in {"skip", "key"} : GoTo(w, pc))
    BY <1>7 DEF CountSiblings, Statement, table
  <2>2. ASSUME NEW pc \in {"skip", "key"}, GoTo(w, pc) PROVE ChainInv'
    BY <2>1, <2>2, <1>p, GoToLeaves, LeavesChain DEF Spawning
  <2> QED
    BY <2>1, <2>2, <1>e
<1>8. CASE FindKey(w)
  <2>1. wpc[w] = "key" /\ inst' = inst /\ post' = post
        /\ (NextTurn(w) \/ GoTo(w, "insert"))
    BY <1>8 DEF FindKey, Statement, table
  <2>2. ASSUME GoTo(w, "insert") PROVE ChainInv'
    BY <2>1, <2>2, <1>p, GoToLeaves, LeavesChain DEF Spawning
  <2> QED
    BY <2>1, <2>2, <1>e
<1>9. CASE InsertNext(w)
  <2> DEFINE n == NextAt(w)
  <2>1. /\ wpc[w] = "insert" /\ post' = post
        /\ \/ inst' = inst /\ NextTurn(w)
           \/ /\ inst' = InsertInstance(n) /\ ~Inserted(n)
              /\ NextTurn(w) \/ GoTo(w, "bump")
    BY <1>9 DEF InsertNext, Statement, table
  <2>2. ASSUME inst' = InsertInstance(n), NEW pc \in {"idle", "bump"}, Leaves(w, pc)
        PROVE  ChainInv'
    <3> USE DEF Live, Inserted, WillSpawn, Holds
    <3>1. n \in Time
      BY <2>1 DEF TypeOK
    <3>2. /\ inst'[n] = [state |-> "SCHEDULED", at |-> n]
          /\ \A f \in Time : f # n => inst'[f] = inst[f]
      BY <2>2, <3>1 DEF InsertInstance, TypeOK
    <3>3. /\ wpc'[w] = pc
          /\ \A v \in Worker : v # w => wpc'[v] = wpc[v] /\ held'[v] = held[v]
      BY <2>2 DEF TypeOK, Leaves
    <3>4. /\ \A f \in Time : ~Live(f)
          /\ \A v \in Worker : WillSpawn(v) => v = w
          /\ \A v \in Worker : ~Holds(v)
      <4>1. WillSpawn(w)
        BY <2>1 DEF Spawning
      <4>2. \A f \in Time : ~Live(f)
        BY <4>1 DEF ChainInv, AtMostOne
      <4>3. \A v \in Worker : Holds(v) => held[v].id \in Time /\ Live(held[v].id)
        BY DEF TypeOK, Copy, ChainInv, HoldersMatch
      <4> QED
        BY <4>1, <4>2, <4>3 DEF ChainInv, AtMostOne
    <3> HIDE DEF n
    <3>5. AtMostOne'
      BY <3>2, <3>3, <3>4 DEF AtMostOne, Spawning
    <3>6. HoldersMatch'
      BY <2>1, <3>3, <3>4 DEF HoldersMatch, Spawning
    <3>7. NothingBeforePost'
      BY <2>1 DEF ChainInv, NothingBeforePost
    <3> QED
      BY <3>5, <3>6, <3>7 DEF ChainInv
  <2>3. ASSUME NextTurn(w), inst' = InsertInstance(n) PROVE ChainInv'
    BY <2>2, <2>3, NextTurnLeaves
  <2>4. ASSUME GoTo(w, "bump"), inst' = InsertInstance(n) PROVE ChainInv'
    <3>1. Leaves(w, "bump")
      BY <2>1, <2>4, GoToLeaves DEF Spawning
    <3> QED
      BY <2>2, <2>4, <3>1
  <2> QED
    BY <2>1, <2>3, <2>4, <1>e
<1>10. CASE CountOccurrence(w)
  BY <1>10, <1>e DEF CountOccurrence, Statement, table
<1>11. CASE GiveBack(w)
  <2> DEFINE r == [state |-> "SCHEDULED", at |-> held[w].at]
  <2>1. /\ wpc[w] = "start" /\ post' = post /\ NextTurn(w)
        /\ inst' = inst \/ inst' = [inst EXCEPT ![held[w].id] = r]
    BY <1>11 DEF GiveBack, Statement, table
  <2>2. r \in Instance /\ r.state # "ABSENT"
    BY <2>1, <1>t DEF Instance
  <2> HIDE DEF r
  <2>3. ASSUME inst' = [inst EXCEPT ![held[w].id] = r] PROVE ChainInv'
    BY <2>1, <2>2, <2>3, NextTurnLeaves, HolderChain DEF Leaves, Holds
  <2> QED
    BY <2>1, <2>3, <1>e
<1> QED
  BY <1>1, <1>2, <1>3, <1>4, <1>5, <1>6, <1>7, <1>8, <1>9, <1>10, <1>11 DEF Work

LEMMA ServeChain == ASSUME TypeOK, ChainInv, Serve PROVE ChainInv'
<1> USE DEF Live, Inserted, WillSpawn, Holds
<1>w. wpc' = wpc /\ held' = held
  BY DEF Serve, CreateTemplate, CreateFirst, Patch, CancelTemplate, CancelInstances,
         CancelInstance, workers
<1>1. ASSUME inst' = inst, post' = post \/ (post = "none" /\ post' \in {"template", "done"})
      PROVE  ChainInv'
  BY <1>1, <1>w DEF ChainInv, AtMostOne, HoldersMatch, NothingBeforePost
(* Some pending instances are cancelled.                                   *)
<1>2. ASSUME post' = post,
             \A f \in Time : \/ inst'[f] = inst[f]
                             \/ /\ inst[f].state = "SCHEDULED"
                                /\ inst'[f].state = "CANCELLED" /\ inst'[f].at = inst[f].at
      PROVE  ChainInv'
  <2>1. \A f \in Time : Live(f)' => Live(f)
    BY <1>2
  <2>2. \A f \in Time : Inserted(f)' <=> Inserted(f)
    BY <1>2
  <2>3. AtMostOne'
    BY <1>w, <2>1 DEF ChainInv, AtMostOne
  <2>4. HoldersMatch'
    <3>1. \A w \in Worker : Holds(w) \/ WillSpawn(w) => held[w].id \in Time
      BY DEF TypeOK, Copy, Spawning
    <3> QED
      BY <1>w, <1>2, <3>1 DEF ChainInv, HoldersMatch
  <2>5. NothingBeforePost'
    BY <1>w, <1>2, <2>2 DEF ChainInv, NothingBeforePost
  <2> QED
    BY <2>3, <2>4, <2>5 DEF ChainInv
<1>3. CASE CreateTemplate
  BY <1>1, <1>3 DEF CreateTemplate, Statement, table
<1>4. CASE CreateFirst
  <2>1. /\ post = "template" /\ post' = "done"
        /\ inst' = inst \/ inst' = InsertInstance(FirstFire)
    BY <1>4 DEF CreateFirst, Statement, table
  <2>2. /\ \A f \in Time : ~Inserted(f)
        /\ \A w \in Worker : wpc[w] = "idle"
    BY <2>1 DEF ChainInv, NothingBeforePost
  <2>3. \A f \in Time : Inserted(f)' => f = FirstFire
    BY <2>1, <2>2 DEF InsertInstance, TypeOK
  <2>4. AtMostOne'
    BY <1>w, <2>2, <2>3 DEF AtMostOne, Spawning
  <2>5. HoldersMatch'
    BY <1>w, <2>2 DEF HoldersMatch, Spawning
  <2>6. NothingBeforePost'
    BY <2>1 DEF NothingBeforePost
  <2> QED
    BY <2>4, <2>5, <2>6 DEF ChainInv
<1>5. CASE \E c \in CronExpr : Patch(c)
  BY <1>1, <1>5 DEF Patch
<1>6. CASE CancelTemplate
  BY <1>1, <1>6 DEF CancelTemplate, Statement, table
<1>7. CASE CancelInstances
  <2>1. post' = post /\ (inst' = inst \/ inst' = CancelPending)
    BY <1>7 DEF CancelInstances, Statement, table
  <2>2. ASSUME inst' = CancelPending PROVE ChainInv'
    <3>1. \A f \in Time : \/ inst'[f] = inst[f]
                          \/ /\ inst[f].state = "SCHEDULED"
                             /\ inst'[f].state = "CANCELLED" /\ inst'[f].at = inst[f].at
      BY <2>2 DEF CancelPending, TypeOK, Instance
    <3> QED
      BY <1>2, <2>1, <3>1
  <2> QED
    BY <1>1, <2>1, <2>2
<1>8. CASE \E f \in Time : CancelInstance(f)
  <2> PICK f \in Time : CancelInstance(f)
    BY <1>8
  <2>1. post' = post /\ inst[f].state = "SCHEDULED" /\ inst' = SetInstance(f, "CANCELLED")
    BY DEF CancelInstance
  <2>2. /\ inst'[f].state = "CANCELLED" /\ inst'[f].at = inst[f].at
        /\ \A g \in Time : g # f => inst'[g] = inst[g]
    BY <2>1 DEF SetInstance, TypeOK, Instance
  <2> QED
    BY <1>2, <2>1, <2>2
<1> QED
  BY <1>3, <1>4, <1>5, <1>6, <1>7, <1>8 DEF Serve

(* Instances that were under way become pending, none of which is held.    *)
LEMMA ReturnChain ==
  ASSUME TypeOK, ChainInv, post' = post \/ (post # "none" /\ post' = "done"),
         \A f \in Time : \/ inst'[f] = inst[f]
                         \/ /\ inst[f].state \in {"LEASED", "RUNNING"}
                            /\ inst'[f].state = "SCHEDULED" /\ inst'[f].at = inst[f].at,
         \A w \in Worker : \/ wpc'[w] = "idle"
                           \/ wpc'[w] = wpc[w] /\ held'[w] = held[w],
         \A w \in Worker : wpc'[w] \in {"start", "run"} \cup Spawning
                             => held[w].id \in Time /\ inst'[held[w].id] = inst[held[w].id]
  PROVE  ChainInv'
<1> USE DEF Live, Inserted, WillSpawn, Holds
<1>1. \A f \in Time : (Live(f)' <=> Live(f)) /\ (Inserted(f)' <=> Inserted(f))
  OBVIOUS
<1>2. \A w \in Worker : (WillSpawn(w)' => WillSpawn(w)) /\ (Holds(w)' => Holds(w))
  BY DEF Spawning
<1>3. AtMostOne'
  BY <1>1, <1>2 DEF ChainInv, AtMostOne
<1>4. HoldersMatch'
  BY <1>2 DEF ChainInv, HoldersMatch, Spawning
<1>5. NothingBeforePost'
  BY <1>1 DEF ChainInv, NothingBeforePost
<1> QED
  BY <1>3, <1>4, <1>5 DEF ChainInv

(* A step without a lease that ends in the queue.                          *)
Timely == NoneLate /\ late' = late

LEMMA StepChain ==
  ASSUME TypeOK, ChainInv, Timely, [Next]_vars
  PROVE  ChainInv'
<1>0. late' = late /\ late' # late - 1
  BY RecurringAssumption DEF Timely, TypeOK
<1>k. \A w \in Worker : wpc[w] # "idle" => held[w].id \in Time
  BY DEF TypeOK, Copy
<1>1. CASE Serve
  BY <1>1, ServeChain
<1>2. ASSUME NEW w \in Worker, Work(w) PROVE ChainInv'
  BY <1>2, WorkChain
<1>3. CASE \E f \in Time : Reclaim(f)
  <2> PICK f \in Time : Reclaim(f)
    BY <1>3
  <2>1. /\ inst[f].state = "LEASED" /\ post' = post /\ wpc' = wpc /\ held' = held
        /\ inst' = SetInstance(f, "SCHEDULED")
        /\ \A w \in Worker : wpc[w] = "start" => held[w].id # f
    BY <1>0 DEF Reclaim, workers
  <2>2. /\ inst'[f].state = "SCHEDULED" /\ inst'[f].at = inst[f].at
        /\ \A g \in Time : g # f => inst'[g] = inst[g]
    BY <2>1 DEF SetInstance, TypeOK, Instance
  <2>3. \A w \in Worker : Holds(w) \/ WillSpawn(w) => held[w].id \in Time /\ held[w].id # f
    BY <1>k, <2>1 DEF Holds, WillSpawn, Spawning, ChainInv, HoldersMatch
  <2> QED
    BY <2>1, <2>2, <2>3, ReturnChain DEF Holds, WillSpawn
<1>4. CASE CrashAndRestart
  <2>1. post' = post \/ (post # "none" /\ post' = "done")
    BY <1>4 DEF CrashAndRestart, TypeOK
  <2>2. \A w \in Worker : wpc'[w] = "idle"
    BY <1>4 DEF CrashAndRestart
  <2>3. \A f \in Time : \/ inst'[f] = inst[f]
                        \/ /\ inst[f].state \in {"LEASED", "RUNNING"}
                           /\ inst'[f].state = "SCHEDULED" /\ inst'[f].at = inst[f].at
    BY <1>4 DEF CrashAndRestart, TypeOK, Instance
  <2> QED
    BY <2>1, <2>2, <2>3, ReturnChain DEF Spawning
<1>5. CASE UNCHANGED vars
  BY <1>5, ReturnChain, <1>k DEF vars, table, workers, Spawning
<1> QED
  BY <1>1, <1>2, <1>3, <1>4, <1>5 DEF Next

LEMMA InitChain == Init => ChainInv
  BY RecurringAssumption
  DEF Init, ChainInv, AtMostOne, HoldersMatch, NothingBeforePost, Live,
      Inserted, WillSpawn, Holds, Spawning

(* A lease that ended in the queue is never forgotten.                     *)
LEMMA LateStep == ASSUME TypeOK, [Next]_vars, NoneLate' PROVE Timely
<1>1. late' = late \/ late' = late - 1
  BY DEF Next, Serve, CreateTemplate, CreateFirst, Patch, CancelTemplate, CancelInstances,
         CancelInstance, Work, Lease, GiveBack, SetRunning, SetCompleted, Failed, LoadTemplate,
         CompleteTemplate, CountSiblings, FindKey, InsertNext, CountOccurrence, Reclaim,
         CrashAndRestart, vars
<1>2. late \in 0..MaxLate /\ late' = MaxLate /\ MaxLate \in Nat
  BY RecurringAssumption DEF TypeOK, NoneLate
<1> QED
  BY <1>1, <1>2 DEF Timely, NoneLate

ChainKept == NoneLate => ChainInv

LEMMA KeptStep == ASSUME TypeOK, ChainKept, [Next]_vars PROVE ChainKept'
  BY LateStep, StepChain DEF ChainKept, Timely

LEMMA KeptInit == Init => ChainKept
  BY InitChain DEF ChainKept

(* OneChain: at most one instance of a template is pending or under way,   *)
(* or one worker about to insert one (result.rs:52-61, recurring.rs:       *)
(* 88-155), until a lease ends while its job waits for a worker, for all   *)
(* values of the constants.                                                *)
THEOREM ChainIsOne == Spec => []OneChain
<1>1. TypeOK /\ ChainKept /\ [Next]_vars => TypeOK' /\ ChainKept'
  BY StepTypes, KeptStep
<1>2. ChainKept => OneChain
  BY DEF ChainKept, ChainInv, OneChain
<1> QED
  BY <1>1, <1>2, InitTypes, KeptInit, PTL DEF Spec

(* Only POST and spawn_next_instance make an instance.                     *)
LEMMA WhoInserts ==
  ASSUME TypeOK, ChainInv, [Next]_vars, NEW f \in Time, ~Inserted(f),
         inst'[f].state # "ABSENT"
  PROVE  \/ CreateFirst
         \/ \E w \in Worker : InsertNext(w) /\ f = NextAt(w)
<1> USE DEF Inserted
<1>n. inst' # inst
  OBVIOUS
<1>k. \A w \in Worker : Holds(w) => held[w].id # f
  BY DEF Holds, TypeOK, Copy, ChainInv, HoldersMatch
<1>1. CASE Serve
  <2>1. CASE CreateFirst
    BY <2>1
  <2>2. CASE CancelInstances
    BY <2>2 DEF CancelInstances, Statement, CancelPending, table, TypeOK
  <2>3. CASE \E g \in Time : CancelInstance(g)
    BY <2>3 DEF CancelInstance, SetInstance, TypeOK
  <2> QED
    BY <1>1, <2>1, <2>2, <2>3, <1>n DEF Serve, CreateTemplate, Patch, CancelTemplate, Statement, table
<1>2. ASSUME NEW w \in Worker, Work(w)
      PROVE  InsertNext(w) /\ f = NextAt(w)
  <2>1. CASE \E g \in Time : Lease(w, g)
    BY <2>1 DEF Lease, SetInstance, TypeOK
  <2>2. CASE SetRunning(w)
    BY <2>2, <1>k DEF SetRunning, Statement, SetInstance, table, Holds, TypeOK
  <2>3. CASE SetCompleted(w)
    BY <2>3, <1>k DEF SetCompleted, Statement, SetInstance, table, Holds, TypeOK
  <2>4. CASE Failed(w)
    <3>1. held[w].id # f
      BY <2>4, <1>k DEF Failed, Holds
    <3> QED
      BY <2>4, <3>1 DEF Failed, Statement, SetInstance, table, TypeOK
  <2>5. CASE InsertNext(w)
    BY <2>5, <1>n DEF InsertNext, Statement, InsertInstance, table, TypeOK
  <2>6. CASE GiveBack(w)
    BY <2>6, <1>k DEF GiveBack, Statement, table, Holds, TypeOK
  <2> QED
    BY <1>2, <2>1, <2>2, <2>3, <2>4, <2>5, <2>6, <1>n
    DEF Work, LoadTemplate, CompleteTemplate, CountSiblings, FindKey, CountOccurrence,
        Statement, table
<1>3. CASE \E g \in Time : Reclaim(g)
  BY <1>3 DEF Reclaim, SetInstance, TypeOK
<1>4. CASE CrashAndRestart
  BY <1>4 DEF CrashAndRestart
<1>5. CASE UNCHANGED vars
  BY <1>5 DEF vars, table
<1> QED
  BY <1>1, <1>2, <1>3, <1>4, <1>5 DEF Next

(* A row that is neither pending nor under way never changes again.        *)
LEMMA DoneStays ==
  ASSUME TypeOK, ChainInv, [Next]_vars, NEW f \in Time, Inserted(f), ~Live(f)
  PROVE  inst'[f] = inst[f]
<1> USE DEF Inserted, Live
<1>0. inst \in [Time -> Instance] /\ wpc \in [Worker -> WorkerPc]
  BY DEF TypeOK
<1>k. \A w \in Worker : Holds(w) => held[w].id # f
  BY DEF Holds, TypeOK, Copy, ChainInv, HoldersMatch
<1>1. CASE Serve
  BY <1>0, <1>1
  DEF Serve, CreateTemplate, CreateFirst, Patch, CancelTemplate, CancelInstances, CancelInstance,
      Statement, InsertInstance, SetInstance, CancelPending, table, ChainInv, NothingBeforePost
<1>2. ASSUME NEW w \in Worker, Work(w) PROVE inst'[f] = inst[f]
  <2>1. CASE \E g \in Time : Lease(w, g)
    BY <1>0, <2>1 DEF Lease, SetInstance
  <2>2. CASE SetRunning(w) \/ SetCompleted(w) \/ GiveBack(w)
    BY <1>0, <1>k, <2>2
    DEF SetRunning, SetCompleted, GiveBack, Statement, SetInstance, table, Holds
  <2>3. CASE Failed(w)
    <3>1. held[w].id # f
      BY <2>3, <1>k DEF Failed, Holds
    <3> QED
      BY <1>0, <2>3, <3>1 DEF Failed, Statement, SetInstance, table
  <2>4. CASE InsertNext(w)
    BY <1>0, <2>4 DEF InsertNext, Statement, InsertInstance, table
  <2> QED
    BY <1>2, <2>1, <2>2, <2>3, <2>4
    DEF Work, LoadTemplate, CompleteTemplate, CountSiblings, FindKey, CountOccurrence,
        Statement, table
<1>3. CASE \E g \in Time : Reclaim(g)
  BY <1>0, <1>3 DEF Reclaim, SetInstance
<1>4. CASE CrashAndRestart
  BY <1>0, <1>4 DEF CrashAndRestart
<1>5. CASE UNCHANGED vars
  BY <1>5 DEF vars, table
<1> QED
  BY <1>1, <1>2, <1>3, <1>4, <1>5 DEF Next

(* Whoever may spawn after a step could before, and inserted nothing, or   *)
(* has just completed the live instance.                                   *)
LEMMA WhoSpawns ==
  ASSUME TypeOK, ChainInv, [Next]_vars, NEW w \in Worker, WillSpawn(w)'
  PROVE  /\ held'[w] = held[w]
         /\ \/ WillSpawn(w) /\ ~InsertNext(w)
            \/ wpc[w] = "run" /\ held[w].id \in Time /\ Live(held[w].id)
<1> USE DEF WillSpawn, Spawning
<1>0. wpc \in [Worker -> WorkerPc] /\ held \in [Worker -> Copy \cup {Null}]
  BY DEF TypeOK
<1>1. ~NextTurn(w) /\ ~GoTo(w, "bump")
  BY <1>0 DEF NextTurn, GoTo
<1>2. ASSUME NEW v \in Worker, Work(v), v # w PROVE wpc'[w] = wpc[w] /\ held'[w] = held[w]
  BY <1>0, <1>2
  DEF Work, Lease, GiveBack, SetRunning, SetCompleted, Failed, LoadTemplate, CompleteTemplate,
      CountSiblings, FindKey, InsertNext, CountOccurrence, Statement, GoTo, NextTurn
<1>3. ~InsertNext(w)
  BY <1>1 DEF InsertNext, Statement
<1>4. CASE Work(w)
  <2>1. CASE SetCompleted(w)
    <3>1. wpc[w] = "run" /\ held'[w] = held[w]
      BY <1>1, <2>1 DEF SetCompleted, Statement, GoTo
    <3> QED
      BY <3>1 DEF ChainInv, HoldersMatch, Live, TypeOK, Copy
  <2>2. /\ ~GiveBack(w) /\ ~Failed(w) /\ ~CompleteTemplate(w) /\ ~CountOccurrence(w)
    BY <1>1 DEF GiveBack, Failed, CompleteTemplate, CountOccurrence, Statement
  <2>3. ~SetRunning(w) /\ \A f \in Time : ~Lease(w, f)
    BY <1>0, <1>1 DEF SetRunning, Lease, Statement, GoTo
  <2>4. CASE LoadTemplate(w)
    BY <1>1, <1>3, <2>4 DEF LoadTemplate
  <2>5. CASE CountSiblings(w) \/ FindKey(w)
    BY <1>1, <1>3, <2>5 DEF CountSiblings, FindKey, Statement, GoTo
  <2> QED
    BY <1>3, <1>4, <2>1, <2>2, <2>3, <2>4, <2>5 DEF Work
<1>5. CASE Serve \/ (\E f \in Time : Reclaim(f)) \/ UNCHANGED vars
  BY <1>3, <1>5
  DEF Serve, CreateTemplate, CreateFirst, Patch, CancelTemplate, CancelInstances, CancelInstance,
      Reclaim, workers, vars
<1>6. ~CrashAndRestart
  BY DEF CrashAndRestart
<1> QED
  BY <1>2, <1>3, <1>4, <1>5, <1>6 DEF Next

(* What a spawning worker computes, as long as no instance ran early: a    *)
(* fire time after its own and so after all that there are.                *)
LEMMA NextIsLater ==
  ASSUME TypeOK, ChainInv, NoneRanEarly, LastComesNext,
         NEW w \in Worker, wpc[w] \in {"count", "key", "insert"}
  PROVE  /\ NextAt(w) \in Time
         /\ NextAt(w) > held[w].id
         /\ \A g \in Time : Inserted(g) => g < NextAt(w)
<1>1. seen[w] \in Template /\ held[w] \in Copy /\ NextAt(w) \in Time
  BY DEF TypeOK
<1>2. NextAt(w) > held[w].at
  BY <1>1, FireTime, RecurringAssumption DEF NextAt, Following
<1>3. WillSpawn(w)
  BY DEF WillSpawn, Spawning
<1>4. held[w].at >= held[w].id
  BY <1>1, <1>3 DEF ChainInv, HoldersMatch, NoneRanEarly, Copy
<1>5. \A g \in Time : Inserted(g) => g <= held[w].id
  BY <1>3 DEF LastComesNext
<1>6. held[w].id \in Int /\ held[w].at \in Int /\ NextAt(w) \in Int
  BY <1>1, TimeIsInt DEF Copy
<1>7. \A n, a, i, g \in Int : n > a /\ a >= i => n > i /\ (g <= i => g < n)
  OBVIOUS
<1> QED
  BY <1>1, <1>2, <1>4, <1>5, <1>6, <1>7, TimeIsInt

(* The order of the chain.  An instance that ran early is never forgotten, *)
(* and until there is one the last instance is the one that goes on.       *)
OrderInv == NoneRanEarly => LastComesNext

LEMMA EarlyStep ==
  ASSUME TypeOK, ChainInv, [Next]_vars, NoneRanEarly'
  PROVE  NoneRanEarly
<1> SUFFICES ASSUME NEW f \in Time, inst[f].state = "COMPLETED" PROVE inst[f].at >= f
  BY DEF NoneRanEarly
<1>1. inst'[f] = inst[f]
  BY DoneStays DEF Inserted, Live
<1> QED
  BY <1>1 DEF NoneRanEarly

LEMMA OrderStep ==
  ASSUME TypeOK, ChainInv, OrderInv, [Next]_vars
  PROVE  OrderInv'
<1> SUFFICES ASSUME NoneRanEarly' PROVE LastComesNext'
  BY DEF OrderInv
<1>1. NoneRanEarly /\ LastComesNext
  BY EarlyStep DEF OrderInv
<1>2. ASSUME NEW f \in Time, Live(f)' PROVE Live(f) \/ ~Inserted(f)
  BY <1>2, DoneStays DEF Live
<1>3. \A g \in Time : g \in Int
  BY TimeIsInt
<1>4. CASE \A f \in Time : Inserted(f)' => Inserted(f)
  <2>1. ASSUME NEW f \in Time, NEW g \in Time, Live(f)', Inserted(g)' PROVE g <= f
    BY <1>1, <1>2, <1>4, <2>1 DEF LastComesNext, Live, Inserted
  <2>2. ASSUME NEW w \in Worker, NEW g \in Time, WillSpawn(w)', Inserted(g)'
        PROVE  g <= held'[w].id
    BY <1>1, <1>4, <2>2, WhoSpawns DEF LastComesNext
  <2> QED
    BY <2>1, <2>2 DEF LastComesNext
<1>5. CASE CreateFirst
  <2>1. (\A g \in Time : ~Inserted(g)) /\ (\A w \in Worker : wpc'[w] = "idle")
    BY <1>5 DEF CreateFirst, ChainInv, NothingBeforePost, workers
  <2>2. ASSUME NEW g \in Time, Inserted(g)' PROVE g = FirstFire
    BY <1>5, <2>1, <2>2
    DEF CreateFirst, Statement, InsertInstance, Inserted, table, TypeOK
  <2>3. ASSUME NEW f \in Time, NEW g \in Time, Live(f)', Inserted(g)' PROVE g <= f
    <3>1. Inserted(f)'
      BY <2>3 DEF Live, Inserted
    <3> QED
      BY <1>3, <2>2, <2>3, <3>1
  <2> QED
    BY <2>1, <2>3 DEF LastComesNext, WillSpawn, Spawning
<1>6. ASSUME NEW w \in Worker, InsertNext(w) PROVE LastComesNext'
  <2>1. wpc[w] = "insert" /\ WillSpawn(w)
    BY <1>6 DEF InsertNext, WillSpawn, Spawning
  <2>2. (\A f \in Time : ~Live(f)) /\ \A v \in Worker : WillSpawn(v) => v = w
    BY <2>1 DEF ChainInv, AtMostOne
  <2>3. \A v \in Worker : ~WillSpawn(v)'
    BY <1>6, <2>2, WhoSpawns
  <2>4. ASSUME NEW g \in Time, Inserted(g)' PROVE Inserted(g) \/ g = NextAt(w)
    BY <1>6, <2>4 DEF InsertNext, Statement, InsertInstance, Inserted, table, TypeOK
  <2>5. ASSUME NEW f \in Time, Live(f)' PROVE f = NextAt(w)
    BY <1>2, <2>2, <2>4, <2>5 DEF Live, Inserted
  <2>6. ASSUME NEW f \in Time, NEW g \in Time, Live(f)', Inserted(g)' PROVE g <= f
    <3>1. f = NextAt(w) /\ (Inserted(g) => g < f)
      BY <1>1, <2>1, <2>5, <2>6, NextIsLater
    <3> QED
      BY <1>3, <2>4, <2>6, <3>1
  <2> QED
    BY <2>3, <2>6 DEF LastComesNext
<1> QED
  BY <1>4, <1>5, <1>6, WhoInserts DEF Inserted

ForwardKept == NoneLate => ChainInv /\ OrderInv

LEMMA ForwardInit == Init => ForwardKept
<1>1. Init => LastComesNext
  BY DEF Init, LastComesNext, Live, WillSpawn, Spawning
<1> QED
  BY <1>1, InitChain DEF ForwardKept, OrderInv

LEMMA ForwardStep == ASSUME TypeOK, ForwardKept, [Next]_vars PROVE ForwardKept'
  BY LateStep, StepChain, OrderStep DEF ForwardKept, Timely

(* FiresIncrease: a new instance fires after all earlier ones of its       *)
(* template (recurring.rs:117, 145-155), whatever PATCH does to the        *)
(* expression, until an instance is completed in a run scheduled before    *)
(* its own fire time or a lease ends while its job waits for a worker.     *)
THEOREM ChainGoesForward == Spec => FiresIncrease
<1> DEFINE Forward ==
      NoneLate /\ NoneRanEarly =>
        \A f, g \in Time :
          Inserted(g) /\ ~Inserted(f) /\ inst'[f].state # "ABSENT" => g < f
<1>1. TypeOK /\ ForwardKept /\ [Next]_vars => TypeOK' /\ ForwardKept'
  BY StepTypes, ForwardStep
<1>2. TypeOK /\ ForwardKept /\ [Next]_vars => Forward
  <2> SUFFICES ASSUME TypeOK, ChainInv, OrderInv, [Next]_vars, NoneLate, NoneRanEarly,
                      NEW f \in Time, NEW g \in Time,
                      Inserted(g), ~Inserted(f), inst'[f].state # "ABSENT"
               PROVE  g < f
    BY DEF ForwardKept
  <2>1. post = "done"
    BY DEF ChainInv, NothingBeforePost
  <2>2. PICK w \in Worker : wpc[w] = "insert" /\ f = NextAt(w)
    BY <2>1, WhoInserts DEF CreateFirst, InsertNext
  <2> QED
    BY <2>2, NextIsLater DEF OrderInv
<1>3. Spec => [][Next]_vars
  BY DEF Spec
<1>4. TypeOK /\ ForwardKept /\ [Next]_vars => [Forward]_vars
  BY <1>2
<1>5. Spec => [](TypeOK /\ ForwardKept)
  BY <1>1, InitTypes, ForwardInit, PTL DEF Spec
<1> QED
  BY <1>3, <1>4, <1>5, PTL DEF FiresIncrease

-----------------------------------------------------------------------------
(* Without failures.  Failures that happened are never forgotten.          *)
Budget == faults <= MaxFaults /\ crashes <= MaxCrashes

LEMMA BudgetStep ==
  ASSUME TypeOK, Budget, [Next]_vars
  PROVE  /\ Budget'
         /\ NothingFailed' => NothingFailed /\ faults' = faults /\ crashes' = crashes
<1>1. /\ faults \in Nat /\ crashes \in Nat /\ MaxFaults \in Nat /\ MaxCrashes \in Nat
  BY RecurringAssumption DEF TypeOK
<1>2. faults' = faults \/ faults' = faults - 1
  BY DEF Next, Serve, CreateTemplate, CreateFirst, Patch, CancelTemplate, CancelInstances,
         CancelInstance, Work, Lease, GiveBack, SetRunning, SetCompleted, Failed, LoadTemplate,
         CompleteTemplate, CountSiblings, FindKey, InsertNext, CountOccurrence, Statement,
         Reclaim, CrashAndRestart, vars
<1>3. crashes' = crashes \/ crashes' = crashes - 1
  BY DEF Next, Serve, CreateTemplate, CreateFirst, Patch, CancelTemplate, CancelInstances,
         CancelInstance, Work, Lease, GiveBack, SetRunning, SetCompleted, Failed, LoadTemplate,
         CompleteTemplate, CountSiblings, FindKey, InsertNext, CountOccurrence, Statement,
         Reclaim, CrashAndRestart, vars
<1> QED
  BY <1>1, <1>2, <1>3 DEF Budget, NothingFailed

(* A worker's instance has a row: rows are inserted and never removed.     *)
HeldInserted == \A w \in Worker : wpc[w] # "idle" => Inserted(held[w].id)

LEMMA RowsStay ==
  ASSUME TypeOK, [Next]_vars, NEW f \in Time, Inserted(f)
  PROVE  Inserted(f)'
<1> USE DEF Inserted
<1>0. inst \in [Time -> Instance]
  BY DEF TypeOK
<1>1. ASSUME NEW g, NEW r, inst' = [inst EXCEPT ![g] = r], r.state # "ABSENT"
      PROVE  inst'[f].state # "ABSENT"
  BY <1>0, <1>1
<1>2. ASSUME NEW g, NEW s, inst' = SetInstance(g, s), s # "ABSENT"
      PROVE  inst'[f].state # "ABSENT"
  BY <1>0, <1>2 DEF SetInstance, Instance
<1>3. CASE Serve
  BY <1>0, <1>1, <1>2, <1>3
  DEF Serve, CreateTemplate, CreateFirst, Patch, CancelTemplate, CancelInstances, CancelInstance,
      Statement, InsertInstance, CancelPending, table, Instance
<1>4. ASSUME NEW w \in Worker, Work(w) PROVE inst'[f].state # "ABSENT"
  <2>1. CASE Failed(w)
    <3>1. ASSUME NEW i, Statement(tmpl, i, NextTurn(w), NextTurn(w)) PROVE inst' \in {inst, i}
      BY <3>1 DEF Statement, table
    <3>2. CASE inst' = inst
      BY <3>2
    <3>3. CASE inst' = SetInstance(held[w].id, "ENDED")
      BY <1>2, <3>3
    <3>4. ASSUME NEW t, inst' = [inst EXCEPT ![held[w].id] = [state |-> "SCHEDULED", at |-> t]]
          PROVE  inst'[f].state # "ABSENT"
      BY <1>1, <3>4
    <3> QED
      BY <2>1, <3>1, <3>2, <3>3, <3>4 DEF Failed
  <2>2. CASE \E g \in Time : Lease(w, g)
    BY <1>2, <2>2 DEF Lease
  <2>3. CASE SetRunning(w) \/ SetCompleted(w)
    BY <1>2, <2>3 DEF SetRunning, SetCompleted, Statement, table
  <2>4. CASE GiveBack(w) \/ InsertNext(w)
    BY <1>1, <2>4 DEF GiveBack, InsertNext, Statement, InsertInstance, table
  <2> QED
    BY <1>4, <2>1, <2>2, <2>3, <2>4
    DEF Work, LoadTemplate, CompleteTemplate, CountSiblings, FindKey, CountOccurrence, Statement,
        table
<1>5. CASE \E g \in Time : Reclaim(g)
  BY <1>2, <1>5 DEF Reclaim
<1>6. CASE CrashAndRestart
  BY <1>0, <1>6 DEF CrashAndRestart, Instance
<1>7. CASE UNCHANGED vars
  BY <1>7 DEF vars, table
<1> QED
  BY <1>3, <1>4, <1>5, <1>6, <1>7 DEF Next

LEMMA HeldStep == ASSUME TypeOK, HeldInserted, [Next]_vars PROVE HeldInserted'
<1>0. wpc \in [Worker -> WorkerPc] /\ DOMAIN held = Worker
  BY DEF TypeOK
<1>1. ASSUME NEW w \in Worker, wpc'[w] # "idle", wpc[w] # "idle", held'[w] = held[w]
      PROVE  Inserted(held[w].id)'
  BY <1>1, RowsStay DEF TypeOK, Copy, HeldInserted
<1>2. CASE UNCHANGED <<wpc, held>>
  BY <1>1, <1>2 DEF HeldInserted, Inserted
<1>3. ASSUME NEW w \in Worker, NextTurn(w) PROVE HeldInserted'
  BY <1>0, <1>1, <1>3 DEF NextTurn, HeldInserted, Inserted
<1>4. ASSUME NEW w \in Worker, NEW pc, wpc[w] # "idle",
             wpc' = [wpc EXCEPT ![w] = pc] /\ held' = held
      PROVE  HeldInserted'
  BY <1>0, <1>1, <1>4 DEF HeldInserted, Inserted
<1>5. ASSUME NEW w \in Worker, NEW f \in Time, Lease(w, f) PROVE HeldInserted'
  <2>1. Inserted(f) /\ held'[w].id = f /\ Inserted(f)'
    BY <1>0, <1>5, RowsStay DEF Lease, Inserted
  <2>2. \A v \in Worker \ {w} : wpc'[v] = wpc[v] /\ held'[v] = held[v]
    BY <1>0, <1>5 DEF Lease
  <2> QED
    BY <1>1, <2>1, <2>2 DEF HeldInserted, Inserted
<1>6. ASSUME NEW w \in Worker, Work(w) PROVE HeldInserted'
  <2>1. ASSUME NEW pc, GoTo(w, pc), wpc[w] # "idle" PROVE HeldInserted'
    BY <1>4, <2>1 DEF GoTo
  <2>2. CASE GiveBack(w) \/ SetRunning(w) \/ SetCompleted(w) \/ CompleteTemplate(w)
    BY <1>3, <2>1, <2>2 DEF GiveBack, SetRunning, SetCompleted, CompleteTemplate, Statement
  <2>3. CASE Failed(w)
    BY <1>3, <2>3 DEF Failed, Statement
  <2>4. CASE LoadTemplate(w)
    BY <1>3, <1>4, <2>4 DEF LoadTemplate
  <2>5. CASE CountSiblings(w)
    BY <1>3, <2>1, <2>5 DEF CountSiblings, Statement
  <2>6. CASE FindKey(w)
    BY <1>3, <2>1, <2>6 DEF FindKey, Statement
  <2>7. CASE InsertNext(w)
    BY <1>3, <2>1, <2>7 DEF InsertNext, Statement
  <2>8. CASE CountOccurrence(w)
    BY <1>3, <2>8 DEF CountOccurrence, Statement
  <2> QED
    BY <1>5, <1>6, <2>2, <2>3, <2>4, <2>5, <2>6, <2>7, <2>8 DEF Work
<1>7. CASE CrashAndRestart
  BY <1>7 DEF CrashAndRestart, HeldInserted
<1>8. CASE Serve \/ (\E f \in Time : Reclaim(f)) \/ UNCHANGED vars
  BY <1>2, <1>8
  DEF Serve, CreateTemplate, CreateFirst, Patch, CancelTemplate, CancelInstances, CancelInstance,
      Reclaim, workers, vars
<1> QED
  BY <1>6, <1>7, <1>8 DEF Next

(* POST goes on to the first instance only with a fire time for it.        *)
FirstChecked == post = "template" => FirstFire # Null

LEMMA FirstCheckedStep == FirstChecked /\ [Next]_vars => FirstChecked'
<1> SUFFICES ASSUME FirstChecked, [Next]_vars, post' = "template" PROVE FirstFire # Null
  BY DEF FirstChecked, FirstFire
<1>1. CASE Serve
  BY <1>1
  DEF FirstChecked, Serve, CreateTemplate, CreateFirst, Patch, CancelTemplate, CancelInstances,
      CancelInstance, Statement
<1>2. ASSUME NEW w \in Worker, Work(w) PROVE FirstFire # Null
  BY <1>2
  DEF FirstChecked, Work, Lease, GiveBack, SetRunning, SetCompleted, Failed, LoadTemplate,
      CompleteTemplate, CountSiblings, FindKey, InsertNext, CountOccurrence
<1>3. ASSUME NEW f \in Time, Reclaim(f) PROVE FirstFire # Null
  BY <1>3 DEF FirstChecked, Reclaim
<1>4. CASE CrashAndRestart \/ UNCHANGED vars
  BY <1>4 DEF FirstChecked, CrashAndRestart, vars
<1> QED
  BY <1>1, <1>2, <1>3, <1>4 DEF Next

(* What keeps a chain going.                                               *)
Goes ==
  \/ \E f \in Time : Live(f)
  \/ \E w \in Worker : WillSpawn(w)
  \/ \E f \in Time : inst[f].state \in {"ENDED", "CANCELLED"}
  \/ \E f \in Time : NoNextFire(f)

LEMMA WorkGoes ==
  ASSUME TypeOK, ChainInv, NoneRanEarly, LastComesNext,
         Goes, faults' = faults, tmpl'.state = "SCHEDULED",
         NEW w \in Worker, Work(w)
  PROVE  Goes'
<1> USE DEF Live, Inserted, WillSpawn
<1>0. /\ inst \in [Time -> Instance] /\ wpc \in [Worker -> WorkerPc] /\ faults' # faults - 1
      /\ wpc[w] # "idle" => held[w] \in Copy /\ held[w].id \in Time
  BY DEF TypeOK, Copy
(* A step that changes one instance.                                       *)
<1>1. ASSUME NEW f \in Time, NEW r, inst' = [inst EXCEPT ![f] = r],
             r.state \in {"SCHEDULED", "LEASED", "RUNNING", "ENDED", "CANCELLED"}
      PROVE  Goes'
  <2>1. inst'[f] = r
    BY <1>0, <1>1
  <2> QED
    BY <1>1, <2>1 DEF Goes
<1>2. ASSUME NEW f \in Time, NEW s \in {"LEASED", "RUNNING", "ENDED"}, inst' = SetInstance(f, s)
      PROVE  Goes'
  <2>1. inst'[f].state = s
    BY <1>0, <1>2 DEF SetInstance, Instance
  <2> QED
    BY <1>2, <2>1 DEF Goes
<1>3. ASSUME wpc'[w] \in Spawning PROVE Goes'
  BY <1>3 DEF Goes
(* A step of a worker that does not spawn, or is not the spawning one.     *)
<1>4. ASSUME inst' = inst, \A v \in Worker \ {w} : wpc'[v] = wpc[v], wpc[w] \notin Spawning
      PROVE  Goes'
  BY <1>4 DEF Goes, NoNextFire
<1>5. CASE \E f \in Time : Lease(w, f)
  BY <1>2, <1>5 DEF Lease
<1>6. CASE GiveBack(w)
  BY <1>0, <1>1, <1>6 DEF GiveBack, Statement
<1>7. CASE SetRunning(w)
  BY <1>0, <1>2, <1>7 DEF SetRunning, Statement
<1>8. CASE SetCompleted(w)
  BY <1>0, <1>3, <1>8 DEF SetCompleted, Statement, GoTo, Spawning
<1>9. CASE Failed(w)
  <2>1. ASSUME NEW i, Statement(tmpl, i, NextTurn(w), NextTurn(w)) PROVE inst' = i
    BY <1>0, <2>1 DEF Statement
  <2>2. held[w].id \in Time
    BY <1>0, <1>9 DEF Failed
  <2> QED
    BY <1>1, <1>2, <1>9, <2>1, <2>2 DEF Failed
<1>10. CASE LoadTemplate(w)
  <2>1. tmpl' = tmpl /\ wpc[w] = "load" /\ held[w] \in Copy /\ tmpl \in Template
    BY <1>10 DEF LoadTemplate, table, TypeOK
  <2>2. CASE Following(tmpl, w) = Null
    <3>1. inst[held[w].id].state = "COMPLETED" /\ inst[held[w].id].at = held[w].at
      BY <2>1 DEF ChainInv, HoldersMatch, Spawning
    <3>2. NoNextFire(held[w].id) /\ held[w].id \in Time
      BY <2>1, <2>2, <3>1 DEF Following, Template, Copy, NoNextFire
    <3>3. inst' = inst
      BY <1>10 DEF LoadTemplate, table
    <3> QED
      BY <3>2, <3>3 DEF Goes, NoNextFire
  <2>3. CASE Following(tmpl, w) # Null
    <3>1. wpc'[w] \in {"finish", "count"}
      BY <1>0, <1>10, <2>1, <2>3 DEF LoadTemplate
    <3> QED
      BY <1>3, <3>1 DEF Spawning
  <2> QED
    BY <2>2, <2>3
<1>11. CASE CompleteTemplate(w)
  BY <1>0, <1>11 DEF CompleteTemplate, Statement, SetTemplate, TypeOK, Template
<1>12. CASE CountSiblings(w)
  <2>1. \A f \in Time : inst[f].state \notin Competing
    BY <1>12, RecurringAssumption
    DEF CountSiblings, Competing, ChainInv, AtMostOne, Spawning
  <2>2. wpc'[w] = "key"
    BY <1>0, <1>12, <2>1 DEF CountSiblings, Statement, GoTo, ActiveSiblings
  <2> QED
    BY <1>3, <2>2 DEF Spawning
<1>n. wpc[w] \in {"key", "insert"} => NextAt(w) \in Time /\ ~Inserted(NextAt(w))
  <2>1. ASSUME wpc[w] \in {"key", "insert"}, Inserted(NextAt(w)) PROVE FALSE
    <3>1. NextAt(w) \in Time /\ NextAt(w) < NextAt(w)
      BY <2>1, NextIsLater
    <3> QED
      BY <3>1, TimeIsInt
  <2> QED
    BY <2>1 DEF TypeOK
<1>13. CASE FindKey(w)
  <2>1. wpc'[w] = "insert"
    BY <1>0, <1>13, <1>n DEF FindKey, Statement, GoTo
  <2> QED
    BY <1>3, <2>1 DEF Spawning
<1>14. CASE InsertNext(w)
  BY <1>0, <1>1, <1>14, <1>n DEF InsertNext, Statement, InsertInstance
<1>15. CASE CountOccurrence(w)
  <2>1. inst' = inst /\ wpc[w] \notin Spawning
    BY <1>15 DEF CountOccurrence, Statement, table, Spawning
  <2>2. \A v \in Worker \ {w} : wpc'[v] = wpc[v]
    BY <1>0, <1>15 DEF CountOccurrence, Statement, NextTurn
  <2> QED
    BY <1>4, <2>1, <2>2
<1> QED
  BY <1>5, <1>6, <1>7, <1>8, <1>9, <1>10, <1>11, <1>12, <1>13, <1>14, <1>15 DEF Work

UnbrokenInv == Budget /\ HeldInserted /\ FirstChecked /\ UnbrokenWithoutFailure

LEMMA UnbrokenStep ==
  ASSUME TypeOK, ForwardKept, UnbrokenInv, [Next]_vars
  PROVE  UnbrokenInv'
<1>1. /\ Budget'
      /\ NothingFailed' => NothingFailed /\ faults' = faults /\ crashes' = crashes
  BY BudgetStep DEF UnbrokenInv
<1> SUFFICES ASSUME NothingFailed', NoneLate', NoneRanEarly', tmpl'.state = "SCHEDULED",
                    \E f \in Time : Inserted(f)'
             PROVE  Goes'
  BY <1>1, HeldStep, FirstCheckedStep
  DEF UnbrokenInv, UnbrokenWithoutFailure, ChainUnbroken, Goes
<1>t. NoneLate /\ ChainInv /\ NoneRanEarly /\ LastComesNext
  BY LateStep, EarlyStep DEF ForwardKept, OrderInv, Timely
<1>2. faults' = faults /\ faults' # faults - 1 /\ crashes' # crashes - 1
  BY <1>1 DEF TypeOK
<1>3. tmpl.state = "SCHEDULED" /\ (\E f \in Time : Inserted(f)) => Goes
  BY <1>1, <1>t DEF UnbrokenInv, UnbrokenWithoutFailure, ChainUnbroken, Goes
<1>4. ASSUME UNCHANGED <<inst, wpc>> PROVE Goes => Goes'
  BY <1>4 DEF Goes, Live, WillSpawn, NoNextFire
<1>5. CASE CreateTemplate
  BY <1>5, <1>2, <1>t DEF CreateTemplate, Statement, ChainInv, NothingBeforePost, Inserted, table
<1>6. CASE CreateFirst
  <2>1. inst' = InsertInstance(FirstFire) \/ faults' = faults - 1
    BY <1>6 DEF CreateFirst, Statement
  <2>2. FirstFire \in Time
    <3>1. FirstFire # Null
      BY <1>6 DEF CreateFirst, UnbrokenInv, FirstChecked
    <3> QED
      BY <3>1, RecurringAssumption DEF FirstFire
  <2> QED
    BY <1>2, <2>1, <2>2 DEF InsertInstance, TypeOK, Goes, Live
<1>7. CASE \E c \in CronExpr : Patch(c)
  BY <1>3, <1>4, <1>7 DEF Patch, workers, TypeOK, Template, Inserted
<1>8. CASE CancelTemplate
  BY <1>2, <1>8 DEF CancelTemplate, Statement, SetTemplate, TypeOK, Template
<1>9. CASE CancelInstances \/ \E f \in Time : CancelInstance(f)
  <2>1. /\ tmpl' = tmpl /\ wpc' = wpc
        /\ \A f \in Time : inst'[f] = inst[f] \/ inst'[f].state = "CANCELLED"
        /\ \A f \in Time : Inserted(f)' => Inserted(f)
    BY <1>2, <1>9
    DEF CancelInstances, CancelInstance, Statement, CancelPending, SetInstance, workers, TypeOK,
        Instance, Inserted
  <2>2. Goes
    BY <1>3, <2>1
  <2> QED
    BY <2>1, <2>2 DEF Goes, Live, WillSpawn, NoNextFire
<1>10. ASSUME NEW w \in Worker, Work(w) PROVE Goes'
  <2>1. tmpl.state = "SCHEDULED"
    BY <1>2, <1>10
    DEF Work, Lease, GiveBack, SetRunning, SetCompleted, Failed, LoadTemplate, CompleteTemplate,
        CountSiblings, FindKey, InsertNext, CountOccurrence, Statement, SetTemplate,
        IncrementOccurrences, table, TypeOK, Template
  <2>2. \E f \in Time : Inserted(f)
    <3>1. CASE wpc[w] # "idle"
      BY <3>1 DEF TypeOK, Copy, UnbrokenInv, HeldInserted
    <3>2. CASE wpc[w] = "idle"
      BY <1>10, <3>2
      DEF Work, Lease, GiveBack, SetRunning, SetCompleted, Failed, LoadTemplate,
          CompleteTemplate, CountSiblings, FindKey, InsertNext, CountOccurrence, Inserted
    <3> QED
      BY <3>1, <3>2
  <2> QED
    BY <1>2, <1>3, <1>t, <1>10, <2>1, <2>2, WorkGoes
<1>11. CASE \E f \in Time : Reclaim(f)
  BY <1>11 DEF Reclaim, SetInstance, TypeOK, Instance, Goes, Live
<1>12. CASE CrashAndRestart
  BY <1>2, <1>12 DEF CrashAndRestart
<1>13. CASE UNCHANGED vars
  BY <1>3, <1>4, <1>13 DEF vars, table, workers, Inserted
<1> QED
  BY <1>5, <1>6, <1>7, <1>8, <1>9, <1>10, <1>11, <1>12, <1>13 DEF Next, Serve

LEMMA UnbrokenInit == Init => UnbrokenInv
BY RecurringAssumption
DEF Init, UnbrokenInv, Budget, HeldInserted, FirstChecked, UnbrokenWithoutFailure, ChainUnbroken, Inserted

(* UnbrokenWithoutFailure: while nothing fails, the chain of a recurring   *)
(* job does not break (result.rs:57-61, recurring.rs:98-152), but where an *)
(* expression fires no more, until an instance is completed in a run       *)
(* scheduled before its own fire time or a lease ends in the queue.        *)
THEOREM ChainDoesNotBreak == Spec => []UnbrokenWithoutFailure
<1>1. TypeOK /\ ForwardKept /\ UnbrokenInv /\ [Next]_vars
        => TypeOK' /\ ForwardKept' /\ UnbrokenInv'
  BY StepTypes, ForwardStep, UnbrokenStep
<1>2. UnbrokenInv => UnbrokenWithoutFailure
  BY DEF UnbrokenInv
<1> QED
  BY <1>1, <1>2, InitTypes, ForwardInit, UnbrokenInit, PTL DEF Spec

-----------------------------------------------------------------------------
(* Counting, for finitely many workers, even when leases end in the queue: *)
(* what a step does to the number of rows, to occurrences_completed and to *)
(* the workers that have yet to increment it.                              *)
Rows  == {f \in Time : Inserted(f)}
Bumps == {w \in Worker : wpc[w] = "bump"}

CountEffect ==
  \/ /\ Rows' = Rows /\ Bumps' = Bumps
     /\ tmpl'.count = tmpl.count \/ tmpl'.count = tmpl.count + 1
  \/ /\ post = "template" /\ Rows' = {FirstFire} /\ Bumps' = Bumps
     /\ tmpl'.count = tmpl.count
  \/ \E w \in Worker :
       /\ wpc[w] = "insert" /\ NextAt(w) \notin Rows
       /\ Rows' = Rows \cup {NextAt(w)} /\ Bumps' = Bumps \cup {w}
       /\ tmpl'.count = tmpl.count
  \/ \E w \in Bumps :
       Rows' = Rows /\ Bumps' = Bumps \ {w} /\ tmpl'.count = tmpl.count + 1

LEMMA NothingStep == ASSUME TypeOK, NothingBeforePost, [Next]_vars PROVE NothingBeforePost'
<1> USE DEF Inserted
<1>1. CASE post = "done"
  <2>1. post' = "done"
    BY <1>1
    DEF Next, Serve, CreateTemplate, CreateFirst, Patch, CancelTemplate, CancelInstances,
        CancelInstance, Work, Lease, GiveBack, SetRunning, SetCompleted, Failed, LoadTemplate,
        CompleteTemplate, CountSiblings, FindKey, InsertNext, CountOccurrence, Reclaim,
        CrashAndRestart, vars
  <2> QED
    BY <2>1 DEF NothingBeforePost
<1>2. CASE post # "done"
  <2>1. (\A f \in Time : ~Inserted(f)) /\ (\A w \in Worker : wpc[w] = "idle")
    BY <1>2 DEF NothingBeforePost
  <2>2. ASSUME NEW w \in Worker PROVE ~Work(w)
    BY <2>1
    DEF Work, Lease, GiveBack, SetRunning, SetCompleted, Failed, LoadTemplate, CompleteTemplate,
        CountSiblings, FindKey, InsertNext, CountOccurrence
  <2>3. CASE Serve
    <3>1. wpc' = wpc /\ (post' # "done" => inst' = inst)
      BY <2>1, <2>3
      DEF Serve, CreateTemplate, CreateFirst, Patch, CancelTemplate, CancelInstances,
          CancelInstance, Statement, CancelPending, workers, table, TypeOK
    <3> QED
      BY <2>1, <3>1 DEF NothingBeforePost
  <2>4. CASE CrashAndRestart
    BY <2>1, <2>4 DEF CrashAndRestart, NothingBeforePost
  <2>5. CASE UNCHANGED vars
    BY <2>1, <2>5 DEF NothingBeforePost, vars, table, workers
  <2>6. ASSUME NEW f \in Time PROVE ~Reclaim(f)
    BY <2>1 DEF Reclaim
  <2> QED
    BY <2>2, <2>3, <2>4, <2>5, <2>6 DEF Next
<1> QED
  BY <1>1, <1>2

LEMMA SameRows ==
  ASSUME TypeOK, NEW g \in Time, Inserted(g), NEW t,
         inst' = [inst EXCEPT ![g] = [state |-> "SCHEDULED", at |-> t]]
  PROVE  Rows' = Rows
BY DEF TypeOK, Inserted, Rows

LEMMA SameRowsSet ==
  ASSUME TypeOK, NEW g \in Time, Inserted(g), NEW s, s # "ABSENT", inst' = SetInstance(g, s)
  PROVE  Rows' = Rows
BY DEF TypeOK, Inserted, Rows, SetInstance, Instance

(* A worker that has nothing to count, and will not have.                  *)
LEMMA SameBumps ==
  ASSUME TypeOK, NEW w \in Worker, wpc[w] # "bump", NEW pc, pc # "bump",
         wpc' = [wpc EXCEPT ![w] = pc]
  PROVE  Bumps' = Bumps
BY DEF TypeOK, Bumps

LEMMA WorkCounts ==
  ASSUME TypeOK, HeldInserted, faults' = faults, NEW w \in Worker, Work(w)
  PROVE  CountEffect
<1>0. /\ faults' # faults - 1 /\ wpc \in [Worker -> WorkerPc]
      /\ wpc[w] # "idle" => held[w].id \in Time /\ Inserted(held[w].id)
      /\ tmpl \in Template
  BY DEF TypeOK, Copy, HeldInserted
<1>1. ASSUME NEW pc, pc # "bump", GoTo(w, pc), wpc[w] # "bump" PROVE Bumps' = Bumps
  BY <1>1, SameBumps DEF GoTo
<1>2. ASSUME NextTurn(w), wpc[w] # "bump" PROVE Bumps' = Bumps
  BY <1>2, SameBumps DEF NextTurn
<1>3. ASSUME inst' = inst PROVE Rows' = Rows
  BY <1>3 DEF Rows, Inserted
<1>4. CASE \E f \in Time : Lease(w, f)
  <2> PICK f \in Time : Lease(w, f)
    BY <1>4
  <2>1. Rows' = Rows
    BY SameRowsSet DEF Lease, Inserted
  <2>2. Bumps' = Bumps
    BY SameBumps DEF Lease
  <2> QED
    BY <2>1, <2>2 DEF Lease, CountEffect
<1>5. CASE GiveBack(w)
  <2>1. /\ wpc[w] = "start" /\ tmpl' = tmpl /\ NextTurn(w)
        /\ inst' = [inst EXCEPT ![held[w].id] = [state |-> "SCHEDULED", at |-> held[w].at]]
    BY <1>0, <1>5 DEF GiveBack, Statement
  <2>2. Rows' = Rows
    BY <1>0, <2>1, SameRows
  <2> QED
    BY <1>2, <2>1, <2>2 DEF CountEffect
<1>6. CASE SetRunning(w) \/ SetCompleted(w)
  <2>1. /\ wpc[w] # "idle" /\ wpc[w] # "bump" /\ tmpl' = tmpl
        /\ GoTo(w, "run") \/ GoTo(w, "load")
        /\ \E s \in {"RUNNING", "COMPLETED"} : inst' = SetInstance(held[w].id, s)
    BY <1>0, <1>6 DEF SetRunning, SetCompleted, Statement
  <2> QED
    BY <1>0, <1>1, <2>1, SameRowsSet DEF CountEffect
<1>7. CASE Failed(w)
  <2>1. /\ wpc[w] = "run"
        /\ \/ \E t \in RetryAt :
                Statement(tmpl, [inst EXCEPT ![held[w].id] = [state |-> "SCHEDULED", at |-> t]],
                          NextTurn(w), NextTurn(w))
           \/ Statement(tmpl, SetInstance(held[w].id, "ENDED"), NextTurn(w), NextTurn(w))
    BY <1>7 DEF Failed
  <2>2. ASSUME NEW i, Statement(tmpl, i, NextTurn(w), NextTurn(w))
        PROVE  tmpl' = tmpl /\ inst' = i /\ NextTurn(w)
    BY <1>0, <2>2 DEF Statement
  <2>3. ASSUME NEW t, inst' = [inst EXCEPT ![held[w].id] = [state |-> "SCHEDULED", at |-> t]]
        PROVE  Rows' = Rows
    BY <1>0, <2>1, <2>3, SameRows
  <2>4. ASSUME inst' = SetInstance(held[w].id, "ENDED") PROVE Rows' = Rows
    BY <1>0, <2>1, <2>4, SameRowsSet
  <2>5. tmpl' = tmpl /\ NextTurn(w) /\ Rows' = Rows
    BY <2>1, <2>2, <2>3, <2>4
  <2> QED
    BY <1>2, <2>1, <2>5 DEF CountEffect
<1>8. CASE LoadTemplate(w)
  <2>1. tmpl' = tmpl /\ inst' = inst /\ wpc[w] = "load"
    BY <1>8 DEF LoadTemplate, table
  <2>2. NextTurn(w) \/ \E pc \in {"finish", "count"} : wpc' = [wpc EXCEPT ![w] = pc]
    BY <1>8 DEF LoadTemplate
  <2>3. Bumps' = Bumps
    BY <1>2, <2>1, <2>2, SameBumps
  <2> QED
    BY <1>3, <2>1, <2>3 DEF CountEffect
<1>9. CASE CompleteTemplate(w)
  <2>1. /\ wpc[w] = "finish" /\ inst' = inst /\ NextTurn(w)
        /\ tmpl' = SetTemplate("COMPLETED")
    BY <1>0, <1>9 DEF CompleteTemplate, Statement
  <2>2. tmpl'.count = tmpl.count
    BY <1>0, <2>1 DEF SetTemplate, Template
  <2> QED
    BY <1>2, <1>3, <2>1, <2>2 DEF CountEffect
<1>10. CASE CountSiblings(w) \/ FindKey(w)
  <2>1. /\ wpc[w] # "bump" /\ tmpl' = tmpl /\ inst' = inst
        /\ NextTurn(w) \/ \E pc \in {"skip", "key", "insert"} : GoTo(w, pc)
    BY <1>0, <1>10 DEF CountSiblings, FindKey, Statement
  <2> QED
    BY <1>1, <1>2, <1>3, <2>1 DEF CountEffect
<1>11. CASE InsertNext(w)
  <2>1. CASE Inserted(NextAt(w))
    BY <1>2, <1>3, <1>11, <2>1 DEF InsertNext, table, CountEffect
  <2>2. CASE ~Inserted(NextAt(w))
    <3>1. /\ wpc[w] = "insert" /\ NextAt(w) \in Time /\ tmpl' = tmpl
          /\ inst' = InsertInstance(NextAt(w)) /\ GoTo(w, "bump")
      BY <1>0, <1>11, <2>2 DEF InsertNext, Statement, TypeOK
    <3>2. Rows' = Rows \cup {NextAt(w)} /\ NextAt(w) \notin Rows
      BY <2>2, <3>1 DEF Rows, Inserted, InsertInstance, TypeOK
    <3>3. Bumps' = Bumps \cup {w}
      BY <1>0, <3>1 DEF Bumps, GoTo
    <3> QED
      BY <3>1, <3>2, <3>3 DEF CountEffect
  <2> QED
    BY <2>1, <2>2
<1>12. CASE CountOccurrence(w)
  <2>1. wpc[w] \in {"skip", "bump"} /\ tmpl' = IncrementOccurrences /\ inst' = inst /\ NextTurn(w)
    BY <1>0, <1>12 DEF CountOccurrence, Statement
  <2>2. tmpl'.count = tmpl.count + 1
    BY <1>0, <2>1 DEF IncrementOccurrences, Template
  <2>3. CASE wpc[w] = "bump"
    <3>1. w \in Bumps /\ Bumps' = Bumps \ {w}
      BY <1>0, <2>1, <2>3 DEF NextTurn, Bumps
    <3> QED
      BY <1>3, <2>1, <2>2, <3>1 DEF CountEffect
  <2>4. CASE wpc[w] # "bump"
    BY <1>2, <1>3, <2>1, <2>2, <2>4 DEF CountEffect
  <2> QED
    BY <2>3, <2>4
<1> QED
  BY <1>4, <1>5, <1>6, <1>7, <1>8, <1>9, <1>10, <1>11, <1>12 DEF Work

LEMMA StepCounts ==
  ASSUME TypeOK, HeldInserted, NothingBeforePost, FirstChecked, [Next]_vars,
         faults' = faults, crashes' = crashes
  PROVE  CountEffect
<1>0. faults' # faults - 1 /\ crashes' # crashes - 1 /\ tmpl \in Template
  BY DEF TypeOK
<1>1. ASSUME UNCHANGED <<inst, wpc>>, tmpl'.count = tmpl.count PROVE CountEffect
  BY <1>1 DEF CountEffect, Rows, Bumps, Inserted
<1>2. CASE CreateTemplate \/ CancelTemplate
  BY <1>0, <1>1, <1>2
  DEF CreateTemplate, CancelTemplate, Statement, SetTemplate, workers, Template
<1>3. CASE CreateFirst
  <2>1. /\ post = "template" /\ tmpl' = tmpl /\ wpc' = wpc
        /\ inst' = InsertInstance(FirstFire)
    BY <1>0, <1>3 DEF CreateFirst, Statement, workers
  <2>2. FirstFire \in Time
    <3>1. FirstFire # Null
      BY <2>1 DEF FirstChecked
    <3> QED
      BY <3>1, RecurringAssumption DEF FirstFire
  <2>3. Rows' = {FirstFire} /\ Bumps' = Bumps
    BY <2>1, <2>2 DEF NothingBeforePost, Rows, Bumps, Inserted, InsertInstance, TypeOK
  <2> QED
    BY <2>1, <2>3 DEF CountEffect
<1>4. CASE \E c \in CronExpr : Patch(c)
  BY <1>0, <1>1, <1>4 DEF Patch, workers, Template
<1>5. CASE CancelInstances \/ \E f \in Time : CancelInstance(f)
  <2>1. tmpl' = tmpl /\ wpc' = wpc /\ \A f \in Time : Inserted(f)' <=> Inserted(f)
    BY <1>0, <1>5
    DEF CancelInstances, CancelInstance, Statement, CancelPending, SetInstance, workers, TypeOK,
        Instance, Inserted
  <2> QED
    BY <2>1 DEF CountEffect, Rows, Bumps
<1>6. ASSUME NEW w \in Worker, Work(w) PROVE CountEffect
  BY <1>0, <1>6, WorkCounts
<1>7. CASE \E f \in Time : Reclaim(f)
  <2> PICK f \in Time : Reclaim(f)
    BY <1>7
  <2>1. Rows' = Rows
    BY SameRowsSet DEF Reclaim, Inserted
  <2> QED
    BY <2>1 DEF Reclaim, workers, CountEffect, Bumps
<1>8. CASE UNCHANGED vars
  BY <1>1, <1>8 DEF vars, table, workers
<1> QED
  BY <1>0, <1>2, <1>3, <1>4, <1>5, <1>6, <1>7, <1>8 DEF Next, Serve, CrashAndRestart

CountInv ==
  /\ Budget /\ HeldInserted /\ NothingBeforePost /\ FirstChecked
  /\ NothingFailed => IsFiniteSet(Rows) /\ InstancesCounted

LEMMA CountInit == Init => CountInv
<1> SUFFICES ASSUME Init PROVE CountInv
  OBVIOUS
<1>1. Rows = {} /\ post = "none"
  BY DEF Init, Rows, Inserted
<1> QED
  BY <1>1, FS_EmptySet, RecurringAssumption
  DEF Init, CountInv, Budget, HeldInserted, NothingBeforePost, FirstChecked, InstancesCounted,
      Inserted

LEMMA CountStep ==
  ASSUME IsFiniteSet(Worker), TypeOK, CountInv, [Next]_vars
  PROVE  CountInv'
<1>1. /\ Budget' /\ HeldInserted' /\ NothingBeforePost' /\ FirstChecked'
      /\ NothingFailed' => NothingFailed /\ faults' = faults /\ crashes' = crashes
  BY BudgetStep, HeldStep, NothingStep, FirstCheckedStep DEF CountInv
<1> SUFFICES ASSUME NothingFailed', IsFiniteSet(Rows) PROVE (IsFiniteSet(Rows) /\ InstancesCounted)'
  BY <1>1 DEF CountInv
<1> DEFINE n == Cardinality(Rows)
           b == Cardinality(Bumps)
           c == tmpl.count
<1>2. CountEffect
  BY <1>1, StepCounts DEF CountInv
<1>3. n \in Nat /\ IsFiniteSet(Bumps) /\ b \in Nat /\ c \in Nat
  BY FS_CardinalityType, FS_Subset DEF Bumps, TypeOK, Template
<1>4. n <= 1 + c + b
  <2>1. CASE post = "done"
    BY <1>1, <2>1 DEF CountInv, InstancesCounted, Rows, Bumps
  <2>2. CASE post # "done"
    <3>1. Rows = {}
      BY <2>2 DEF CountInv, NothingBeforePost, Rows
    <3> QED
      BY <1>3, <3>1, FS_EmptySet
  <2> QED
    BY <2>1, <2>2
<1> SUFFICES IsFiniteSet(Rows') /\ Cardinality(Rows') <= 1 + tmpl'.count + Cardinality(Bumps')
  BY DEF InstancesCounted, Rows, Bumps
<1>5. CASE /\ Rows' = Rows /\ Bumps' = Bumps
           /\ tmpl'.count = c \/ tmpl'.count = c + 1
  <2> HIDE DEF n, b, c
  <2>1. Cardinality(Rows') = n /\ Cardinality(Bumps') = b
    BY <1>5 DEF n, b
  <2> QED
    BY <1>3, <1>4, <1>5, <2>1
<1>6. CASE Rows' = {FirstFire} /\ Bumps' = Bumps /\ tmpl'.count = c
  <2>1. Cardinality(Rows') = 1 /\ IsFiniteSet(Rows') /\ Cardinality(Bumps') = b
    BY <1>6, FS_Singleton
  <2> HIDE DEF n, b, c
  <2> QED
    BY <1>3, <1>6, <2>1
<1>7. ASSUME NEW w \in Worker, wpc[w] = "insert", NextAt(w) \notin Rows,
             Rows' = Rows \cup {NextAt(w)}, Bumps' = Bumps \cup {w}, tmpl'.count = c
      PROVE  IsFiniteSet(Rows') /\ Cardinality(Rows') <= 1 + tmpl'.count + Cardinality(Bumps')
  <2>1. IsFiniteSet(Rows') /\ Cardinality(Rows') = n + 1
    BY <1>7, FS_AddElement
  <2>2. w \notin Bumps
    BY <1>7 DEF Bumps
  <2>3. Cardinality(Bumps') = b + 1
    BY <1>3, <1>7, <2>2, FS_AddElement
  <2> HIDE DEF n, b, c
  <2> QED
    BY <1>3, <1>4, <1>7, <2>1, <2>3
<1>8. ASSUME NEW w \in Bumps, Rows' = Rows, Bumps' = Bumps \ {w}, tmpl'.count = c + 1
      PROVE  IsFiniteSet(Rows') /\ Cardinality(Rows') <= 1 + tmpl'.count + Cardinality(Bumps')
  <2>1. Cardinality(Bumps') = b - 1 /\ Cardinality(Rows') = n
    BY <1>3, <1>8, FS_RemoveElement
  <2> HIDE DEF n, b, c
  <2> QED
    BY <1>3, <1>4, <1>8, <2>1
<1> QED
  BY <1>2, <1>5, <1>6, <1>7, <1>8 DEF CountEffect

(* InstancesCounted: occurrences_completed misses no instance after the    *)
(* first, but for those whose workers have yet to count them (recurring.rs:*)
(* 150-155), when nothing fails, even if leases end in the queue and       *)
(* several workers spawn at a time.                                        *)
THEOREM InstancesAreCounted ==
  ASSUME IsFiniteSet(Worker)
  PROVE  Spec => []InstancesCounted
<1>1. TypeOK /\ CountInv /\ [Next]_vars => TypeOK' /\ CountInv'
  BY StepTypes, CountStep
<1>2. CountInv => InstancesCounted
  BY DEF CountInv, InstancesCounted
<1> QED
  BY <1>1, <1>2, InitTypes, CountInit, PTL DEF Spec

(* max_occurrences.  A worker that is about to insert has read a count     *)
(* below the maximum, which lacked at most the other workers.              *)
Seeing == {"count", "key", "insert"}

LimitInv ==
  NothingFailed /\ NoneLate /\ MaxOccurrences # Null =>
    /\ LimitWithoutFailure
    /\ \A w \in Worker : wpc[w] \in Seeing =>
         /\ seen[w].count + 1 < MaxOccurrences
         /\ Cardinality(Rows) <= seen[w].count + Cardinality(Worker)

LEMMA SeenWork ==
  ASSUME TypeOK, NEW v \in Worker, Work(v), NEW w \in Worker, wpc'[w] \in Seeing
  PROVE  \/ wpc[w] \in Seeing /\ seen'[w] = seen[w]
         \/ /\ wpc[w] = "load" /\ seen'[w] = tmpl
            /\ ~LimitReached(tmpl) /\ tmpl.state # "CANCELLED"
<1> USE DEF Seeing
<1>0. wpc \in [Worker -> WorkerPc] /\ seen \in [Worker -> Template \cup {Null}]
  BY DEF TypeOK
<1>1. ASSUME NEW pc, GoTo(v, pc), pc \in Seeing => wpc[v] \in Seeing
      PROVE  wpc[w] \in Seeing /\ seen'[w] = seen[w]
  BY <1>0, <1>1 DEF GoTo
<1>2. ASSUME NextTurn(v) PROVE wpc[w] \in Seeing /\ seen'[w] = seen[w]
  BY <1>0, <1>2 DEF NextTurn
<1>3. CASE \E f \in Time : Lease(v, f)
  BY <1>0, <1>3 DEF Lease
<1>4. CASE LoadTemplate(v)
  BY <1>0, <1>2, <1>4 DEF LoadTemplate
<1>5. CASE SetRunning(v) \/ SetCompleted(v)
  BY <1>1, <1>2, <1>5 DEF SetRunning, SetCompleted, Statement
<1>6. CASE GiveBack(v) \/ Failed(v) \/ CompleteTemplate(v) \/ CountOccurrence(v)
  BY <1>2, <1>6 DEF GiveBack, Failed, CompleteTemplate, CountOccurrence, Statement
<1>7. CASE CountSiblings(v) \/ FindKey(v) \/ InsertNext(v)
  BY <1>1, <1>2, <1>7 DEF CountSiblings, FindKey, InsertNext, Statement
<1> QED
  BY <1>3, <1>4, <1>5, <1>6, <1>7 DEF Work

LEMMA SeenStep ==
  ASSUME TypeOK, [Next]_vars, NEW w \in Worker, wpc'[w] \in Seeing
  PROVE  \/ wpc[w] \in Seeing /\ seen'[w] = seen[w]
         \/ /\ wpc[w] = "load" /\ seen'[w] = tmpl
            /\ ~LimitReached(tmpl) /\ tmpl.state # "CANCELLED"
<1>1. CASE Serve \/ (\E f \in Time : Reclaim(f)) \/ UNCHANGED vars
  BY <1>1
  DEF Serve, CreateTemplate, CreateFirst, Patch, CancelTemplate, CancelInstances, CancelInstance,
      Reclaim, workers, vars
<1>2. ~CrashAndRestart
  BY DEF CrashAndRestart, Seeing
<1> QED
  BY <1>1, <1>2, SeenWork DEF Next

LEMMA LimitInit == Init => LimitInv
<1> SUFFICES ASSUME Init PROVE LimitInv
  OBVIOUS
<1>1. Rows = {} /\ Cardinality(Rows) = 0
  BY FS_EmptySet DEF Init, Rows, Inserted
<1> QED
  BY <1>1 DEF Init, LimitInv, LimitWithoutFailure, Rows, Seeing

LEMMA LimitStep ==
  ASSUME IsFiniteSet(Worker), TypeOK, ChainKept, CountInv, LimitInv, [Next]_vars
  PROVE  LimitInv'
<1>1. NothingFailed' => NothingFailed /\ faults' = faults /\ crashes' = crashes
  BY BudgetStep DEF CountInv
<1> SUFFICES ASSUME NothingFailed', NoneLate', MaxOccurrences # Null
             PROVE  /\ LimitWithoutFailure'
                    /\ \A w \in Worker : wpc'[w] \in Seeing =>
                         /\ seen'[w].count + 1 < MaxOccurrences
                         /\ Cardinality(Rows') <= seen'[w].count + Cardinality(Worker)
  BY DEF LimitInv
<1>t. NoneLate /\ ChainInv
  BY LateStep DEF ChainKept, Timely
<1> DEFINE n == Cardinality(Rows)
           W == Cardinality(Worker)
           Max == MaxOccurrences
           c == tmpl.count
<1>2. CountEffect
  BY <1>1, StepCounts DEF CountInv
<1>3. /\ IsFiniteSet(Rows) /\ n \in Nat /\ W \in Nat /\ Max \in Int /\ c \in Nat
      /\ \A w \in Worker : wpc[w] \in Seeing => seen[w].count \in Nat
  BY <1>1, FS_CardinalityType, RecurringAssumption DEF CountInv, TypeOK, Template, Seeing
<1>4. /\ n <= 1 \/ n <= Max + W - 1
      /\ \A w \in Worker : wpc[w] \in Seeing =>
           seen[w].count + 1 < Max /\ n <= seen[w].count + W
  BY <1>1, <1>t DEF LimitInv, LimitWithoutFailure, Rows
<1>5. ASSUME NEW w \in Worker, wpc[w] = "load" PROVE n <= c + W
  <2>1. Bumps \subseteq Worker \ {w} /\ IsFiniteSet(Worker \ {w}) /\ Cardinality(Worker \ {w}) = W - 1
    BY <1>5, FS_RemoveElement DEF Bumps
  <2>2. Cardinality(Bumps) \in Nat /\ Cardinality(Bumps) <= W - 1
    BY <2>1, FS_Subset, FS_CardinalityType
  <2>3. post = "done"
    BY <1>5 DEF CountInv, NothingBeforePost, TypeOK
  <2>4. n <= 1 + c + Cardinality(Bumps)
    BY <1>1, <2>3 DEF CountInv, InstancesCounted, Rows, Bumps
  <2> HIDE DEF n, W, c
  <2> QED
    BY <1>3, <2>2, <2>4
(* What a worker sees after the step, by what holds before it.             *)
<1>6. ASSUME NEW w \in Worker, wpc'[w] \in Seeing
      PROVE  /\ seen'[w].count \in Nat /\ seen'[w].count + 1 < Max
             /\ n <= seen'[w].count + W
             /\ wpc[w] \in Seeing \cup {"load"}
  <2>1. CASE wpc[w] \in Seeing /\ seen'[w] = seen[w]
    BY <1>3, <1>4, <2>1
  <2>2. CASE wpc[w] = "load" /\ seen'[w] = tmpl /\ ~LimitReached(tmpl)
    <3>1. n <= c + W
      BY <1>5, <2>2
    <3>2. ~(c + 1 >= Max)
      BY <2>2 DEF LimitReached
    <3>3. c + 1 < Max
      <4> HIDE DEF c, Max
      <4> QED
        BY <1>3, <3>2
    <3> QED
      BY <1>3, <2>2, <3>1, <3>3
  <2> QED
    BY <1>6, <2>1, <2>2, SeenStep
<1> SUFFICES /\ Cardinality(Rows') <= 1 \/ Cardinality(Rows') <= Max + W - 1
             /\ \A w \in Worker : wpc'[w] \in Seeing => Cardinality(Rows') <= seen'[w].count + W
  BY <1>6 DEF LimitWithoutFailure, Rows
<1>7. CASE Rows' = Rows
  BY <1>4, <1>6, <1>7
<1>8. CASE post = "template" /\ Rows' = {FirstFire}
  <2>1. Cardinality(Rows') = 1
    BY <1>8, FS_Singleton
  <2>2. \A w \in Worker : wpc[w] = "idle"
    BY <1>8 DEF CountInv, NothingBeforePost
  <2> QED
    BY <1>6, <2>1, <2>2 DEF Seeing
<1>9. ASSUME NEW v \in Worker, wpc[v] = "insert", NextAt(v) \notin Rows,
             Rows' = Rows \cup {NextAt(v)}, Bumps' = Bumps \cup {v}
      PROVE  /\ Cardinality(Rows') <= Max + W - 1
             /\ \A w \in Worker : wpc'[w] \notin Seeing
  <2>1. Cardinality(Rows') = n + 1
    BY <1>3, <1>9, FS_AddElement
  <2>2. n + 1 <= Max + W - 1
    <3>1. seen[v].count \in Nat /\ seen[v].count + 1 < Max /\ n <= seen[v].count + W
      BY <1>3, <1>4, <1>9 DEF Seeing
    <3> HIDE DEF n, W, Max
    <3> QED
      BY <1>3, <3>1
  <2>3. ASSUME NEW w \in Worker, wpc'[w] \in Seeing PROVE FALSE
    <3>1. WillSpawn(w) /\ WillSpawn(v)
      BY <1>6, <1>9, <2>3 DEF WillSpawn, Spawning, Seeing
    <3>2. w = v
      BY <1>t, <3>1 DEF ChainInv, AtMostOne
    <3>3. wpc'[v] = "bump"
      BY <1>9 DEF Bumps
    <3> QED
      BY <2>3, <3>2, <3>3 DEF Seeing
  <2> QED
    BY <2>1, <2>2, <2>3
<1> QED
  BY <1>2, <1>7, <1>8, <1>9 DEF CountEffect

(* LimitWithoutFailure: max_occurrences (recurring.rs:107-115) is exceeded *)
(* by at most the number of workers less one, until something fails or a   *)
(* lease ends in the queue; all POST's first instance aside.               *)
THEOREM LimitIsNearlyKept ==
  ASSUME IsFiniteSet(Worker)
  PROVE  Spec => []LimitWithoutFailure
<1>1. TypeOK /\ ChainKept /\ CountInv /\ LimitInv /\ [Next]_vars
        => TypeOK' /\ ChainKept' /\ CountInv' /\ LimitInv'
  BY StepTypes, KeptStep, CountStep, LimitStep
<1>2. LimitInv => LimitWithoutFailure
  BY DEF LimitInv, LimitWithoutFailure
<1> QED
  BY <1>1, <1>2, InitTypes, KeptInit, CountInit, LimitInit, PTL DEF Spec

-----------------------------------------------------------------------------
(* The end of a template.  Its row is there from POST on, and cancelled or *)
(* completed once DELETE has come to the instances.                        *)
RowMatches ==
  /\ tmpl.state # "ABSENT" => post # "none"
  /\ tmpl.state = "COMPLETED" => post = "done"
  /\ delete # "none" => tmpl.state \in {"CANCELLED", "COMPLETED"}

EndInv == RowMatches /\ CompletedIsOver

LEMMA EndInit == Init => EndInv
BY DEF Init, EndInv, RowMatches, CompletedIsOver

(* Only spawn_next_instance completes a template.                          *)
LEMMA WhoCompletes ==
  ASSUME TypeOK, [Next]_vars, tmpl.state # "COMPLETED", tmpl'.state = "COMPLETED"
  PROVE  \E w \in Worker : CompleteTemplate(w)
<1>0. tmpl \in Template
  BY DEF TypeOK
<1>1. CASE Serve
  BY <1>0, <1>1
  DEF Serve, CreateTemplate, CreateFirst, Patch, CancelTemplate, CancelInstances,
      CancelInstance, Statement, SetTemplate, Template, table
<1>2. ASSUME NEW w \in Worker, Work(w), ~CompleteTemplate(w) PROVE FALSE
  <2>1. tmpl' = tmpl \/ tmpl' = IncrementOccurrences
    BY <1>2
    DEF Work, Lease, GiveBack, SetRunning, SetCompleted, Failed, LoadTemplate, CountSiblings,
        FindKey, InsertNext, CountOccurrence, Statement, table
  <2> QED
    BY <1>0, <2>1 DEF IncrementOccurrences, Template
<1>3. CASE (\E f \in Time : Reclaim(f)) \/ CrashAndRestart \/ UNCHANGED vars
  BY <1>3 DEF Reclaim, CrashAndRestart, vars, table
<1> QED
  BY <1>1, <1>2, <1>3 DEF Next

Quiet ==
  /\ \A f \in Time : ~Live(f)
  /\ \A w \in Worker : ~WillSpawn(w)
  /\ post = "done"

(* Where nothing is left that goes on, nothing begins again.               *)
LEMMA QuietStays == ASSUME TypeOK, ChainInv, Quiet, [Next]_vars PROVE Quiet'
<1>0. /\ wpc \in [Worker -> WorkerPc] /\ inst \in [Time -> Instance]
      /\ \A f \in Time : inst[f].state \notin {"SCHEDULED", "LEASED", "RUNNING"}
      /\ \A w \in Worker : wpc[w] \notin Spawning
      /\ post = "done"
  BY DEF TypeOK, Quiet, Live, WillSpawn
<1>1. \A w \in Worker : wpc[w] \notin {"start", "run"}
  BY <1>0 DEF ChainInv, HoldersMatch, TypeOK, Copy
<1>2. ASSUME UNCHANGED <<inst, wpc, post>> PROVE Quiet'
  BY <1>2 DEF Quiet, Live, WillSpawn
<1>3. CASE Serve
  <2>1. CASE CancelInstances \/ \E f \in Time : CancelInstance(f)
    <3>1. inst' = inst
      BY <1>0, <2>1
      DEF CancelInstances, CancelInstance, Statement, CancelPending, table
    <3> QED
      BY <1>2, <2>1, <3>1 DEF CancelInstances, CancelInstance, workers
  <2> QED
    BY <1>0, <1>2, <1>3, <2>1
    DEF Serve, CreateTemplate, CreateFirst, Patch, CancelTemplate, Statement, workers, table
<1>4. ASSUME NEW w \in Worker, Work(w) PROVE Quiet'
  <2>1. CountOccurrence(w)
    BY <1>0, <1>1, <1>4
    DEF Work, Lease, GiveBack, SetRunning, SetCompleted, Failed, LoadTemplate,
        CompleteTemplate, CountSiblings, FindKey, InsertNext, Spawning
  <2>2. UNCHANGED <<inst, post>> /\ NextTurn(w)
    BY <2>1 DEF CountOccurrence, Statement, table
  <2> QED
    BY <1>0, <2>2 DEF NextTurn, Quiet, Live, WillSpawn, Spawning
<1>5. CASE \E f \in Time : Reclaim(f)
  BY <1>0, <1>5 DEF Reclaim
<1>6. CASE CrashAndRestart
  <2>1. /\ \A f \in Time : inst'[f] = inst[f]
        /\ \A w \in Worker : wpc'[w] = "idle"
        /\ post' = "done"
    BY <1>0, <1>6 DEF CrashAndRestart
  <2> QED
    BY <1>0, <2>1 DEF Quiet, Live, WillSpawn, Spawning
<1>7. CASE UNCHANGED vars
  BY <1>2, <1>7 DEF vars, table, workers
<1> QED
  BY <1>3, <1>4, <1>5, <1>6, <1>7 DEF Next

LEMMA RowMatchesStep ==
  ASSUME TypeOK, ChainInv, RowMatches, [Next]_vars
  PROVE  RowMatches'
<1>0. tmpl \in Template /\ post \in {"none", "template", "done"}
  BY DEF TypeOK
<1>1. CASE Serve
  BY <1>0, <1>1
  DEF RowMatches, Serve, CreateTemplate, CreateFirst, Patch, CancelTemplate, CancelInstances,
      CancelInstance, Statement, SetTemplate, Template, table
<1>2. ASSUME NEW w \in Worker, Work(w) PROVE RowMatches'
  <2>1. UNCHANGED <<post, delete>>
    BY <1>2
    DEF Work, Lease, GiveBack, SetRunning, SetCompleted, Failed, LoadTemplate,
        CompleteTemplate, CountSiblings, FindKey, InsertNext, CountOccurrence
  <2>2. CASE CompleteTemplate(w)
    <3>1. post = "done"
      BY <2>2 DEF CompleteTemplate, ChainInv, NothingBeforePost
    <3>2. tmpl'.state \in {tmpl.state, "COMPLETED"}
      BY <1>0, <2>2 DEF CompleteTemplate, Statement, SetTemplate, Template, table
    <3> QED
      BY <2>1, <3>1, <3>2 DEF RowMatches
  <2>3. CASE ~CompleteTemplate(w)
    <3>1. tmpl' = tmpl \/ tmpl' = IncrementOccurrences
      BY <1>2, <2>3
      DEF Work, Lease, GiveBack, SetRunning, SetCompleted, Failed, LoadTemplate,
          CountSiblings, FindKey, InsertNext, CountOccurrence, Statement, table
    <3>2. tmpl'.state = tmpl.state
      BY <1>0, <3>1 DEF IncrementOccurrences, Template
    <3> QED
      BY <2>1, <3>2 DEF RowMatches
  <2> QED
    BY <2>2, <2>3
<1>3. CASE \E f \in Time : Reclaim(f)
  BY <1>3 DEF RowMatches, Reclaim
<1>4. CASE CrashAndRestart
  BY <1>4 DEF RowMatches, CrashAndRestart
<1>5. CASE UNCHANGED vars
  BY <1>5 DEF RowMatches, vars, table
<1> QED
  BY <1>1, <1>2, <1>3, <1>4, <1>5 DEF Next

LEMMA EndStep == ASSUME TypeOK, ChainInv, NoneLate, EndInv, [Next]_vars PROVE EndInv'
<1>1. RowMatches'
  BY RowMatchesStep DEF EndInv
<1>2. ASSUME tmpl'.state = "COMPLETED" PROVE Quiet'
  <2>1. CASE tmpl.state = "COMPLETED"
    <3>1. Quiet
      BY <2>1 DEF EndInv, RowMatches, CompletedIsOver, Quiet
    <3> QED
      BY <3>1, QuietStays
  <2>2. CASE tmpl.state # "COMPLETED"
    <3>1. PICK w \in Worker : CompleteTemplate(w)
      BY <1>2, <2>2, WhoCompletes
    <3>2. wpc[w] = "finish" /\ NextTurn(w) /\ UNCHANGED <<inst, post>>
      BY <3>1 DEF CompleteTemplate, Statement, table
    <3>3. WillSpawn(w) /\ post = "done"
      BY <3>2 DEF WillSpawn, Spawning, ChainInv, NothingBeforePost
    <3>4. (\A f \in Time : ~Live(f)) /\ \A v \in Worker : WillSpawn(v) => v = w
      BY <3>3 DEF ChainInv, AtMostOne
    <3>5. \A v \in Worker : ~WillSpawn(v)'
      BY <3>2, <3>4 DEF TypeOK, NextTurn, WillSpawn, Spawning
    <3> QED
      BY <3>2, <3>3, <3>4, <3>5 DEF Quiet, Live
  <2> QED
    BY <2>1, <2>2
<1> QED
  BY <1>1, <1>2 DEF EndInv, CompletedIsOver, Quiet

EndKept == NoneLate => ChainInv /\ EndInv

LEMMA EndInvariant == Spec => [](TypeOK /\ EndKept)
<1>1. TypeOK /\ EndKept /\ [Next]_vars => TypeOK' /\ EndKept'
  BY StepTypes, LateStep, StepChain, EndStep DEF EndKept, Timely
<1>2. Init => EndKept
  BY InitChain, EndInit DEF EndKept
<1> QED
  BY <1>1, <1>2, InitTypes, PTL DEF Spec

(* CompletedIsOver: a completed template has nothing pending or under way  *)
(* and no worker that goes on (recurring.rs:107-125), until a lease ends   *)
(* while its job waits for a worker, for all values of the constants.      *)
THEOREM CompletedTemplatesAreOver == Spec => []CompletedIsOver
<1>1. EndKept => CompletedIsOver
  BY DEF EndKept, EndInv, CompletedIsOver
<1> QED
  BY <1>1, EndInvariant, PTL

LEMMA StoppedStays ==
  ASSUME TypeOK, ChainInv, NoneLate, EndInv, [Next]_vars, Stopped
  PROVE  Stopped' /\ ~Appears
<1>1. tmpl.state \in {"CANCELLED", "COMPLETED"} /\ post = "done"
  BY DEF Stopped, EndInv, RowMatches, TypeOK
<1>2. delete' = "done" /\ post' = "done"
  BY <1>1
  DEF Stopped, Next, Serve, CreateTemplate, CreateFirst, Patch, CancelTemplate,
      CancelInstances, CancelInstance, Statement, Work, Lease, GiveBack, SetRunning,
      SetCompleted, Failed, LoadTemplate, CompleteTemplate, CountSiblings, FindKey,
      InsertNext, CountOccurrence, Reclaim, CrashAndRestart, vars
<1>3. ASSUME NEW w \in Worker, wpc'[w] \in Seeing PROVE FALSE
  <2>1. wpc[w] = "load" /\ tmpl.state # "CANCELLED"
    BY <1>3, SeenStep DEF Stopped, Seeing
  <2> QED
    BY <1>1, <2>1 DEF EndInv, CompletedIsOver, WillSpawn, Spawning
<1>4. ~Appears
  BY WhoInserts DEF Appears, Inserted, Stopped, CreateFirst, InsertNext
<1> QED
  BY <1>2, <1>3, <1>4 DEF Stopped, Seeing

LEMMA LastAppears ==
  ASSUME TypeOK, ChainInv, [Next]_vars, delete = "done", Appears
  PROVE  Stopped'
<1>1. CASE CreateFirst
  <2>1. post' = "done" /\ UNCHANGED <<wpc, delete>> /\ \A w \in Worker : wpc[w] = "idle"
    BY <1>1 DEF CreateFirst, Statement, workers, ChainInv, NothingBeforePost
  <2> QED
    BY <2>1 DEF Stopped
<1>2. ASSUME NEW w \in Worker, InsertNext(w) PROVE Stopped'
  <2>1. /\ wpc[w] = "insert" /\ UNCHANGED <<post, delete>>
        /\ NextTurn(w) \/ GoTo(w, "bump")
    BY <1>2 DEF InsertNext, Statement
  <2>2. post = "done" /\ WillSpawn(w)
    BY <2>1 DEF ChainInv, NothingBeforePost, WillSpawn, Spawning
  <2>3. \A v \in Worker : v # w => wpc[v] \notin {"count", "key", "insert"}
    BY <2>2 DEF ChainInv, AtMostOne, WillSpawn, Spawning
  <2>4. \A v \in Worker : wpc'[v] \notin {"count", "key", "insert"}
    BY <2>1, <2>3 DEF TypeOK, NextTurn, GoTo
  <2> QED
    BY <2>1, <2>2, <2>4 DEF Stopped
<1> QED
  BY <1>1, <1>2, WhoInserts DEF Appears, Inserted

(* CancelStopsChain: after DELETE of a template was answered at most one   *)
(* instance appears, and none once nobody is past the look at the          *)
(* template's state (recurring.rs:58-79, :94-152), until a lease ends      *)
(* while its job waits for a worker, for all values of the constants.      *)
THEOREM CancelledChainsStop == Spec => CancelStopsChain
<1>1. TypeOK /\ EndKept /\ [Next]_vars =>
        [NoneLate =>
           /\ Stopped => Stopped' /\ ~Appears
           /\ delete = "done" /\ Appears => Stopped']_vars
  BY StoppedStays, LastAppears DEF EndKept
<1>2. Spec => [][Next]_vars
  BY DEF Spec
<1> QED
  BY <1>1, <1>2, EndInvariant, PTL DEF CancelStopsChain

=============================================================================
