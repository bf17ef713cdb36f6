--------------------------- MODULE CreateApiProofs ---------------------------
(***************************************************************************)
(* Proofs about CreateApi, for any number of clients and keys: one job per *)
(* key, errors only for a reason, and the registry of keys implemented.    *)
(*                                                                         *)
(* The proofs look at a step through Effect, what it does to the rows and  *)
(* to one client's answer.                                                 *)
(***************************************************************************)
EXTENDS CreateApi, TLAPS

OneRow == \A r, s \in rows : KeyOf[r] = KeyOf[s] => r = s

(* A handler that has not inserted its row has none, and has not answered. *)
HandlersMatch ==
  \A r \in Request :
    /\ pc[r] # "done" => answer[r] = NoAnswer
    /\ pc[r] \in {"new", "select", "insert"} => r \notin rows
    /\ pc[r] = "first" => r \in rows /\ r \in Repeating

(* What clients were told is in the table: the first instance to whoever   *)
(* created a template, and the row to all others.                          *)
AnswersMatch ==
  \A r \in Request :
    /\ answer[r].job # Null =>
         answer[r].job \in rows /\ KeyOf[answer[r].job] = KeyOf[r]
    /\ Answered(r, "created") =>
         answer[r].job = r /\ (answer[r].instance <=> r \in Repeating)
    /\ Answered(r, "created") /\ r \in Repeating => r \in first
    /\ ~Answered(r, "created") => ~answer[r].instance

CreateInv == TypeOK /\ OneRow /\ HandlersMatch /\ AnswersMatch /\ ErrorsExplained

Told(r, s, j, i) ==
  /\ answer[r] = NoAnswer
  /\ answer' = [answer EXCEPT ![r] = [status |-> s, job |-> j, instance |-> i]]

(* The statement failed, the expression was refused, or the key was taken. *)
Reason(r) ==
  \/ faults' < MaxFaults
  \/ r \in Repeating \ Fires
  \/ RowsOf(KeyOf[r]) # {} /\ r \notin rows

Effect(r) ==
  \/ rows' = rows /\ answer' = answer
  \/ rows' = rows /\ Told(r, "error", Null, FALSE) /\ Reason(r)
  \/ /\ rows' = rows /\ r \notin rows
     /\ \E s \in RowsOf(KeyOf[r]) : Told(r, "existing", s, FALSE)
  \/ /\ rows' = rows /\ r \in rows /\ r \in Repeating
     /\ Told(r, "created", r, TRUE) /\ r \in first'
  \/ /\ rows' = rows \cup {r} /\ RowsOf(KeyOf[r]) = {}
     /\ \/ answer[r] = NoAnswer /\ answer' = answer
        \/ Told(r, "created", r, FALSE) /\ r \notin Repeating
        \/ Told(r, "error", Null, FALSE) /\ faults' < MaxFaults

-----------------------------------------------------------------------------
(* The types, and the position of the handler that moves.                  *)
LEMMA HandlerTypes ==
  ASSUME TypeOK, HandlersMatch, NEW r \in Request, Handle(r) \/ Drop(r)
  PROVE  TypeOK' /\ faults' <= faults
<1>0. /\ faults \in 0..MaxFaults /\ MaxFaults \in Nat
      /\ KeyOf \in [Request -> Key]
  BY CreateApiAssumption DEF TypeOK
<1>1. Failure \in Answer
  BY DEF Failure, Answer
<1>2. ASSUME NEW p \in Pc, GoTo(r, p)
      PROVE  pc' \in [Request -> Pc] /\ answer' \in [Request -> Answer]
  BY <1>2 DEF GoTo, TypeOK
<1>3. ASSUME NEW a \in Answer, Respond(r, a)
      PROVE  pc' \in [Request -> Pc] /\ answer' \in [Request -> Answer]
  BY <1>3 DEF Respond, TypeOK, Pc
<1>4. ASSUME NEW t, NEW f, NEW ok, Statement(r, t, f, ok),
             t \subseteq Request, f \subseteq t \cap Repeating,
             ok => pc' \in [Request -> Pc] /\ answer' \in [Request -> Answer]
      PROVE  TypeOK' /\ faults' <= faults
  <2>1. pc' \in [Request -> Pc] /\ answer' \in [Request -> Answer]
    BY <1>1, <1>3, <1>4 DEF Statement
  <2>2. rows' \subseteq Request /\ first' \subseteq rows' \cap Repeating
    BY <1>4 DEF Statement, TypeOK
  <2>3. faults' \in 0..MaxFaults /\ faults' <= faults
    BY <1>0, <1>4 DEF Statement
  <2> QED
    BY <2>1, <2>2, <2>3 DEF TypeOK
<1>5. CASE Receive(r)
  <2>1. GoTo(r, "select") /\ UNCHANGED <<rows, first, faults>>
    BY <1>5 DEF Receive
  <2> QED
    BY <1>0, <1>2, <2>1 DEF TypeOK, Pc
<1>6. CASE Select(r)
  <2>1. CASE \E s \in RowsOf(KeyOf[r]) :
               Statement(r, rows, first,
                 Respond(r, [status |-> "existing", job |-> s, instance |-> FALSE]))
    <3>1. PICK s \in RowsOf(KeyOf[r]) :
            Statement(r, rows, first,
              Respond(r, [status |-> "existing", job |-> s, instance |-> FALSE]))
      BY <2>1
    <3>2. [status |-> "existing", job |-> s, instance |-> FALSE] \in Answer
      BY DEF RowsOf, TypeOK, Answer
    <3> QED
      BY <1>3, <1>4, <3>1, <3>2 DEF TypeOK
  <2>2. CASE Statement(r, rows, first,
               IF r \in Repeating \ Fires THEN Respond(r, Failure) ELSE GoTo(r, "insert"))
    BY <1>1, <1>2, <1>3, <1>4, <2>2 DEF TypeOK, Pc
  <2> QED
    BY <1>6, <2>1, <2>2 DEF Select
<1>7. Inserted(r) => pc' \in [Request -> Pc] /\ answer' \in [Request -> Answer]
  <2>1. [status |-> "created", job |-> r, instance |-> FALSE] \in Answer
    BY DEF Answer
  <2> QED
    BY <1>2, <1>3, <2>1 DEF Inserted, Pc
<1>8. CASE Insert(r)
  <2>1. CASE Statement(r, rows \cup {r}, first, Inserted(r))
    BY <1>4, <1>7, <2>1 DEF TypeOK
  <2>2. CASE Respond(r, Failure) /\ UNCHANGED <<rows, first, faults>>
    BY <1>0, <1>1, <1>3, <2>2 DEF TypeOK
  <2> QED
    BY <1>8, <2>1, <2>2 DEF Insert
<1>9. CASE InsertFirst(r)
  <2>1. [status |-> "created", job |-> r, instance |-> TRUE] \in Answer
    BY DEF Answer
  <2>2. r \in rows \cap Repeating
    BY <1>9 DEF InsertFirst, HandlersMatch
  <2> QED
    BY <1>3, <1>4, <1>9, <2>1, <2>2 DEF InsertFirst, TypeOK
<1>10. CASE Drop(r)
  <2>1. GoTo(r, "done") /\ UNCHANGED <<rows, first>> /\ faults > 0 /\ faults' = faults - 1
    BY <1>10 DEF Drop
  <2> QED
    BY <1>0, <1>2, <2>1 DEF TypeOK, Pc
<1> QED
  BY <1>5, <1>6, <1>8, <1>9, <1>10 DEF Handle

(* What a handler's step does to the rows and to its client's answer.      *)
LEMMA HandlerEffect ==
  ASSUME TypeOK, HandlersMatch, NEW r \in Request, Handle(r) \/ Drop(r)
  PROVE  Effect(r)
<1>0. faults \in 0..MaxFaults /\ MaxFaults \in Nat
  BY CreateApiAssumption DEF TypeOK
<1>1. ASSUME NEW a, Respond(r, a), pc[r] # "done"
      PROVE  answer[r] = NoAnswer /\ answer' = [answer EXCEPT ![r] = a]
  BY <1>1 DEF Respond, HandlersMatch
<1>2. ASSUME faults > 0, faults' = faults - 1
      PROVE  faults' < MaxFaults
  BY <1>0, <1>2
<1>3. CASE Receive(r) \/ Drop(r)
  BY <1>3 DEF Receive, Drop, GoTo, Effect
<1>4. ASSUME pc[r] # "done", Respond(r, Failure), rows' = rows, Reason(r)
      PROVE  Effect(r)
  BY <1>1, <1>4 DEF Effect, Told, Failure
<1>5. CASE Select(r)
  <2>0. pc[r] # "done" /\ r \notin rows
    BY <1>5 DEF Select, HandlersMatch
  <2>1. CASE faults > 0 /\ faults' = faults - 1 /\ rows' = rows /\ Respond(r, Failure)
    BY <1>2, <1>4, <2>0, <2>1 DEF Reason
  <2>2. CASE /\ rows' = rows
             /\ \E s \in RowsOf(KeyOf[r]) :
                  Respond(r, [status |-> "existing", job |-> s, instance |-> FALSE])
    BY <1>1, <2>0, <2>2 DEF Effect, Told
  <2>3. CASE rows' = rows /\ r \in Repeating \ Fires /\ Respond(r, Failure)
    BY <1>4, <2>0, <2>3 DEF Reason
  <2>4. CASE rows' = rows /\ GoTo(r, "insert")
    BY <2>4 DEF GoTo, Effect
  <2> QED
    BY <1>5, <2>1, <2>2, <2>3, <2>4 DEF Select, Statement
<1>6. CASE Insert(r)
  <2>0. pc[r] # "done" /\ r \notin rows
    BY <1>6 DEF Insert, HandlersMatch
  <2>1. CASE faults > 0 /\ faults' = faults - 1 /\ rows' = rows /\ Respond(r, Failure)
    BY <1>2, <1>4, <2>0, <2>1 DEF Reason
  <2>2. CASE /\ rows' = rows \cup {r} /\ RowsOf(KeyOf[r]) = {}
             /\ faults > 0 /\ faults' = faults - 1 /\ Respond(r, Failure)
    BY <1>1, <1>2, <2>0, <2>2 DEF Effect, Told, Failure
  <2>3. CASE rows' = rows \cup {r} /\ RowsOf(KeyOf[r]) = {} /\ Inserted(r)
    BY <1>1, <2>0, <2>3 DEF Effect, Told, Inserted, GoTo, HandlersMatch
  <2>4. CASE rows' = rows /\ RowsOf(KeyOf[r]) # {} /\ Respond(r, Failure)
    BY <1>4, <2>0, <2>4 DEF Reason
  <2> QED
    BY <1>6, <2>1, <2>2, <2>3, <2>4 DEF Insert, Statement
<1>7. CASE InsertFirst(r)
  <2>0. pc[r] # "done" /\ r \in rows /\ r \in Repeating
    BY <1>7 DEF InsertFirst, HandlersMatch
  <2>1. CASE faults > 0 /\ faults' = faults - 1 /\ rows' = rows /\ Respond(r, Failure)
    BY <1>2, <1>4, <2>0, <2>1 DEF Reason
  <2>2. CASE /\ rows' = rows /\ first' = first \cup {r}
             /\ Respond(r, [status |-> "created", job |-> r, instance |-> TRUE])
    BY <1>1, <2>0, <2>2 DEF Effect, Told
  <2> QED
    BY <1>7, <2>1, <2>2 DEF InsertFirst, Statement
<1> QED
  BY <1>3, <1>5, <1>6, <1>7 DEF Handle

(* Where the handler is afterwards.                                        *)
LEMMA HandlerMoves ==
  ASSUME TypeOK, HandlersMatch, NEW r \in Request, Handle(r) \/ Drop(r)
  PROVE  HandlersMatch'
<1>1. PICK p \in Pc : pc' = [pc EXCEPT ![r] = p]
  BY DEF Handle, Receive, Select, Insert, Inserted, InsertFirst, Drop, Statement, GoTo,
         Respond, Pc
<1>2. rows' \in {rows, rows \cup {r}}
  BY HandlerEffect DEF Effect
<1>3. \A q \in Request : q # r => answer'[q] = answer[q] /\ pc'[q] = pc[q]
  BY <1>1, HandlerEffect DEF Effect, Told, TypeOK
<1>4. pc'[r] = p
  BY <1>1 DEF TypeOK
<1>5. CASE p = "done"
  BY <1>2, <1>3, <1>4, <1>5 DEF HandlersMatch
<1>6. CASE p # "done"
  <2>1. answer' = answer
    BY <1>4, <1>6
    DEF Handle, Receive, Select, Insert, Inserted, InsertFirst, Drop, Statement, GoTo,
        Respond, TypeOK
  <2>2. pc[r] # "done"
    BY DEF Handle, Receive, Select, Insert, InsertFirst, Drop
  <2>3. \/ p \in {"select", "insert"} /\ rows' = rows /\ r \notin rows
        \/ p = "first" /\ rows' = rows \cup {r} /\ r \in Repeating
    BY <1>4, <1>6
    DEF Handle, Receive, Select, Insert, Inserted, InsertFirst, Drop, Statement, GoTo,
        Respond, TypeOK, HandlersMatch
  <2> QED
    BY <1>2, <1>3, <1>4, <2>1, <2>2, <2>3 DEF HandlersMatch
<1> QED
  BY <1>5, <1>6

-----------------------------------------------------------------------------
LEMMA CreateInit == Init => CreateInv
<1> SUFFICES ASSUME Init PROVE CreateInv
  OBVIOUS
<1>1. TypeOK
  BY CreateApiAssumption DEF Init, TypeOK, Pc, Answer, NoAnswer
<1>2. OneRow /\ HandlersMatch /\ AnswersMatch /\ ErrorsExplained
  BY DEF Init, OneRow, HandlersMatch, AnswersMatch, ErrorsExplained, Answered, NoAnswer
<1> QED
  BY <1>1, <1>2 DEF CreateInv

LEMMA CreateStep == CreateInv /\ [Next]_vars => CreateInv'
<1> SUFFICES ASSUME CreateInv, [Next]_vars PROVE CreateInv'
  OBVIOUS
<1>0. TypeOK /\ OneRow /\ HandlersMatch /\ AnswersMatch /\ ErrorsExplained
  BY DEF CreateInv
<1>1. CASE UNCHANGED vars
  BY <1>0, <1>1
  DEF vars, CreateInv, TypeOK, OneRow, HandlersMatch, AnswersMatch, ErrorsExplained,
      Answered, NothingFailed, RowsOf
<1>2. ASSUME NEW r \in Request, Handle(r) \/ Drop(r)
      PROVE  CreateInv'
  <2>1. TypeOK' /\ faults' <= faults
    BY <1>0, <1>2, HandlerTypes
  <2>2. HandlersMatch'
    BY <1>0, <1>2, HandlerMoves
  <2>3. Effect(r)
    BY <1>0, <1>2, HandlerEffect
  <2>4. OneRow'
    BY <1>0, <2>3 DEF Effect, OneRow, RowsOf
  <2>5. /\ rows \subseteq rows' /\ first \subseteq first'
        /\ \A q \in Request : q # r => answer'[q] = answer[q]
    <3>1. first \subseteq first'
      BY <1>2
      DEF Handle, Receive, Select, Insert, InsertFirst, Drop, Statement
    <3> QED
      BY <1>0, <2>3, <3>1 DEF Effect, Told, TypeOK
  <2>6. AnswersMatch'
    <3>1. ASSUME NEW q \in Request
          PROVE  /\ answer'[q].job # Null =>
                      answer'[q].job \in rows' /\ KeyOf[answer'[q].job] = KeyOf[q]
                 /\ answer'[q].status = "created" =>
                      answer'[q].job = q /\ (answer'[q].instance <=> q \in Repeating)
                 /\ answer'[q].status = "created" /\ q \in Repeating => q \in first'
                 /\ answer'[q].status # "created" => ~answer'[q].instance
      <4>1. CASE answer'[q] = answer[q]
        BY <1>0, <2>5, <4>1 DEF AnswersMatch, Answered
      <4>2. CASE answer'[q] # answer[q]
        BY <1>0, <2>3, <2>5, <4>2 DEF Effect, Told, TypeOK, RowsOf
      <4> QED
        BY <4>1, <4>2
    <3> QED
      BY <3>1 DEF AnswersMatch, Answered
  <2>7. ErrorsExplained'
    <3> SUFFICES ASSUME NEW q \in Request, Answered(q, "error")', NothingFailed'
                 PROVE  \/ q \in Repeating \ Fires
                        \/ RowsOf(KeyOf[q])' \notin {{}, {q}}
      BY DEF ErrorsExplained
    <3>0. /\ faults \in 0..MaxFaults /\ faults' \in 0..MaxFaults /\ MaxFaults \in Nat
          /\ ~(faults' < MaxFaults)
      BY <1>0, <2>1, CreateApiAssumption DEF TypeOK, NothingFailed
    <3>1. NothingFailed
      BY <2>1, <3>0 DEF NothingFailed
    <3>2. CASE answer'[q] = answer[q]
      <4>1. q \in Repeating \ Fires \/ RowsOf(KeyOf[q]) \notin {{}, {q}}
        BY <1>0, <3>1, <3>2 DEF ErrorsExplained, Answered
      <4>2. RowsOf(KeyOf[q]) \subseteq RowsOf(KeyOf[q])'
        BY <2>5 DEF RowsOf
      <4> QED
        BY <4>1, <4>2
    <3>3. CASE answer'[q] # answer[q]
      <4>1. q = r /\ rows' = rows /\ Reason(r)
        BY <1>0, <2>3, <2>5, <3>0, <3>3 DEF Effect, Told, TypeOK, Answered
      <4> QED
        BY <3>0, <4>1 DEF Reason, RowsOf
    <3> QED
      BY <3>2, <3>3
  <2> QED
    BY <2>1, <2>2, <2>4, <2>6, <2>7 DEF CreateInv
<1> QED
  BY <1>1, <1>2 DEF Next

(* All clients of a key that were not told of an error were told of its    *)
(* only row; one of them at most that it was inserted for it, and only     *)
(* that one is answered with the first instance of a template              *)
(* (jobs.rs:34-43).                                                        *)
THEOREM KeysNameOneJob == Spec => []OneJobPerKey
<1>1. CreateInv => OneJobPerKey
  <2> SUFFICES ASSUME CreateInv PROVE OneJobPerKey
    OBVIOUS
  <2>0. TypeOK /\ OneRow /\ AnswersMatch
    BY DEF CreateInv
  <2>1. ASSUME NEW r \in Request, answer[r].job # Null
        PROVE  /\ RowsOf(KeyOf[r]) = {answer[r].job}
               /\ answer[r].instance <=> Answered(r, "created") /\ r \in first
    <3>1. answer[r].job \in rows /\ KeyOf[answer[r].job] = KeyOf[r]
      BY <2>0, <2>1 DEF AnswersMatch
    <3>2. RowsOf(KeyOf[r]) = {answer[r].job}
      BY <2>0, <3>1 DEF RowsOf, OneRow
    <3>3. first \subseteq Repeating
      BY <2>0 DEF TypeOK
    <3> QED
      BY <2>0, <3>2, <3>3 DEF AnswersMatch
  <2>2. ASSUME NEW r \in Request, NEW s \in Request,
               Answered(r, "created"), Answered(s, "created"), KeyOf[r] = KeyOf[s]
        PROVE  r = s
    <3>1. answer[r].job = r /\ answer[s].job = s /\ r # Null /\ s # Null
      BY <2>0, <2>2, CreateApiAssumption DEF AnswersMatch
    <3>2. r \in rows /\ s \in rows
      BY <2>0, <3>1 DEF AnswersMatch
    <3> QED
      BY <2>0, <2>2, <3>2 DEF OneRow
  <2> QED
    BY <2>1, <2>2 DEF OneJobPerKey
<1> QED
  BY <1>1, CreateInit, CreateStep, PTL DEF Spec

(* No client is told of an error without a reason.                         *)
THEOREM ErrorsHaveReasons == Spec => []ErrorsExplained
<1>1. CreateInv => ErrorsExplained
  BY DEF CreateInv
<1> QED
  BY <1>1, CreateInit, CreateStep, PTL DEF Spec

(* Types: in particular a first instance belongs to a template in the      *)
(* table (recurring.rs:58-79).                                             *)
THEOREM CreateTypes == Spec => []TypeOK
<1>1. CreateInv => TypeOK
  BY DEF CreateInv
<1> QED
  BY <1>1, CreateInit, CreateStep, PTL DEF Spec

-----------------------------------------------------------------------------
(* A row is scheduled, or its handler is about to see to it.               *)
KeptInv ==
  /\ NothingFailed => \A s \in rows : Schedulable(s) \/ pc[s] = "first"
  /\ \A r \in Request : Answered(r, "existing") => answer[r].job # Null

LEMMA KeptStep ==
  ASSUME CreateInv, CreateInv', KeptInv, [Next]_vars
  PROVE  KeptInv'
<1>0. /\ TypeOK /\ HandlersMatch /\ rows \subseteq Request
      /\ faults \in 0..MaxFaults /\ MaxFaults \in Nat /\ Null \notin Request
  BY CreateApiAssumption DEF CreateInv, TypeOK
<1>1. CASE UNCHANGED vars
  BY <1>1 DEF vars, KeptInv, NothingFailed, Schedulable, Answered
<1>2. ASSUME NEW r \in Request, Handle(r) \/ Drop(r) PROVE KeptInv'
  <2>1. ASSUME NothingFailed', NEW s \in rows' PROVE (Schedulable(s) \/ pc[s] = "first")'
    <3>1. faults' = faults /\ NothingFailed
      <4>1. CASE Handle(r)
        <5>1. faults' = faults \/ faults' = faults - 1
          BY <4>1 DEF Handle, Receive, Select, Insert, InsertFirst, Statement
        <5> QED
          BY <1>0, <2>1, <5>1 DEF NothingFailed
      <4>2. ~Drop(r)
        BY <1>0, <2>1 DEF Drop, NothingFailed
      <4> QED
        BY <1>2, <4>1, <4>2
    <3>2. faults' # faults - 1
      BY <1>0, <3>1
    <3>3. \A q \in Request : q # r => pc'[q] = pc[q]
      BY <1>0, <1>2
      DEF Handle, Receive, Select, Insert, Inserted, InsertFirst, Drop, Statement, GoTo,
          Respond, TypeOK
    <3>4. CASE Receive(r) \/ Select(r) \/ (Insert(r) /\ RowsOf(KeyOf[r]) # {})
      <4>1. rows' = rows /\ first' = first /\ r \notin rows
        BY <1>0, <3>4
        DEF Receive, Select, Insert, Statement, RowsOf, HandlersMatch
      <4> QED
        BY <1>0, <2>1, <3>1, <3>3, <4>1 DEF KeptInv, Schedulable
    <3>5. CASE Insert(r) /\ RowsOf(KeyOf[r]) = {}
      <4>1. rows' = rows \cup {r} /\ first' = first /\ Inserted(r)
        BY <3>2, <3>5 DEF Insert, Statement
      <4>2. CASE s = r
        BY <1>0, <4>1, <4>2 DEF Inserted, GoTo, Schedulable, TypeOK
      <4>3. CASE s # r
        BY <1>0, <2>1, <3>1, <3>3, <4>1, <4>3 DEF KeptInv, Schedulable
      <4> QED
        BY <4>2, <4>3
    <3>6. CASE InsertFirst(r)
      <4>1. rows' = rows /\ first' = first \cup {r}
        BY <3>2, <3>6 DEF InsertFirst, Statement
      <4> QED
        BY <1>0, <2>1, <3>1, <3>3, <4>1 DEF KeptInv, Schedulable
    <3> QED
      BY <1>2, <3>2, <3>4, <3>5, <3>6 DEF Handle, Drop
  <2>2. ASSUME NEW q \in Request, answer'[q].status = "existing"
        PROVE  answer'[q].job # Null
    <3>1. Effect(r)
      BY <1>0, <1>2, HandlerEffect
    <3>2. CASE answer'[q] = answer[q]
      BY <2>2, <3>2 DEF KeptInv, Answered
    <3>3. CASE answer'[q] # answer[q]
      BY <1>0, <2>2, <3>1, <3>3 DEF Effect, Told, TypeOK, RowsOf
    <3> QED
      BY <3>2, <3>3
  <2> QED
    BY <2>1, <2>2 DEF KeptInv, Answered
<1> QED
  BY <1>1, <1>2 DEF Next

(* Until something fails, every job that a client was told of is scheduled *)
(* or about to be, for any number of clients and keys.                     *)
THEOREM AcceptedJobsAreKept == Spec => []AcceptedIsKept
<1>1. Init => KeptInv
  BY DEF Init, KeptInv, Answered, NoAnswer
<1>2. CreateInv /\ KeptInv => AcceptedIsKept
  <2> SUFFICES ASSUME CreateInv, KeptInv, NothingFailed, NEW r \in Request,
                      Answered(r, "created") \/ Answered(r, "existing")
               PROVE  \E s \in RowsOf(KeyOf[r]) : Schedulable(s) \/ pc[s] = "first"
    BY DEF AcceptedIsKept
  <2>1. answer[r].job # Null
    BY CreateApiAssumption DEF CreateInv, AnswersMatch, KeptInv
  <2>2. answer[r].job \in RowsOf(KeyOf[r])
    BY <2>1 DEF CreateInv, AnswersMatch, RowsOf
  <2> QED
    BY <2>2 DEF KeptInv, RowsOf
<1>3. CreateInv /\ CreateInv' /\ KeptInv /\ [Next]_vars => KeptInv'
  BY KeptStep
<1> QED
  BY <1>1, <1>2, <1>3, CreateInit, CreateStep, PTL DEF Spec

-----------------------------------------------------------------------------
(* The registry that the table stands for.                                 *)
NamesRows ==
  /\ DOMAIN RegistryOf = Key
  /\ \A s \in rows : RegistryOf[KeyOf[s]] = s
  /\ \A k \in Key : RowsOf(k) = {} => RegistryOf[k] = Null

LEMMA RegistryNamesRows == TypeOK /\ OneRow => NamesRows
<1>1. ASSUME TypeOK, OneRow, NEW s \in rows
      PROVE  RegistryOf[KeyOf[s]] = s
  <2>1. KeyOf[s] \in Key /\ s \in RowsOf(KeyOf[s])
    BY <1>1, CreateApiAssumption DEF TypeOK, RowsOf
  <2>2. (CHOOSE q \in rows : KeyOf[q] = KeyOf[s]) = s
    BY <1>1 DEF OneRow
  <2> QED
    BY <2>1, <2>2 DEF RegistryOf
<1> QED
  BY <1>1 DEF NamesRows, RegistryOf

(* A row more is one more entry.                                           *)
LEMMA RegistryGrows ==
  ASSUME TypeOK, OneRow, TypeOK', OneRow',
         NEW r \in Request, RowsOf(KeyOf[r]) = {}, rows' = rows \cup {r}
  PROVE  /\ RegistryOf[KeyOf[r]] = Null
         /\ RegistryOf' = [RegistryOf EXCEPT ![KeyOf[r]] = r]
<1>0. KeyOf[r] \in Key
  BY CreateApiAssumption
<1>1. NamesRows
  BY RegistryNamesRows
<1>2. NamesRows'
  BY RegistryNamesRows, PTL
<1>3. ASSUME NEW k \in Key, k # KeyOf[r]
      PROVE  RegistryOf'[k] = RegistryOf[k]
  <2>1. RowsOf(k)' = RowsOf(k)
    BY <1>3 DEF RowsOf
  <2>2. CASE RowsOf(k) = {}
    BY <1>1, <1>2, <2>1, <2>2 DEF NamesRows
  <2>3. CASE RowsOf(k) # {}
    <3>1. PICK s \in rows : KeyOf[s] = k
      BY <2>3 DEF RowsOf
    <3> QED
      BY <1>1, <1>2, <3>1 DEF NamesRows
  <2> QED
    BY <2>2, <2>3
<1>4. RegistryOf'[KeyOf[r]] = r
  BY <1>2 DEF NamesRows
<1>5. RegistryOf = [k \in Key |-> RegistryOf[k]] /\ RegistryOf' = [k \in Key |-> RegistryOf'[k]]
  BY DEF RegistryOf
<1>6. RegistryOf[KeyOf[r]] = Null
  BY <1>0, <1>1 DEF NamesRows
<1> QED
  BY <1>0, <1>3, <1>4, <1>5, <1>6

Replies == [r \in Request |-> [status |-> answer[r].status, job |-> answer[r].job]]

LEMMA RegistryStep ==
  ASSUME CreateInv, CreateInv', NEW r \in Request, Effect(r)
  PROVE  Registry!Next \/ UNCHANGED Registry!vars
<1>0. TypeOK /\ OneRow /\ TypeOK' /\ OneRow'
  BY DEF CreateInv
<1>1. rows' = rows => RegistryOf' = RegistryOf
  BY DEF RegistryOf, RowsOf
<1>2. answer' = answer => Replies' = Replies
  BY DEF Replies
<1>3. ASSUME NEW s, NEW j, NEW i, Told(r, s, j, i)
      PROVE  /\ Replies[r] = [status |-> "none", job |-> Null]
             /\ Replies' = [Replies EXCEPT ![r] = [status |-> s, job |-> j]]
  <2>1. answer[r].status = "none" /\ answer[r].job = Null
    BY <1>3 DEF Told, NoAnswer
  <2>2. \A q \in Request : 
             /\ answer'[q].status = IF q = r THEN s ELSE answer[q].status
             /\ answer'[q].job = IF q = r THEN j ELSE answer[q].job
    BY <1>0, <1>3 DEF Told, TypeOK
  <2> QED
    BY <2>1, <2>2 DEF Replies
<1>4. CASE rows' = rows /\ answer' = answer
  BY <1>1, <1>2, <1>4 DEF Registry!vars, Replies
<1>5. ASSUME rows' = rows, NEW s, NEW j, NEW i, Told(r, s, j, i),
             \/ s = "created" /\ j = r /\ RegistryOf[KeyOf[r]] = r
             \/ s = "existing" /\ j = RegistryOf[KeyOf[r]] /\ j \notin {r, Null}
             \/ s = "error" /\ j = Null
      PROVE  Registry!Next
  <2>1. /\ Replies[r] = [status |-> "none", job |-> Null]
        /\ Replies' = [Replies EXCEPT ![r] = [status |-> s, job |-> j]]
    BY <1>3, <1>5
  <2>2. RegistryOf' = RegistryOf
    BY <1>1, <1>5
  <2>3. Registry!Inform(r)
    BY <1>5, <2>1, <2>2
    DEF Registry!Inform, Registry!Unanswered, Registry!Tell, Registry!Reply, Replies
  <2> QED
    BY <2>3 DEF Registry!Next
<1>6. CASE rows' = rows /\ Told(r, "error", Null, FALSE)
  BY <1>5, <1>6
<1>7. CASE rows' = rows /\ r \notin rows /\ \E s \in RowsOf(KeyOf[r]) : Told(r, "existing", s, FALSE)
  <2>1. PICK s \in RowsOf(KeyOf[r]) : Told(r, "existing", s, FALSE)
    BY <1>7
  <2>2. s \in rows /\ KeyOf[s] = KeyOf[r] /\ s # r /\ s # Null
    BY <1>0, <1>7, CreateApiAssumption DEF RowsOf, TypeOK
  <2>3. RegistryOf[KeyOf[r]] = s
    BY <1>0, <2>2, RegistryNamesRows DEF NamesRows
  <2> QED
    BY <1>5, <1>7, <2>1, <2>2, <2>3
<1>8. CASE rows' = rows /\ r \in rows /\ Told(r, "created", r, TRUE)
  <2>1. RegistryOf[KeyOf[r]] = r
    BY <1>0, <1>8, RegistryNamesRows DEF NamesRows
  <2> QED
    BY <1>5, <1>8, <2>1
<1>9. CASE /\ rows' = rows \cup {r} /\ RowsOf(KeyOf[r]) = {}
            /\ \/ answer[r] = NoAnswer /\ answer' = answer
               \/ Told(r, "created", r, FALSE)
               \/ Told(r, "error", Null, FALSE)
  <2>1. RegistryOf[KeyOf[r]] = Null /\ RegistryOf' = [RegistryOf EXCEPT ![KeyOf[r]] = r]
    BY <1>0, <1>9, RegistryGrows
  <2>2. Replies[r] = [status |-> "none", job |-> Null]
    <3>1. CASE answer[r] = NoAnswer
      BY <3>1 DEF Replies, NoAnswer
    <3>2. CASE Told(r, "created", r, FALSE) \/ Told(r, "error", Null, FALSE)
      BY <1>3, <3>2
    <3> QED
      BY <1>9, <3>1, <3>2
  <2>3. \/ Replies' = Replies
        \/ Replies' = [Replies EXCEPT ![r] = [status |-> "created", job |-> r]]
        \/ Replies' = [Replies EXCEPT ![r] = [status |-> "error", job |-> Null]]
    BY <1>2, <1>3, <1>9
  <2>4. Registry!Create(r)
    BY <2>1, <2>2, <2>3
    DEF Registry!Create, Registry!Unanswered, Registry!Tell, Registry!Reply, Replies
  <2> QED
    BY <2>4 DEF Registry!Next
<1> QED
  BY <1>4, <1>6, <1>7, <1>8, <1>9 DEF Effect

(* The handlers, the UNIQUE constraint and the answers implement the       *)
(* registry of keys: 201 goes to the request whose row it is, 200 with     *)
(* that row to the others.                                                 *)
THEOREM HandlersImplementRegistry == Spec => ImplementsRegistry
<1>1. Init => Registry!Init
  BY DEF Init, Registry!Init, Registry!Reply, RegistryOf, RowsOf, NoAnswer
<1>2. CreateInv /\ CreateInv' /\ [Next]_vars => [Registry!Next]_Registry!vars
  <2> SUFFICES ASSUME CreateInv, CreateInv', [Next]_vars
               PROVE  [Registry!Next]_Registry!vars
    OBVIOUS
  <2>1. CASE UNCHANGED vars
    BY <2>1 DEF vars, Registry!vars, RegistryOf, RowsOf
  <2>2. ASSUME NEW r \in Request, Handle(r) \/ Drop(r)
        PROVE  [Registry!Next]_Registry!vars
    BY <2>2, HandlerEffect, RegistryStep DEF CreateInv
  <2> QED
    BY <2>1, <2>2 DEF Next
<1> QED
  BY <1>1, <1>2, CreateInit, CreateStep, PTL DEF Spec, ImplementsRegistry, Registry!Spec

=============================================================================
