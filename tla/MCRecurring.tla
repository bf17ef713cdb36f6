---------------------------- MODULE MCRecurring -----------------------------
(***************************************************************************)
(* Small instances of Recurring for TLC.                                   *)
(***************************************************************************)
EXTENDS Recurring, TLC

CONSTANTS each, even  \* cron expressions

(* The last instant of a model has no successor in it.                     *)
Last == CHOOSE t \in Time : \A u \in Time : u <= t

NextEach == [t \in Time |-> IF t = Last THEN Null ELSE t + 1]
NextEven ==
  [t \in Time |-> LET n == t + 2 - (t % 2) IN IF n > Last THEN Null ELSE n]

NextFireMC ==
  [c \in CronExpr |-> IF c = each THEN NextEach ELSE NextEven]

WorkerSymmetry == Permutations(Worker)

=============================================================================
