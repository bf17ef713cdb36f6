---------------------------- MODULE MCKronkeeper ----------------------------
(***************************************************************************)
(* Small instances of Kronkeeper for TLC: the values of its constants.     *)
(***************************************************************************)
EXTENDS Kronkeeper, TLC

CONSTANTS a, b  \* two jobs

(* Each may be retried once.  a is due first and never expires; b is due   *)
(* later and expires at 2, before or after it is retried.                  *)
DueAtMC == (a :> 0) @@ (b :> 1)
ExpiresAtMC == (a :> Null) @@ (b :> 2)
MaxRetriesMC == [j \in Job |-> 1]
RetryDelayMC == [j \in Job |-> [n \in 1..2 |-> 1]]

(* Workers are interchangeable.                                            *)
WorkerSymmetry == Permutations(Worker)

=============================================================================
