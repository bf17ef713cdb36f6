----------------------------- MODULE MCShutdown -----------------------------
(***************************************************************************)
(* Small instances of Shutdown, the whole daemon, for TLC.                 *)
(***************************************************************************)
EXTENDS Shutdown, TLC

CONSTANT a  \* a job

(* a is due at once and may be retried once.                               *)
DueAtMC == a :> 0
ExpiresAtMC == a :> 1
MaxRetriesMC == a :> 1
RetryDelayMC == [j \in Job |-> [n \in 1..1 |-> 0]]

=============================================================================
