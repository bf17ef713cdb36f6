----------------------------- MODULE MCBackoff ------------------------------
(***************************************************************************)
(* A small instance of Backoff for TLC: integers of Bits + 1 bits.         *)
(***************************************************************************)
EXTENDS Backoff

CONSTANT Bits

RetryDelaySecsMC == -3..12 \cup {60}
I64MaxMC == 2^Bits - 1
Pow2MC == [e \in 0..MaxRetriesBound |-> 2^e]

=============================================================================
