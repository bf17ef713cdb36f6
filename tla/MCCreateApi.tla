---------------------------- MODULE MCCreateApi ----------------------------
(***************************************************************************)
(* A small instance of CreateApi for TLC.                                  *)
(***************************************************************************)
EXTENDS CreateApi, TLC

CONSTANTS a, b, c, d, x, y

(* a, b and c compete for a key, c without a recurrence; d has its own.    *)
KeyOfMC == a :> x @@ b :> x @@ c :> x @@ d :> y

=============================================================================
