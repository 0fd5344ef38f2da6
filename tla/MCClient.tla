------------------------------ MODULE MCClient ------------------------------
(***************************************************************************)
(* Model checking of Client on ApiOutput: clients whose requests overlap   *)
(* with each other and with cron runs.                                     *)
(***************************************************************************)
EXTENDS Client, TLC

(* No request is told from another. *)
Symmetry == Permutations(Requests)
=============================================================================
