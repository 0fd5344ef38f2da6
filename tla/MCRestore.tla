----------------------------- MODULE MCRestore ------------------------------
(***************************************************************************)
(* Model checking of Restore and of the hooks it runs.                     *)
(***************************************************************************)
EXTENDS Restore
=============================================================================
