--------------------------- MODULE MCMaintenance ---------------------------
(***************************************************************************)
(* Model checking of Maintenance: three windows of three lengths, on a     *)
(* clock whose seconds have two ticks.                                     *)
(***************************************************************************)
EXTENDS Maintenance
=============================================================================
