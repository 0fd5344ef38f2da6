--------------------------- MODULE MCResticBackup ---------------------------
(***************************************************************************)
(* Model checking of ResticBackup: two calls, one after the other.         *)
(***************************************************************************)
EXTENDS ResticBackup
=============================================================================
