---------------------------- MODULE MCAutoUnlock ----------------------------
(***************************************************************************)
(* Model checking of RunLocks: the commands of the service and of somebody *)
(* else, who may all be killed.                                            *)
(***************************************************************************)
EXTENDS RunLocks
=============================================================================
