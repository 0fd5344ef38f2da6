---------------------------- MODULE MCBackupRun ----------------------------
(***************************************************************************)
(* Model checking of BackupRun: the event loop and a few API requests.     *)
(***************************************************************************)
EXTENDS BackupRun, TLC

(* No property tells the handlers apart; used where liveness is not checked. *)
HandlerSymmetry == Permutations(Handlers)
=============================================================================
