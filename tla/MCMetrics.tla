----------------------------- MODULE MCMetrics ------------------------------
(***************************************************************************)
(* Model checking of Metrics on S3Stats: a bucket with one repository in a *)
(* directory, and an object beside it.                                     *)
(***************************************************************************)
EXTENDS Metrics, FiniteSetsExt

MCNumKeys == 3
MCDirOf == <<"app", "app", "bucket">>
MCKindOf == <<"config", "keys", "config">>
MCSizeOf == <<1, 2, 1>>

(* Total is a sum. *)
ASSUME TotalIsSum ==
    \A s \in SUBSET Keys : Total(SizeOf, s) = MapThenSumSet(LAMBDA k : SizeOf[k], s)
=============================================================================
