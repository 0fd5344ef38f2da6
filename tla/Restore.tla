------------------------------ MODULE Restore -------------------------------
(***************************************************************************)
(* `mcs-backup restore` of cmd/mcs-backup/cmd_restore.go, a process of its *)
(* own beside the service: the PreRestore hook, Restic.Restore of          *)
(* internal/restic/restore.go, the PostRestore hook, each a HookRun.       *)
(*                                                                         *)
(* With a pipe-out script Restore runs `restic dump | script` by the       *)
(* library go-command-chain, which is external: it fails when one of its   *)
(* processes fails, and ends when all have ended.  restic is external too. *)
(*                                                                         *)
(* Abstracted: target directory and paths, content of the snapshots.       *)
(***************************************************************************)
EXTENDS HookRun

CONSTANTS
    MaxId,      \* bound on the snapshots the service adds; ids grow
    Chunks      \* the parts in which a snapshot is dumped

ASSUME SizeAssumption == MaxId \in Nat \ {0} /\ Chunks \in Nat \ {0}

VARIABLES
    stage,    \* where restoreFunc stands
    args,     \* the arguments: <<>>, <<id>> or <<id, "extra">>
    repo,     \* the snapshots in the repository
    source,   \* the snapshot restic has opened, 0 for none
    restic,   \* the process of restic
    sink,     \* the process of the pipe-out script
    dumped    \* chunks restic has written

resticVars == <<source, restic, sink, dumped>>
restoreVars == <<hookVars, stage, args, repo, resticVars>>

Ids == 1 .. MaxId
Processes == {"none", "running", "ok", "failed"}

RestoreInit ==
    /\ HookInit
    /\ stage = "init"
    /\ args \in {<<>>} \cup {<<i>> : i \in Ids} \cup {<<i, "extra">> : i \in Ids}
    /\ repo \in SUBSET Ids
    /\ source = 0 /\ restic = "none" /\ sink = "none"
    /\ dumped = 0

-----------------------------------------------------------------------------
(* restoreFunc *)

(* Environment, Preflight and the S3 credentials. *)
Initialize ==
    /\ stage = "init"
    /\ stage' \in {"prehook", "exit1"}
    /\ UNCHANGED <<hookVars, args, repo, resticVars>>

(* Hooks run without arguments. *)
RunHook ==
    /\ stage \in {"prehook", "posthook"}
    /\ SkipHook \/ StartHook
    /\ UNCHANGED <<stage, args, repo, resticVars>>

(* log.Fatalf *)
HookFailed ==
    /\ stage \in {"prehook", "posthook"} /\ hook = "failed"
    /\ stage' = "exit1"
    /\ UNCHANGED <<hookVars, args, repo, resticVars>>

HookDone ==
    /\ stage \in {"prehook", "posthook"} /\ hook = "ok"
    /\ stage' = IF stage = "prehook" THEN "restic" ELSE "exit0"
    /\ hook' = IF stage = "prehook" THEN "idle" ELSE hook
    /\ UNCHANGED <<script, todo, background, pipe, unread, tooLong, args, repo, resticVars>>

(* "latest" unless there is exactly one argument. *)
Chosen ==
    {i \in repo : IF Len(args) = 1 THEN i = args[1] ELSE \A j \in repo : j <= i}

(* With the pipe-out script or without. *)
StartRestic ==
    /\ stage = "restic" /\ restic = "none"
    /\ source' \in IF Chosen = {} THEN {0} ELSE Chosen
    /\ restic' = "running"
    /\ sink' \in {"none", "running"}
    /\ UNCHANGED <<hookVars, stage, args, repo, dumped>>

(* Mutation: only the end of the pipe is looked at, as a shell does. *)
ChainEndsMut ==
    /\ stage = "restic"
    /\ restic \in {"ok", "failed"} /\ sink # "running"
    /\ stage' = IF (IF sink = "none" THEN restic ELSE sink) = "ok" THEN "posthook" ELSE "exit1"
    /\ UNCHANGED <<hookVars, args, repo, resticVars>>

ChainEnds ==
    /\ stage = "restic"
    /\ restic \in {"ok", "failed"} /\ sink # "running"
    /\ stage' = IF restic = "ok" /\ sink # "failed" THEN "posthook" ELSE "exit1"
    /\ UNCHANGED <<hookVars, args, repo, resticVars>>

-----------------------------------------------------------------------------
(* External: restic, the pipe-out script, and the service meanwhile *)

(* A snapshot that is not there, or whose data has gone, ends restic, and  *)
(* so does the pipe when nobody reads it any more.                         *)
Dump ==
    /\ restic = "running" /\ source # 0 /\ dumped < Chunks
    /\ sink \in {"none", "running"}
    /\ dumped' = dumped + 1
    /\ UNCHANGED <<source, restic, sink>>
DumpEnds ==
    /\ restic = "running"
    /\ restic' \in {"ok", "failed"}
    /\ restic' = "ok" => source # 0 /\ dumped = Chunks
    /\ UNCHANGED <<source, sink, dumped>>

(* The script takes the end of a dump that was cut off for the end of the  *)
(* data, and may end before.                                               *)
SinkEnds ==
    /\ sink = "running"
    /\ sink' \in {"ok", "failed"}
    /\ UNCHANGED <<source, restic, dumped>>

External ==
    /\ Dump \/ DumpEnds \/ SinkEnds
    /\ UNCHANGED <<hookVars, stage, args, repo>>

(* A backup or a retention run of the service. *)
RepositoryChanges ==
    /\ \/ \E i \in Ids : (\A j \in repo : j < i) /\ repo' = repo \cup {i}
       \/ \E i \in repo : repo' = repo \ {i}
    /\ UNCHANGED <<hookVars, stage, args, resticVars>>

RunningHook == HookNext /\ UNCHANGED <<stage, args, repo, resticVars>>

RestoreNext ==
    \/ Initialize \/ RunHook \/ HookFailed \/ HookDone \/ StartRestic \/ ChainEnds
    \/ RunningHook \/ External \/ RepositoryChanges

RestoreSpec == RestoreInit /\ [][RestoreNext]_restoreVars

(* The caller of a hook goes on, and the script does while it can write. *)
RestoreFairSpec ==
    /\ RestoreSpec
    /\ WF_restoreVars(HookStep /\ UNCHANGED <<stage, args, repo, resticVars>>)
    /\ WF_restoreVars(ScriptStep /\ UNCHANGED <<stage, args, repo, resticVars>>)

-----------------------------------------------------------------------------
(* Properties *)

RestoreTypeOK ==
    /\ HookTypeOK
    /\ stage \in {"init", "prehook", "restic", "posthook", "exit0", "exit1"}
    /\ repo \subseteq Ids /\ source \in {0} \cup Ids
    /\ restic \in Processes /\ sink \in Processes
    /\ dumped \in 0 .. Chunks

(* The PostRestore hook, which may import what was restored, runs only     *)
(* after restic has written the whole of one snapshot and the pipe-out     *)
(* script was content: never on a dump that was cut off, although the      *)
(* script cannot tell ("Fix uncaught error when pipe cmd fails in          *)
(* restore", README.md:65).                                                *)
PostRestoreOnlyComplete ==
    stage \in {"posthook", "exit0"} =>
        source # 0 /\ dumped = Chunks /\ sink \in {"none", "ok"}

(* "restore the given snapshot <id>, or <latest> when no <id> is given"    *)
(* (cmd_restore.go:27).  With extra arguments for the PostRestore hook the *)
(* id is not used, and the latest snapshot is restored.                    *)
IdIsHonoured == args # <<>> => source \in {0, args[1]}
=============================================================================
