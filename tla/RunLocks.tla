------------------------------ MODULE RunLocks ------------------------------
(***************************************************************************)
(* The restic commands of the service, one after the other, among the      *)
(* other users of the repository: Preflight of internal/restic/main.go at  *)
(* start-up, then the runs of cmd/mcs-backup/backup.go.  Every command is  *)
(* one of AutoUnlock, but `restic backup` is not run by genericCommand: it *)
(* never removes the lock that keeps it out.                               *)
(*                                                                         *)
(* Abstracted: the phases that do not use the repository, and what the     *)
(* commands do; `restic version` and `restic init` take no lock.           *)
(***************************************************************************)
EXTENDS AutoUnlock

CONSTANTS
    Service,     \* the goroutine that runs, one of Callers
    BackupProc,  \* the `restic backup` it starts, one of Others
    MaxKills     \* bound on how often the service or its restic is killed

ASSUME ServiceAssumption == Service \in Callers /\ BackupProc \in Others
ASSUME KillsAssumption == MaxKills \in Nat

VARIABLES
    at,      \* the command the service is about to run or is running
    kills    \* how often it or its restic has been killed

runVars == <<pc, excl, inRetry, locks, swept, at, kills>>

RunInit == Init /\ at = "preflight" /\ kills = 0

Phases == {"preflight", "idle", "backup", "discard", "forget", "prune", "getstats"}

(* restic takes a lock that excludes all others for what deletes data. *)
Exclusive == at \in {"discard", "forget", "prune"}

(* The process of the current command, waiting or running. *)
Current == IF at = "backup" THEN BackupProc ELSE Service

(* What follows when the current command was successful: Restic.Forget of  *)
(* one snapshot ends a failed run, prune comes only when it is due.        *)
AfterSuccess ==
    CASE at = "backup" -> {"forget"}
      [] at = "forget" -> {"prune", "getstats"}
      [] at = "prune" -> {"getstats"}
      [] OTHER -> {"idle"}

(* The run is over; a failed Preflight ends the process, which is started  *)
(* again; a failed backup may have saved a snapshot and removes it.        *)
AfterFailure ==
    CASE at = "preflight" -> {"preflight"}
      [] at = "backup" -> {"idle", "discard"}
      [] OTHER -> {"idle"}

-----------------------------------------------------------------------------
(* The service *)

BeginBackup ==
    /\ at = "idle"
    /\ Start(BackupProc) /\ ~excl'[BackupProc]
    /\ at' = "backup"
    /\ UNCHANGED kills

BeginCommand ==
    /\ at \notin {"idle", "backup"}
    /\ Start(Service) /\ excl'[Service] = Exclusive
    /\ UNCHANGED <<at, kills>>

(* Restic.Backup returns restic's error as it is. *)
BackupRefused ==
    /\ at = "backup"
    /\ Refuse(BackupProc)
    /\ at' = "idle"
    /\ UNCHANGED kills

(* genericCommand returns an error. *)
CommandRefused ==
    /\ ReturnError(Service) \/ NotUnderstood(Service) \/ UnlockFails(Service)
    /\ at' \in AfterFailure
    /\ UNCHANGED kills

(* restic has got the lock, or genericCommand tries to make way for it. *)
Advance == (Acquire(Current) \/ Judge(Service)) /\ UNCHANGED <<at, kills>>
Unlock == UnlockAll(Service) /\ UNCHANGED <<at, kills>>

Finish(next) == at # "idle" /\ End(Current) /\ at' \in next /\ UNCHANGED kills
Succeed == Finish(AfterSuccess)
Fail == Finish(AfterFailure)

(* restic alone is killed, or the container with all its processes. *)
Killed ==
    /\ kills < MaxKills /\ kills' = kills + 1
    /\ at # "idle" /\ Die(Current) /\ at' \in AfterFailure
Restart ==
    /\ kills < MaxKills /\ kills' = kills + 1
    /\ IF pc[Current] = "idle" THEN UNCHANGED vars ELSE Die(Current)
    /\ at' = "preflight"

ServiceStep ==
    \/ BeginBackup \/ BeginCommand \/ Advance \/ Unlock
    \/ BackupRefused \/ CommandRefused \/ Succeed \/ Fail

(* Everybody else, and the clock *)
OthersStep ==
    /\ \/ \E c \in Callers \ {Service} : CommandStep(c)
       \/ \E p \in Others \ {BackupProc} : Acquire(p) \/ Refuse(p) \/ End(p)
       \/ \E p \in Procs \ {Service, BackupProc} : Start(p) \/ Die(p)
       \/ \E p \in Procs : Refresh(p)
    /\ UNCHANGED <<at, kills>>

Time == Tick /\ UNCHANGED <<at, kills>>

RunNext == ServiceStep \/ Killed \/ Restart \/ OthersStep \/ Time

RunSpec == RunInit /\ [][RunNext]_runVars

(* The service goes on and is scheduled again and again, time passes, and  *)
(* neither a command nor an unlock that is tried for ever fails for ever   *)
(* for reasons that have nothing to do with locks; nor is restic's message *)
(* never once understood.                                                  *)
RunFairSpec ==
    /\ RunSpec
    /\ WF_runVars(ServiceStep) /\ WF_runVars(Time)
    /\ SF_runVars(Succeed) /\ SF_runVars(Unlock)
    /\ SF_runVars(Judge(Service) /\ UNCHANGED <<at, kills>>)
    /\ \A c \in Callers \ {Service} : WF_runVars(CommandStep(c) /\ UNCHANGED <<at, kills>>)

-----------------------------------------------------------------------------
(* Properties *)

RunTypeOK == TypeOK /\ at \in Phases /\ kills \in 0 .. MaxKills

(* Somebody else keeps using the repository. *)
Disturbed == []<>(\E p \in Procs \ {Service, BackupProc} : pc[p] # "idle")

Stale(e) == \E l \in locks : l.owner = Dead /\ l.excl = e

(* Left alone, a service with AUTO_UNLOCK_AFTER comes up whatever locks it *)
(* finds, for Preflight removes them, and later gets rid of what killed    *)
(* processes have left, by its own runs, unless a stale exclusive lock     *)
(* keeps them all out: the phases after restic backup are the only ones    *)
(* that unlock, and restic backup runs beside a shared lock.               *)
SharedLocksGo ==
    AutoUnlockAfter # 0 =>
        \/ Disturbed
        \/ <>[](at # "preflight" /\ ~Stale(TRUE) /\ ~Stale(FALSE))
        \/ <>[](Stale(TRUE) /\ at \in {"idle", "backup"})

(* "stale locks can be automatically removed" (README.md).  A stale lock   *)
(* of a killed forget or prune is not: every run fails in restic backup    *)
(* before it comes to a command that would remove it.                      *)
StaleLocksGo ==
    AutoUnlockAfter # 0 => Disturbed \/ <>[](~Stale(TRUE) /\ ~Stale(FALSE))
=============================================================================
