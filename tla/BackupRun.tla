------------------------------ MODULE BackupRun ------------------------------
(***************************************************************************)
(* One backup run from its trigger to its verdict: fullBackupRun and       *)
(* runPhase of cmd/mcs-backup, called by the cron goroutine and by the     *)
(* goroutine of every POST to /api/mcs-backup, together with the API's     *)
(* enable and disable endpoints, the housekeeping clock, the start-up of   *)
(* the service and the death of the process.                               *)
(*                                                                         *)
(* Abstracted: a restic command is one step with the outcomes its caller   *)
(* distinguishes (ResticBackup has restic backup in detail); the hook      *)
(* scripts only succeed or fail; log lines and durations are left out.  A  *)
(* snapshot is the one of a backup that has succeeded or any other one.    *)
(***************************************************************************)
EXTENDS Integers, Sequences, SequencesExt

CONSTANTS
    Cron,                \* the goroutine of the event loop
    Handlers,            \* the goroutines of concurrent API requests
    KeepLast,            \* {last: n} of RETENTION_POLICY
    PruneIntervalParses, \* BACKUP_PRUNE_INTERVAL is set and parses
    PruneInterval,       \* its value, in hours
    OperatorForgets,     \* TRUE: the operator removes snapshots by hand
    MaxSnapshots,        \* bound on the snapshots in the repository
    MaxOrphans           \* bound on the restic processes nobody waits for

ASSUME CallersAssumption == Cron \notin Handlers
ASSUME KeepLastAssumption == KeepLast \in Nat \ {0}
ASSUME PruneAssumption == PruneIntervalParses \in BOOLEAN /\ PruneInterval \in Int
ASSUME OperatorAssumption == OperatorForgets \in BOOLEAN
ASSUME BoundAssumption == MaxSnapshots \in Nat /\ MaxOrphans \in Nat

VARIABLES
    booted,          \* the API is being served
    enabled,         \* backupEnabled
    lock,            \* number of tokens in backupLockingChan
    housekeepingDue, \* time.Now().After(nextHousekeepingRun)
    step,            \* step[c]: where the goroutine c stands
    phase,           \* phase[c]: the local variable phase
    err,             \* err[c]: the local variable err is not nil
    snapshots,       \* the snapshots in the repository, oldest first
    orphans,         \* restic processes left alone by a call of Backup
    phaseRunning,    \* the gauge phase_running
    inProgress,      \* phases whose gauge inprogress_id is 1
    success,         \* phases (and "overall") whose gauge success is not 0
    (* what the properties remember *)
    meddled,         \* who else has written to the repository since the
                     \* last run has taken the lock: "orphan", "operator"
    aborted          \* phases in which a panic has ended a handler, and
                     \* that have not begun again

callerVars == <<step, phase, err>>
repoVars   == <<snapshots, orphans, meddled>>
gaugeVars  == <<phaseRunning, inProgress, success, aborted>>
vars == <<booted, enabled, lock, housekeepingDue, callerVars, repoVars, gaugeVars>>

Callers == Handlers \cup {Cron}

HookPhases == {"prepare", "wrapup"}
CommandPhases == {"backup", "forget", "prune", "getstats", "s3stats"}
Phases == HookPhases \cup CommandPhases

phaseToCode == [prepare |-> 1, backup |-> 2, forget |-> 3, prune |-> 4,
                getstats |-> 5, s3stats |-> 6, wrapup |-> 7, overall |-> 8]

(* "begin" announces a phase, "run" executes its function; inside the      *)
(* phase backup, "saved" follows once restic has written its snapshot.     *)
Steps == {"idle", "check", "lock", "begin", "run", "saved", "report", "unlock"}
Holding == Steps \ {"idle", "check", "lock"}

DefaultInterval == 120
HousekeepingInterval ==
    IF PruneIntervalParses /\ PruneInterval > 0 THEN PruneInterval
                                                ELSE DefaultInterval

(* The snapshot that the run at work has saved is "new" until its backup   *)
(* has ended: it is "good" if the backup has succeeded.  A "bad" one is    *)
(* the leftover of a failed, abandoned or interrupted backup.              *)
Kinds == {"new", "good", "bad"}
Settle(s, k) == [i \in 1..Len(s) |-> IF s[i] = "new" THEN k ELSE s[i]]

(* restic forget --keep-last n: the newest n elements of s. *)
Newest(s, n) == IF Len(s) <= n THEN s ELSE SubSeq(s, Len(s) - n + 1, Len(s))

-----------------------------------------------------------------------------
(* Start-up and death of the process *)

(* The variables of a process that has just started: the event loop runs   *)
(* before nextHousekeepingRun is set, so the zero time is in force.        *)
Fresh ==
    [booted |-> FALSE, enabled |-> TRUE, lock |-> 0, due |-> TRUE,
     step |-> [c \in Callers |-> "idle"], phase |-> [c \in Callers |-> "none"],
     err |-> [c \in Callers |-> FALSE], running |-> 0, marks |-> {}]

Init ==
    /\ booted = Fresh.booted
    /\ enabled = Fresh.enabled
    /\ lock = Fresh.lock
    /\ housekeepingDue = Fresh.due
    /\ step = Fresh.step
    /\ phase = Fresh.phase
    /\ err = Fresh.err
    /\ phaseRunning = Fresh.running
    /\ inProgress = Fresh.marks
    /\ success = Fresh.marks
    /\ snapshots = <<>>
    /\ orphans = 0
    /\ meddled = {} /\ aborted = {}

(* The container is restarted: everything but the repository is lost.      *)
Restart ==
    /\ booted' = Fresh.booted
    /\ enabled' = Fresh.enabled
    /\ lock' = Fresh.lock
    /\ housekeepingDue' = Fresh.due
    /\ step' = Fresh.step
    /\ phase' = Fresh.phase
    /\ err' = Fresh.err
    /\ phaseRunning' = Fresh.running
    /\ inProgress' = Fresh.marks
    /\ success' = Fresh.marks
    /\ snapshots' = Settle(snapshots, "bad")
    /\ orphans' = 0
    /\ meddled' = {} /\ aborted' = {}

(* initializeService schedules the first housekeeping, serveFunc enables   *)
(* backups and starts to listen.                                           *)
FinishStart ==
    /\ ~booted
    /\ booted' = TRUE
    /\ enabled' = TRUE
    /\ housekeepingDue' = FALSE
    /\ UNCHANGED <<lock, callerVars, repoVars, gaugeVars>>

HousekeepingBecomesDue ==
    /\ ~housekeepingDue
    /\ housekeepingDue' = TRUE
    /\ UNCHANGED <<booted, enabled, lock, callerVars, repoVars, gaugeVars>>

(* POST /api/mcs-backup/enable and /disable. *)
SetEnabled(b) ==
    /\ booted
    /\ enabled' = b
    /\ UNCHANGED <<booted, lock, housekeepingDue, callerVars, repoVars, gaugeVars>>

(* `mcs-backup restic forget <id>` on the command line. *)
OperatorForget ==
    /\ OperatorForgets
    /\ \E i \in 1..Len(snapshots) : snapshots' = RemoveAt(snapshots, i)
    /\ meddled' = meddled \cup {"operator"}
    /\ UNCHANGED <<booted, enabled, lock, housekeepingDue, orphans, callerVars, gaugeVars>>

(* A restic that nobody waits for ends, mostly with a snapshot.  restic    *)
(* sorts snapshots by the time they were begun, so that this one need not  *)
(* be the newest.                                                          *)
OrphanEnds ==
    /\ orphans > 0
    /\ orphans' = orphans - 1
    /\ \/ UNCHANGED <<snapshots, meddled>>
       \/ /\ Len(snapshots) < MaxSnapshots
          /\ \E i \in 1..(Len(snapshots) + 1) : snapshots' = InsertAt(snapshots, i, "bad")
          /\ meddled' = meddled \cup {"orphan"}
    /\ UNCHANGED <<booted, enabled, lock, housekeepingDue, callerVars, gaugeVars>>

-----------------------------------------------------------------------------
(* Entering fullBackupRun *)

StepTo(c, s) == step' = [step EXCEPT ![c] = s]

(* The cron goroutine's timer has fired, or a handler received a POST. *)
Trigger(c) ==
    /\ step[c] = "idle"
    /\ c = Cron \/ booted
    /\ StepTo(c, "check")
    /\ UNCHANGED <<booted, enabled, lock, housekeepingDue, phase, err, repoVars, gaugeVars>>

(* if !backupEnabled { return nil } *)
CheckEnabled(c) ==
    /\ step[c] = "check"
    /\ StepTo(c, IF enabled THEN "lock" ELSE "idle")
    /\ UNCHANGED <<booted, enabled, lock, housekeepingDue, phase, err, repoVars, gaugeVars>>

(* The lock is taken: the run begins, alone with the repository. *)
Enter(c) ==
    /\ StepTo(c, "begin")
    /\ phase' = [phase EXCEPT ![c] = "prepare"]
    /\ meddled' = {}

(* Mutation: the lock is taken without looking. *)
TryLockBlindMut(c) ==
    /\ step[c] = "lock"
    /\ lock' = lock + 1
    /\ Enter(c)
    /\ UNCHANGED <<booted, enabled, housekeepingDue, err, snapshots, orphans, gaugeVars>>

(* Mutation: a blocking send. *)
TryLockWaitMut(c) ==
    /\ step[c] = "lock"
    /\ lock = 0
    /\ lock' = 1
    /\ Enter(c)
    /\ UNCHANGED <<booted, enabled, housekeepingDue, err, snapshots, orphans, gaugeVars>>

(* The non-blocking send on backupLockingChan. *)
TryLock(c) ==
    /\ step[c] = "lock"
    /\ \/ lock = 0 /\ lock' = 1 /\ Enter(c)
       \/ lock # 0 /\ StepTo(c, "idle") /\ UNCHANGED <<lock, phase, meddled>>
    /\ UNCHANGED <<booted, enabled, housekeepingDue, err, snapshots, orphans, gaugeVars>>

-----------------------------------------------------------------------------
(* runPhase *)

(* Both gauges of the phase are set before its function is called. *)
BeginPhase(c) ==
    /\ step[c] = "begin"
    /\ StepTo(c, "run")
    /\ inProgress' = inProgress \cup {phase[c]}
    /\ success' = success \ {phase[c]}
    /\ phaseRunning' = phaseToCode[phase[c]]
    /\ aborted' = aborted \ {phase[c]}
    /\ UNCHANGED <<booted, enabled, lock, housekeepingDue, phase, err, repoVars>>

(* The function returned nil. *)
MarkDone(c) ==
    /\ inProgress' = inProgress \ {phase[c]}
    /\ success' = success \cup {phase[c]}
    /\ UNCHANGED <<phaseRunning, aborted>>

(* Mutation: the gauge inprogress_id of a failed phase is not reset. *)
MarkFailedMut(c) ==
    /\ success' = success \ {phase[c]}
    /\ UNCHANGED <<phaseRunning, inProgress, aborted>>

(* The function returned an error. *)
MarkFailed(c) ==
    /\ inProgress' = inProgress \ {phase[c]}
    /\ success' = success \ {phase[c]}
    /\ UNCHANGED <<phaseRunning, aborted>>

(* The loop goes on with phase p. *)
GoOn(c, p) ==
    /\ phase' = [phase EXCEPT ![c] = p]
    /\ StepTo(c, "begin")
    /\ UNCHANGED err

(* break out of the loop *)
BreakOff(c, e) ==
    /\ StepTo(c, "report")
    /\ err' = [err EXCEPT ![c] = e]
    /\ UNCHANGED phase

Running(c, p) == step[c] = "run" /\ phase[c] = p

(* A panic ends a handler after its deferred calls, and the whole process  *)
(* when it happens in the goroutine of the event loop.  The caller leaves  *)
(* the gauges with inProgress and the repository with snapshots, orphans.  *)
Panic(c) ==
    IF c = Cron THEN Restart
    ELSE /\ StepTo(c, "unlock")
         /\ aborted' = aborted \cup {phase[c]}
         /\ UNCHANGED <<booted, enabled, lock, housekeepingDue, phase, err, meddled, phaseRunning>>

-----------------------------------------------------------------------------
(* The phases *)

Prepare(c) ==
    /\ Running(c, "prepare")
    /\ MarkDone(c)
    /\ GoOn(c, "backup")
    /\ UNCHANGED <<booted, enabled, lock, housekeepingDue, repoVars>>

(* The hooks' closures declare an err of their own: the caller's err keeps *)
(* the value it had, which is nil in both phases.                          *)
HookFails(c) ==
    /\ step[c] = "run" /\ phase[c] \in HookPhases
    /\ MarkFailed(c)
    /\ BreakOff(c, err[c])
    /\ UNCHANGED <<booted, enabled, lock, housekeepingDue, repoVars>>

(* Mutation: a command's closure declares an err of its own, too. *)
CommandFailsMut(c) ==
    /\ step[c] = "run" /\ phase[c] \in CommandPhases
    /\ MarkFailed(c)
    /\ BreakOff(c, err[c])
    /\ UNCHANGED <<booted, enabled, lock, housekeepingDue, repoVars>>

CommandFails(c) ==
    /\ step[c] = "run" /\ phase[c] \in CommandPhases
    /\ MarkFailed(c)
    /\ BreakOff(c, TRUE)
    /\ UNCHANGED <<booted, enabled, lock, housekeepingDue, repoVars>>

(* restic has written a snapshot. *)
ResticSaves(c) ==
    /\ Running(c, "backup")
    /\ Len(snapshots) < MaxSnapshots
    /\ snapshots' = Append(snapshots, "new")
    /\ StepTo(c, "saved")
    /\ UNCHANGED <<booted, enabled, lock, housekeepingDue, phase, err, orphans, meddled,
                   gaugeVars>>

(* Restic.Backup returns without an error. *)
BackupDone(c) ==
    /\ step[c] = "saved"
    /\ snapshots' = Settle(snapshots, "good")
    /\ MarkDone(c)
    /\ GoOn(c, "forget")
    /\ UNCHANGED <<booted, enabled, lock, housekeepingDue, orphans, meddled>>

(* What a failing Restic.Backup does about its snapshot: it removes it, if *)
(* it knows its id; the result of r.Forget is ignored.                     *)
TakeBack ==
    \/ snapshots' = Settle(snapshots, "bad")
    \/ \E i \in 1..Len(snapshots) :
          snapshots[i] = "new" /\ snapshots' = RemoveAt(snapshots, i)

(* Mutation: the loop goes on after a failed backup. *)
DiscardMut(c) ==
    /\ step[c] = "saved"
    /\ TakeBack
    /\ MarkFailed(c)
    /\ GoOn(c, "forget")
    /\ UNCHANGED <<booted, enabled, lock, housekeepingDue, orphans, meddled>>

(* restic or the pipe script has failed after all, or Backup gives up on   *)
(* an output line it does not understand.                                  *)
Discard(c) ==
    /\ step[c] = "saved"
    /\ TakeBack
    /\ MarkFailed(c)
    /\ BreakOff(c, TRUE)
    /\ UNCHANGED <<booted, enabled, lock, housekeepingDue, orphans, meddled>>

(* Backup gives up on such a line while restic is still at work. *)
GiveUp(c) ==
    /\ Running(c, "backup")
    /\ orphans < MaxOrphans
    /\ orphans' = orphans + 1
    /\ MarkFailed(c)
    /\ BreakOff(c, TRUE)
    /\ UNCHANGED <<booted, enabled, lock, housekeepingDue, snapshots, meddled>>

(* printReport calls a nil FlushFunc: Backup was given one because another *)
(* request was just resetting it (ApiOutput).  restic is left alone.       *)
ReportPanics(c) ==
    /\ Handlers \ {c} # {}
    /\ Running(c, "backup") \/ step[c] = "saved"
    /\ Panic(c)
    /\ c # Cron => /\ \/ /\ step[c] = "run" /\ orphans < MaxOrphans
                         /\ orphans' = orphans + 1
                         /\ UNCHANGED snapshots
                      \/ /\ step[c] = "saved"
                         /\ snapshots' = Settle(snapshots, "bad")
                         /\ UNCHANGED orphans
                   /\ UNCHANGED <<inProgress, success>>

(* "snapshot is empty": the phase counts as successful, the loop ends. *)
BackupEmpty(c) ==
    /\ Running(c, "backup")
    /\ MarkDone(c)
    /\ BreakOff(c, FALSE)
    /\ UNCHANGED <<booted, enabled, lock, housekeepingDue, repoVars>>

AfterForget == IF HousekeepingInterval > 0 /\ housekeepingDue THEN "prune" ELSE "getstats"

(* Mutation: restic forget is called without the retention policy. *)
ForgetMut(c) ==
    /\ Running(c, "forget")
    /\ snapshots # <<>>
    /\ MarkDone(c)
    /\ GoOn(c, AfterForget)
    /\ UNCHANGED <<booted, enabled, lock, housekeepingDue, repoVars>>

Forget(c) ==
    /\ Running(c, "forget")
    /\ snapshots # <<>>
    /\ snapshots' = Newest(snapshots, KeepLast)
    /\ MarkDone(c)
    /\ GoOn(c, AfterForget)
    /\ UNCHANGED <<booted, enabled, lock, housekeepingDue, orphans, meddled>>

(* restic forget removes the expired snapshots one by one, and may fail or *)
(* die after any of them.                                                  *)
ExpireOne(c) ==
    /\ Running(c, "forget")
    /\ \E i \in 1..(Len(snapshots) - KeepLast) : snapshots' = RemoveAt(snapshots, i)
    /\ UNCHANGED <<booted, enabled, lock, housekeepingDue, orphans, meddled, callerVars,
                   gaugeVars>>

(* forgetResponse[0] of an empty response *)
ForgetPanics(c) ==
    /\ Running(c, "forget")
    /\ snapshots = <<>>
    /\ Panic(c)
    /\ c # Cron => /\ inProgress' = inProgress \ {phase[c]}
                   /\ success' = success \cup {phase[c]}
                   /\ UNCHANGED <<snapshots, orphans>>

Prune(c) ==
    /\ Running(c, "prune")
    /\ MarkDone(c)
    /\ GoOn(c, "getstats")
    /\ housekeepingDue' = FALSE
    /\ UNCHANGED <<booted, enabled, lock, repoVars>>

GetStats(c) ==
    /\ Running(c, "getstats")
    /\ snapshots # <<>>
    /\ MarkDone(c)
    /\ GoOn(c, "s3stats")
    /\ UNCHANGED <<booted, enabled, lock, housekeepingDue, repoVars>>

(* snapshots[n-1] with n = 0 *)
GetStatsPanics(c) ==
    /\ Running(c, "getstats")
    /\ snapshots = <<>>
    /\ Panic(c)
    /\ c # Cron => UNCHANGED <<inProgress, success, snapshots, orphans>>

S3Stats(c) ==
    /\ Running(c, "s3stats")
    /\ MarkDone(c)
    /\ GoOn(c, "wrapup")
    /\ UNCHANGED <<booted, enabled, lock, housekeepingDue, repoVars>>

Wrapup(c) ==
    /\ Running(c, "wrapup")
    /\ MarkDone(c)
    /\ BreakOff(c, err[c])
    /\ UNCHANGED <<booted, enabled, lock, housekeepingDue, repoVars>>

(* phase_running is cleared and the final report is built from err. *)
Report(c) ==
    /\ step[c] = "report"
    /\ phaseRunning' = 0
    /\ success' = IF err[c] THEN success \ {"overall"} ELSE success \cup {"overall"}
    /\ StepTo(c, "unlock")
    /\ UNCHANGED <<booted, enabled, lock, housekeepingDue, phase, err, repoVars, inProgress,
                   aborted>>

(* The deferred receive from backupLockingChan; the locals go away. *)
Unlock(c) ==
    /\ step[c] = "unlock"
    /\ lock' = 0
    /\ StepTo(c, "idle")
    /\ phase' = [phase EXCEPT ![c] = "none"]
    /\ err' = [err EXCEPT ![c] = FALSE]
    /\ UNCHANGED <<booted, enabled, housekeepingDue, repoVars, gaugeVars>>

-----------------------------------------------------------------------------
(* The specification *)

RunStep(c) ==
    \/ CheckEnabled(c) \/ TryLock(c) \/ BeginPhase(c)
    \/ Prepare(c) \/ HookFails(c) \/ CommandFails(c)
    \/ ResticSaves(c) \/ BackupDone(c) \/ Discard(c) \/ BackupEmpty(c)
    \/ GiveUp(c) \/ ReportPanics(c)
    \/ Forget(c) \/ ExpireOne(c) \/ ForgetPanics(c) \/ Prune(c)
    \/ GetStats(c) \/ GetStatsPanics(c) \/ S3Stats(c) \/ Wrapup(c)
    \/ Report(c) \/ Unlock(c)

Next ==
    \/ \E c \in Callers : Trigger(c) \/ RunStep(c)
    \/ \E b \in BOOLEAN : SetEnabled(b)
    \/ FinishStart
    \/ HousekeepingBecomesDue
    \/ OperatorForget
    \/ OrphanEnds
    \/ Restart

Spec == Init /\ [][Next]_vars

(* A goroutine that has entered fullBackupRun is scheduled until it leaves *)
(* it; hooks, restic and the S3 listing are assumed to end.                *)
FairSpec == Spec /\ \A c \in Callers : WF_vars(RunStep(c))

-----------------------------------------------------------------------------
(* Properties *)

TypeOK ==
    /\ booted \in BOOLEAN
    /\ enabled \in BOOLEAN
    /\ lock \in 0..1
    /\ housekeepingDue \in BOOLEAN
    /\ step \in [Callers -> Steps]
    /\ phase \in [Callers -> Phases \cup {"none"}]
    /\ err \in [Callers -> BOOLEAN]
    /\ snapshots \in Seq(Kinds) /\ orphans \in 0..MaxOrphans
    /\ meddled \in SUBSET {"orphan", "operator"}
    /\ phaseRunning \in 0..7
    /\ inProgress \in SUBSET Phases /\ aborted \in SUBSET Phases
    /\ success \in SUBSET (Phases \cup {"overall"})

Holds(c) == step[c] \in Holding

(* "only one backup process can run at a time" (backup.go:23): whatever    *)
(* the handlers and the event loop do, at most one of them is between the  *)
(* send and the deferred receive, and the channel's token is there exactly *)
(* as long as one is -- it is never lost and never left behind.            *)
OneRunAtATime ==
    /\ \A c, d \in Callers : Holds(c) /\ Holds(d) => c = d
    /\ lock = 1 <=> \E c \in Callers : Holds(c)

(* After the phase forget of a run no more than KeepLast snapshots are     *)
(* left, the leftovers of earlier failed runs included                     *)
(* (test/tests/retention.go expects this number), unless a restic that an  *)
(* earlier run has left alone saves its snapshot during this very run.     *)
RetentionHolds ==
    \A c \in Callers :
        Holds(c) /\ phase[c] \in {"prune", "getstats", "s3stats", "wrapup"}
        /\ "orphan" \notin meddled
            => Len(snapshots) <= KeepLast

(* From the end of its backup to its verdict, a run finds its own good     *)
(* snapshot as the newest of the repository: neither retention nor any     *)
(* other caller has touched it, so the statistics are about this run.  (An *)
(* orphan or the operator may get in between.)                             *)
OwnSnapshotIsNewest ==
    \A c \in Callers :
        Holds(c) /\ phase[c] \in {"forget", "prune", "getstats", "s3stats", "wrapup"}
        /\ meddled = {}
            => snapshots # <<>> /\ Last(snapshots) = "good"

HasGood == \E i \in 1..Len(snapshots) : snapshots[i] = "good"

(* Once the repository holds the snapshot of a successful backup it never  *)
(* stops holding one, through failing hooks and commands, panics, late     *)
(* snapshots of earlier runs, retention that breaks off half-way, and      *)
(* crashes.  The one exception is a run that shares the repository while   *)
(* it goes on: with the operator, who may remove anything, or with a       *)
(* restic that an earlier run has left alone, whose snapshot may be newer  *)
(* than the run's own when the retention policy is applied.                *)
GoodSnapshotSurvives == [][HasGood => HasGood' \/ meddled' # {}]_vars

InFunction(c) == step[c] \in {"run", "saved"}
RunningPhases == {phase[c] : c \in {d \in Callers : InFunction(d)}}

(* The progress gauges are those of the one running phase: no rejected     *)
(* caller and no failed phase leaves a trace in them, only a panic that    *)
(* net/http recovers does, and no longer than until its phase begins anew  *)
(* (inprogress_id) or another run gets on (phase_running).                 *)
GaugesTellTheRun ==
    /\ RunningPhases \subseteq inProgress
    /\ inProgress \subseteq RunningPhases \cup aborted
    /\ phaseRunning # 0 =>
          \/ \E c \in Callers : Holds(c)
          \/ \E p \in aborted : phaseRunning = phaseToCode[p]
    /\ \A c \in Callers : InFunction(c) => phaseRunning = phaseToCode[phase[c]]

(* "Phase running, 0=none" (metrics.go:81): when no run is at work, the    *)
(* gauge is 0.  It fails: a run that has panicked never resets it.         *)
IdleShowsNone == phaseRunning # 0 => \E c \in Callers : Holds(c)

Reported(c) == step[c] = "report" /\ step'[c] = "unlock"

(* The verdict "overall" agrees with the gauge of the phase the run ended  *)
(* in, unless that phase is a hook.                                        *)
CommandFailureIsReported ==
    [][\A c \in Callers :
          Reported(c) /\ phase[c] \notin HookPhases
              => ("overall" \in success' <=> phase[c] \in success)]_vars

(* The same for every phase, as the final report promises ("Error message  *)
(* of failed backup", metrics.go:75).  It fails: the hooks' errors never   *)
(* reach err.                                                              *)
OverallTellsFailure ==
    [][\A c \in Callers :
          Reported(c) => ("overall" \in success' <=> phase[c] \in success)]_vars

(* Every call of fullBackupRun returns: a caller that finds the lock taken *)
(* is turned away at once instead of waiting behind runs that may follow   *)
(* each other without end.                                                 *)
CallersReturn == \A c \in Callers : step[c] # "idle" ~> step[c] = "idle"

-----------------------------------------------------------------------------
(* Refinement *)

stageOfPhase(p) ==
    IF p \in {"prepare", "backup"} THEN "working"
    ELSE IF p = "forget" THEN "kept" ELSE "expired"

stageOf(c) ==
    IF step[c] \in {"report", "unlock"} THEN "closing"
    ELSE IF step[c] = "saved" THEN "saved"
    ELSE IF Holds(c) THEN stageOfPhase(phase[c]) ELSE "idle"

Contract == INSTANCE BackupContract
                WITH stage <- [c \in Callers |-> stageOf(c)], abandoned <- orphans

(* The service keeps the contract about its repository: whoever calls,     *)
(* whatever fails, panics or is cut off, it adds, keeps, takes back and    *)
(* expires snapshots in no other way than the contract allows.             *)
KeepsContract == Contract!Spec
=============================================================================
