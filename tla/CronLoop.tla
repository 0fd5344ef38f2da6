------------------------------ MODULE CronLoop ------------------------------
(***************************************************************************)
(* The scheduler of the service: the event loop started by                 *)
(* initializeService, the sleeper goroutine that sleepUntil starts for     *)
(* every iteration, and watchCronScheduleFile with the buffered channel    *)
(* updateCronChan, all of cmd/mcs-backup/initialize.go.                    *)
(*                                                                         *)
(* One tick of the clock is a minute: what a goroutine does between two    *)
(* sleeps takes no time, unless the host is suspended.  A schedule is the  *)
(* set of its instants up to the horizon.  Abstracted: the backup itself   *)
(* (module BackupRun), log lines, the short pauses between two looks at    *)
(* the file.  A sleeper whose iteration has ended can reach nobody any     *)
(* more and is left out.                                                   *)
(***************************************************************************)
EXTENDS Integers

CONSTANTS
    Schedules,  \* schedules the file may hold, sets of instants
    Step,       \* longest sleep of a sleeper
    Horizon,    \* bound on the clock
    MaxWrites   \* bound on the changes of the file

ASSUME ScheduleAssumption == \A s \in Schedules : s # {} /\ s \subseteq 1 .. Horizon
ASSUME BoundAssumption == Step \in Nat \ {0} /\ Horizon \in Nat /\ MaxWrites \in Nat

VARIABLES
    now,        \* the wall clock
    cron,       \* the schedule in force
    loop,       \* where the event loop stands
    sleeper,    \* where the sleeper of this iteration stands
    target,     \* nextOccurrency.Start
    left,       \* what is left of the sleeper's time.Sleep
    file,       \* what the schedule file holds
    mtime,      \* its modification time
    watcher,    \* where watchCronScheduleFile stands
    modtime,    \* its local variables modtime, lastmod and cr
    lastmod,
    cr,
    updates,    \* updateCronChan: at most one schedule
    (* what the properties remember *)
    woke,       \* when the host woke up last, 0 if somebody has looked at
                \* the clock since
    fresh,      \* the loop has planned in this minute
    ranFor      \* the instant the last backup was for

loopVars  == <<loop, target, ranFor>>
clockVars == <<woke, fresh>>
sleepVars == <<sleeper, left>>
fileVars  == <<file, mtime>>
watchVars == <<watcher, modtime, lastmod, cr>>
vars == <<now, cron, loopVars, sleepVars, fileVars, watchVars, updates, clockVars>>

(* A file that does not parse or cannot be read, and no file at all. *)
Invalid == {}
Absent  == {0}
Never   == Horizon + 1

(* cron.NextOccurrences(time.Now(), 1)[0]; the first instant after the     *)
(* horizon stands for all of them.                                         *)
NextOccurrence(s, t) ==
    IF \E x \in s : x > t THEN CHOOSE x \in s : x > t /\ \A y \in s : y > t => x <= y
                          ELSE Never

(* The file has been read and found valid, the watcher has just started;   *)
(* its first look at the file is still to come.                            *)
Init ==
    /\ now = 0
    /\ cron \in Schedules
    /\ loop = "plan" /\ target = 0 /\ ranFor = 0
    /\ sleeper = "none" /\ left = 0
    /\ file = cron /\ mtime = 1
    /\ watcher = "stat" /\ modtime = 0 /\ lastmod = 0 /\ cr = Invalid
    /\ updates = {}
    /\ woke = 0 /\ fresh = FALSE

-----------------------------------------------------------------------------
(* The event loop *)

Plan ==
    /\ loop = "plan"
    /\ target' = NextOccurrence(cron, now)
    /\ loop' = "select"
    /\ sleeper' = "check"
    /\ woke' = 0 /\ fresh' = TRUE
    /\ UNCHANGED <<now, cron, ranFor, left, fileVars, watchVars, updates>>

(* The sleeper's answer arrives: a zero time means skip. *)
Skip ==
    /\ loop = "select" /\ sleeper = "zero"
    /\ loop' = "plan"
    /\ sleeper' = "none"
    /\ UNCHANGED <<now, cron, target, ranFor, left, fileVars, watchVars, updates, clockVars>>

StartRun ==
    /\ loop = "select" /\ sleeper = "due"
    /\ loop' = "run"
    /\ sleeper' = "none"
    /\ ranFor' = target
    /\ UNCHANGED <<now, cron, target, left, fileVars, watchVars, updates, clockVars>>

(* fullBackupRun returns, with or without an error. *)
EndRun ==
    /\ loop = "run"
    /\ loop' = "plan"
    /\ UNCHANGED <<now, cron, target, ranFor, sleepVars, fileVars, watchVars, updates, clockVars>>

(* Mutation: the iteration goes on with its old timer. *)
UpdateCronMut ==
    /\ loop = "select"
    /\ \E s \in updates : cron' = s
    /\ updates' = {}
    /\ UNCHANGED <<now, loopVars, sleepVars, fileVars, watchVars, clockVars>>

(* c := <-updateCronChan; the sleeper is left to itself. *)
UpdateCron ==
    /\ loop = "select"
    /\ \E s \in updates : cron' = s
    /\ updates' = {}
    /\ loop' = "plan"
    /\ sleeper' = "none"
    /\ UNCHANGED <<now, target, ranFor, left, fileVars, watchVars, clockVars>>

-----------------------------------------------------------------------------
(* sleepUntil *)

(* Mutation: the loop always sleeps a whole step. *)
CheckTimeMut ==
    /\ sleeper = "check"
    /\ woke' = 0
    /\ IF target < now
       THEN sleeper' = "zero" /\ UNCHANGED left
       ELSE /\ left' = Step
            /\ sleeper' = IF target - now > Step THEN "step" ELSE "last"
    /\ UNCHANGED <<now, cron, loopVars, fileVars, watchVars, updates, fresh>>

(* One turn of its loop: nothing is left to wait for, a step, or the rest. *)
CheckTime ==
    /\ sleeper = "check"
    /\ woke' = 0
    /\ IF target < now
       THEN sleeper' = "zero" /\ UNCHANGED left
       ELSE IF target - now > Step
            THEN sleeper' = "step" /\ left' = Step
            ELSE sleeper' = "last" /\ left' = target - now
    /\ UNCHANGED <<now, cron, loopVars, fileVars, watchVars, updates, fresh>>

WakeUp ==
    /\ sleeper \in {"step", "last"}
    /\ left = 0
    /\ sleeper' = IF sleeper = "step" THEN "check" ELSE "due"
    /\ UNCHANGED <<now, cron, loopVars, left, fileVars, watchVars, updates, clockVars>>

-----------------------------------------------------------------------------
(* watchCronScheduleFile *)

(* Mutation: the modification time is taken down before the file is read. *)
StatFileMut ==
    /\ watcher = "stat"
    /\ file # Absent
    /\ modtime' = mtime /\ lastmod' = mtime
    /\ watcher' = IF lastmod # 0 /\ mtime > lastmod THEN "read" ELSE "stat"
    /\ UNCHANGED <<now, cron, loopVars, sleepVars, fileVars, cr, updates, clockVars>>

(* The first look only takes down the modification time. *)
StatFile ==
    /\ watcher = "stat"
    /\ file # Absent
    /\ modtime' = mtime
    /\ lastmod' = IF lastmod = 0 THEN mtime ELSE lastmod
    /\ watcher' = IF mtime > lastmod' THEN "read" ELSE "stat"
    /\ UNCHANGED <<now, cron, loopVars, sleepVars, fileVars, cr, updates, clockVars>>

(* A schedule that cannot be read is looked at again later. *)
ReadFile ==
    /\ watcher = "read"
    /\ IF file \in {Invalid, Absent}
       THEN watcher' = "stat" /\ UNCHANGED <<cr, lastmod>>
       ELSE watcher' = "notify" /\ cr' = file /\ lastmod' = modtime
    /\ UNCHANGED <<now, cron, loopVars, sleepVars, fileVars, modtime, updates, clockVars>>

(* Mutation: an update is dropped while another one is waiting. *)
NotifyMut ==
    /\ watcher = "notify"
    /\ updates' = IF updates = {} THEN {cr} ELSE updates
    /\ watcher' = "stat"
    /\ UNCHANGED <<now, cron, loopVars, sleepVars, fileVars, modtime, lastmod, cr, clockVars>>

(* notify <- cr blocks while the buffer is full. *)
Notify ==
    /\ watcher = "notify"
    /\ updates = {}
    /\ updates' = {cr}
    /\ watcher' = "stat"
    /\ UNCHANGED <<now, cron, loopVars, sleepVars, fileVars, modtime, lastmod, cr, clockVars>>

-----------------------------------------------------------------------------
(* The surroundings *)

WriteFile ==
    /\ mtime <= MaxWrites
    /\ mtime' = mtime + 1
    /\ file' \in Schedules \cup {Invalid, Absent}
    /\ UNCHANGED <<now, cron, loopVars, sleepVars, watchVars, updates, clockVars>>

(* Something of loop and sleeper could go on right now. *)
Busy ==
    \/ loop = "plan"
    \/ sleeper = "check"
    \/ sleeper \in {"step", "last"} /\ left = 0
    \/ loop = "select" /\ (sleeper \in {"zero", "due"} \/ updates # {})

Tick ==
    /\ now < Horizon /\ ~Busy
    /\ now' = now + 1
    /\ left' = IF sleeper \in {"step", "last"} THEN left - 1 ELSE left
    /\ fresh' = FALSE
    /\ UNCHANGED <<cron, loopVars, sleeper, fileVars, watchVars, updates, woke>>

(* The host sleeps for d: the wall clock goes on, timers do not. *)
Suspend(d) ==
    /\ now + d <= Horizon
    /\ now' = now + d
    /\ woke' = now' /\ fresh' = FALSE
    /\ UNCHANGED <<cron, loopVars, sleepVars, fileVars, watchVars, updates>>

LoopStep    == Plan \/ Skip \/ StartRun \/ EndRun \/ UpdateCron
SleeperStep == CheckTime \/ WakeUp
WatcherStep == StatFile \/ ReadFile \/ Notify

Next ==
    \/ LoopStep \/ SleeperStep \/ WatcherStep
    \/ WriteFile \/ Tick \/ \E d \in 1 .. Horizon : Suspend(d)

Spec == Init /\ [][Next]_vars

(* Goroutines that can run do, and backups end. *)
FairSpec ==
    Spec /\ WF_vars(LoopStep) /\ WF_vars(SleeperStep) /\ WF_vars(WatcherStep)

-----------------------------------------------------------------------------
(* Properties *)

TypeOK ==
    /\ now \in 0 .. Horizon
    /\ cron \in Schedules
    /\ loop \in {"plan", "select", "run"}
    /\ sleeper \in {"none", "check", "step", "last", "zero", "due"}
    /\ target \in 0 .. Never
    /\ left \in 0 .. Step
    /\ file \in Schedules \cup {Invalid, Absent}
    /\ mtime \in 1 .. (MaxWrites + 1)
    /\ watcher \in {"stat", "read", "notify"}
    /\ modtime \in 0 .. (MaxWrites + 1)
    /\ lastmod \in 0 .. (MaxWrites + 1)
    /\ cr \in Schedules \cup {Invalid}
    /\ updates \in SUBSET Schedules /\ \A s, t \in updates : s = t
    /\ woke \in 0 .. Horizon /\ fresh \in BOOLEAN
    /\ ranFor \in 0 .. Never

(* No instant of the schedule in force goes by while the loop waits for    *)
(* one: then a backup is running, the one for this instant or an earlier   *)
(* one.  Two exceptions: the loop has planned in this very minute, because *)
(* a backup has ended or the schedule was changed (what it plans is later, *)
(* and a change that is received first takes a backup that is due with     *)
(* it); or the host was suspended and has been awake for less than one     *)
(* step of the sleeper, which then looks at the clock again.               *)
NoInstantGoesBy ==
    [][Tick /\ now \in cron =>
          loop = "run" \/ fresh \/ (woke # 0 /\ now < woke + Step)]_vars

(* A backup starts for an instant of the schedule that is in force at that *)
(* moment, never before it, on the minute unless the host has slept, never *)
(* for an instant that has triggered a backup already, however early that  *)
(* one has ended and however often the schedule changes.                   *)
RunsOnSchedule ==
    [][StartRun => /\ target \in cron
                   /\ now >= target
                   /\ woke = 0 => now = target
                   /\ target > ranFor]_vars

(* From its first reading on, the watcher believes itself up to date only  *)
(* with the schedule the file really holds, and this one is in force or    *)
(* will be the next that the loop receives, and the last: no write that    *)
(* comes between the look at the file and its reading gets lost, and       *)
(* nothing older overtakes a newer schedule.                               *)
NoUpdateIsLost ==
    cr # Invalid /\ lastmod = mtime =>
        /\ file = cr
        /\ \/ watcher = "notify"
           \/ updates = {cr}
           \/ updates = {} /\ cron = cr

(* Once the watcher has had its first look at the file, the schedule in    *)
(* force follows the file, even if it changes while the watcher reads it,  *)
(* while it waits for the loop, or in the middle of a backup.              *)
ScheduleFollowsFile ==
    \A s \in Schedules :
        file = s /\ lastmod # 0 /\ lastmod < mtime ~> cron = s \/ file # s

(* "will schedule backups accordingly, watcher started"                    *)
(* (initialize.go:221): from then on the loop follows the file.  It does   *)
(* not when the file changes between initializeService's reading and the   *)
(* watcher's first look.                                                   *)
ScheduleAlwaysFollowsFile ==
    \A s \in Schedules : file = s ~> cron = s \/ file # s
=============================================================================
