# mcs-backup in TLA+

mcs-backup is a service that runs beside an application in a container, backs
its data up with restic into an S3 bucket at the times of a cron schedule, and
answers a small HTTP API by which backups are started, disabled and put off for
maintenance.  This directory holds TLA+ models of it, the TLC configurations
that check them and TLAPS proofs about them.  Paths below are relative to the
repository, `cmd/` standing for `cmd/mcs-backup/`.

    tlc -config MCBackupRun.cfg MCBackupRun.tla     # any run of the table below
    tlapm BackupRunProofs.tla                       # any of the *Proofs modules

## 1. Inventory

| part | code | state | operations | modelled by |
|---|---|---|---|---|
| backup run | `cmd/backup.go`, `cmd/phase.go` | the lock `backupLockingChan` (a channel with one slot), the local `phase` and `err` of a run, the gauges | `fullBackupRun` with its seven phases, `runPhase` | `BackupRun`, `BackupContract` |
| HTTP service | `cmd/cmd_serve.go` | `backupEnabled`, `cancelAutoEnable`, the redirected log, the functions `flush` and `restic.FlushFunc` | start a backup, enable, disable, maintenance window, status | `BackupRun`, `Maintenance`, `ApiOutput` |
| scheduler | `cmd/initialize.go` 226-353 | the schedule, the sleeper's target, `updateCronChan`, the watcher's modification times | event loop, `sleepUntil`, `watchCronScheduleFile` | `CronLoop` |
| start-up | `cmd/initialize.go` 1-225, `internal/restic/main.go` | configuration, `housekeepingInterval`, `nextHousekeepingRun` | read the environment, `Preflight`, start the event loop, schedule housekeeping | partly in `BackupRun` and `RunLocks` |
| restic backup | `internal/restic/backup.go` | two processes, a pipe, two channels, a goroutine, the copy of `FlushFunc` | `Restic.Backup` with or without a pipe-in script | `ResticBackup`, `BackupCall` |
| other restic commands | `internal/restic/generic.go` | the locks in the repository | `genericCommand` with its retry after `UnlockAll`; forget, prune, stats, snapshots | `AutoUnlock`, `RunLocks`; one step each in `BackupRun` |
| hooks, pipes | `cmd/hooks.go`, `cmd/pipes.go` | a process, its two outputs | run a script and log its output | `HookRun`; one step in `BackupRun` |
| client | `cmd/cmd_backup.go`, `cmd/rpc.go` | - | probes the service, sends a request, follows the log, derives an exit code | `Client` |
| restore | `cmd/cmd_restore.go`, `internal/restic/restore.go` | two processes and a pipe | hooks around a restore or a dump into a script | `Restore` |
| S3 statistics | `internal/s3/s3.go` | the sums | looks for repositories, adds up the bucket's objects | `S3Stats` |
| metrics | `internal/metrics`, `cmd/metrics.go` | gauges, points in InfluxDB | register, set, send | `Metrics`; the progress gauges also in `BackupRun` |

How the parts interact.  The event loop (one goroutine) and every
`POST /api/mcs-backup` (one goroutine each) call `fullBackupRun`; the lock lets
one of them in and turns the others away.  The run calls the hooks, restic and
S3 one after the other.  `backupEnabled` is read by the run, written by
enable, disable, maintenance requests and by the goroutine that each
maintenance window leaves behind; those goroutines are called off through the
unbuffered channel `cancelAutoEnable`.  The watcher passes new schedules to the
event loop through `updateCronChan`, which has one slot.  `Restic.Backup` runs
`script | restic backup --stdin` with a goroutine that waits for the script and
reports through two channels with one slot each.  `runBackup` makes the log output
and the flush functions point to its response before it calls `fullBackupRun`,
outside of the lock; the client reads that log.  restic processes of the
service, of a restore and of operators share the repository and keep each other
out by locks in it, which `genericCommand` removes when it meets one that is old
enough.

What is hard to get right here, and hard to test:

* several goroutines race for the lock, and every way out of a run has to give
  it back, panics included;
* a backup may fail after restic has written a snapshot, and the repository is
  then cleaned up by a command that may fail too; retention works on whatever
  failed runs have left behind;
* a call of restic can be given up while its process goes on: after a line that is
  not JSON, or by the panic of a report whose `FlushFunc` another request has just
  set to nil; a snapshot may then turn up in the middle of a later run;
* an error can be lost between a phase and the verdict of the run;
* timers of maintenance windows outlive the request that started them;
* a pipe hides the failure of its first process from the second one, and its
  ends are held by several processes;
* the schedule changes while the loop sleeps, while a backup runs or while the
  file is being read; the host may be suspended;
* killed processes leave locks behind, and removing these may hit the locks of
  processes that are alive; only some of the commands remove any;
* every request redirects the log of the whole process to its response and puts
  back what it has found, while others do the same;
* a client sees of a run nothing but its log;
* the output of a script is read before its end is waited for;
* the bucket changes while it is listed, and gauges are set one by one while
  they are scraped;
* the container may be restarted between any two steps.

`PROJECT.json` lists each of these hazards at its line with the properties that
would catch it going wrong.

## 2. Modules

### BackupRun, BackupContract: the backup run

`BackupRun` models `fullBackupRun` and `runPhase` for a cron goroutine and a set
of API handlers.  `step[c]` is where a goroutine stands:

| `step` | code |
|---|---|
| `check`, `lock` | `backupEnabled` and the non-blocking send (`backup.go` 18-32) |
| `begin` | the loop head and `runPhase` up to the call of the phase's function |
| `run` | inside that function |
| `saved` | inside the phase backup: restic has written its snapshot, `Restic.Backup` has not returned |
| `report`, `unlock` | the final report, the deferred receive |

One action stands for each outcome of each phase; failing commands set `err`,
failing hooks do not, because their closures declare their own.  Emptied
repositories make `Forget` and `GetStats` panic, and the report of a restic backup
panics when it was given a nil `FlushFunc` (`ReportPanics`, for which another
request has to be about): a handler then runs its deferred calls (net/http
recovers) and leaves the gauges as they are, the cron goroutine takes the process
with it.  `Restart` is the death of the container at any moment.

Snapshots are a sequence, oldest first.  The one of the run at work is `"new"`
until its backup has ended; then it is `"good"` if the backup was successful, and
`"bad"` if it could not be taken back, or if the run was cut off.  `restic forget`
keeps the newest `KeepLast`; it removes the others one by one (`ExpireOne`) and may
break off in between.  Gauges are sets of phases.

A restic command is one step here; what happens inside `Restic.Backup` is the
subject of `ResticBackup`.  Two of its outcomes leave a restic behind that nobody
waits for (`GiveUp`, after a line that is not JSON, and `ReportPanics`).
`orphans` counts these processes.  Each ends some time, mostly with a snapshot
(`OrphanEnds`); restic sorts snapshots by the time at which they were begun, so the
late one may be anywhere in the sequence.  restic's own lock would keep the forget
of a run waiting for an orphan; the model does without it and so has more behaviours
than restic.

Two history variables serve the properties: `meddled` says who else has written
to the repository since the run at work has begun (an orphan, the operator), and
`aborted` in which phases a recovered panic has left its trace in the gauges.

`BackupContract` says what the service promises about the repository: one run
at a time and at most one snapshot per run, which is kept if the backup was
successful and taken back or left behind if not; only a run that has kept its
own expires older ones, and never one of the newest `KeepLast`.  A run may abandon
a restic, and for each of these one more snapshot may turn up.  `BackupRun`
implements it (`KeepsContract`), with `stageOf` as the refinement mapping.

### Maintenance: windows

`win[w]` follows a request and the goroutine it starts: `send` (backups are off,
the older goroutine is being called off), `starting`, `waiting` (in its
`select`), `fired` (its timer has won, backups are still off).  The send on
`cancelAutoEnable` reaches a goroutine only in its `select` and is dropped
otherwise.  `enableAt` is truncated to seconds as in the code, so a clock tick
is half a second.  `offBy`, `until` and `raced` are history variables: they
record who turned backups off last, when the newest window ends, and whether
two requests, or a request and the end of a window, have met.

### ResticBackup, BackupCall: restic and its pipe

The caller (`main`), the goroutine that waits for the script (`waiter`), the
script (`dump`) and `restic`, for a sequence of calls.  `writeEnd` and `readEnd`
say whether this process still holds its copies of the pipe's ends: restic sees
the end of its input only after the write end is closed here, and the script is
killed by SIGPIPE only after the read end is closed, which nothing but the
finalizer of `os.File` does.  `pipeError` and `pipeMsg` are the two channels,
with room for one value each: a send waits for a channel that is full.
restic may fail or be killed at any time, print lines that are not JSON, and
takes a script that died for the end of its input.  `printReport` may panic after
each of its lines and after the last one (`ReportPanics`); whether the `FlushFunc`
of the call is nil is the subject of `ApiOutput`, here it is a choice.  restic and the scripts are
external: what they do is taken from the way `backup.go` uses them.

`BackupCall` says what a call is to its caller, the phase backup of `BackupRun`:
one call at a time, which returns once, with a complete snapshot if it succeeds,
with none if there was nothing to save, and what it has left then stays as it is.
Only after giving up, on a line that is not JSON or by a panic, may a snapshot
appear later.
`ResticBackup` implements it (`KeepsCall`, with `resultOf` and `leftOf` as the
refinement mapping), so `BackupRun` may take a call for a step with an outcome.

### CronLoop: the scheduler

The event loop (`loop`), its sleeper (`sleeper`, `target`, `left`) and the
watcher (`watcher`, `modtime`, `lastmod`, `cr`, `updates`).  A tick is a minute,
`Step` the longest sleep of `sleepUntil`; timers and the wall clock advance
together except in `Suspend`, which stands for a suspended host or for a
scheduler that is late.  A schedule is the set of its instants.  The file may be
rewritten at any time, with a schedule, with something that does not parse, or
be removed; its modification time only grows.  `woke` and `fresh` remember when the
host woke up last and whether the loop has planned in this minute: an instant may
go by unnoticed only then (`NoInstantGoesBy`).  So a backup that is due at the
minute at which a new schedule is received may be lost, since `select` takes either.  Sleepers of iterations that are
over can reach nobody and are left out.

### AutoUnlock: locks

`genericCommand` for a set of goroutines (`Callers`) and a restic that others
start without it (`Others`: `Restic.Backup`, a restore, an operator).  `pc[p]` is
`locking` while restic tries to take its lock, `running` while it holds one,
`unlocking` while `genericCommand` waits for `restic unlock --remove-all`;
`inRetry` is the variable of the same name.  A lock has an owner, a kind and an
age in ticks, which is no longer counted above `AgeCap`; restic names one of the
locks in its way, and its age decides (`Judge`, `ReturnError`), unless the
message is not understood (`NotUnderstood`).  `Die` leaves the
lock behind, owned by `Dead`.  A process that is alive refreshes its lock at the
age of `RefreshEvery`, and does so even when the lock was removed meanwhile.
restic itself is external.  Errors that have nothing to do with locks end a
command as success does.  `swept` is a history variable: the running processes
whose lock an `UnlockAll` has removed.

### RunLocks: the commands of a run and their locks

`RunLocks` puts the commands of the service in the order in which `Preflight` and
then the runs call them (`at`), each a command of `AutoUnlock`: `Service` is the
goroutine, `BackupProc` the `restic backup` it starts without `genericCommand`.
restic takes an exclusive lock for forget and prune (`Exclusive`).  `AfterSuccess`
and `AfterFailure` say what comes next.  The service or its restic may be killed
(`Killed`, `Restart`), `MaxKills` times.  It implements `AutoUnlock`, whose
properties therefore hold of it; its run checks both.

### ApiOutput: the redirected log

Every assignment of `runBackup` and of its three deferred functions is a step of
its own, `restic.FlushFunc = flush` two of them.  `output` is the sequence of
responses that log lines are copied to, `flush` and `flushFunc` name the response
that a call would flush, `None` stands for `func() {}`.  `captured[p]` is
`FlushFunc` in the copy of `restic` on which `Restic.Backup`, a method with a value
receiver, works.  A nil function panics in `printReport`, for sure when its run
gets that far; the lock then is given back by the deferred call, and net/http
closes the connection (`Panic`); in the event loop the process ends
(`Restart`).  The verdict is written to the response without the mutex of the log,
so it may get mixed up with a line that is being copied there (`torn`).  `met` remembers whether two runners
have been at work at the same time.

### Client: what the exit code says

A client per request: it probes `/healthz`, sends its request, and reads the
response to its end.  What it sees is `sent`, the responses to which the line
`<<<< ERROR ... >>>>` was written; that line is recognised only when the error
takes one line (`unreadable` results do not, the message of restic has several)
and was not torn.  The scanner of the client also stops at a line of more than
64 kB, and its error is not looked at: the client then ends with 0, whatever the
run still does.  This end is `cut`, apart from `exit0`, because such a client knows
nothing; `VerdictIsOwn` is about clients that read to the end.

### HookRun, Restore

`HookRun` is `hookT.Run`: `hook` is the caller, `script` the process, `pipe` the
lines between them, `background` the processes that the script has left behind,
each the set of the script's outputs that it still holds.  `Run` waits for these
outputs to be closed, and knows nothing of a process whose outputs were redirected.  bufio.Scanner gives up at a line of more than 64 kB
(`ReadTooLong`), and nobody looks at its error.  `Restore` composes two hooks
with a restore: `stage` is where `restoreFunc` stands, `restic` and `sink` are
the processes of the command chain, `dumped` counts the parts of the snapshot
that restic has written.  The service changes the repository meanwhile.

### S3Stats, Metrics

`S3Stats` is `GetMetrics`: the two requests of `looksLikeRepo` for the bucket and
for each directory of the first listing, then the second listing, which passes
the keys in their order (`cursor`) while `Put` and `Delete` change the bucket.
`stable` and `ever` remember what was there all the time and at some time of the
second listing.  A sum of sizes is defined as the number of pairs of a key and one
of as many numbers as its size says (`Total`), which makes sums a matter of finite
sets in the proofs; `TotalIsSum` compares it with the usual definition.  `Metrics` is
`Apply`: `queue` holds the pairs that are still to be
applied, `set` the fields of the first whose gauges are set.  `points` is what
InfluxDB has; a point may get lost.  The run has two phases here, one that
succeeds, fails or is left by a panic (`PhasePanics`, after which nothing of the run
is applied any more) and the one that collects the S3 statistics.

### MC and proof modules

The modules `MC...` instantiate the models for TLC, the modules `...Proofs` hold
the theorems: of `ApiOutput` and `Client` in `ClientProofs`, of `HookRun` and
`Restore` in `RestoreProofs`, of `AutoUnlock` and `RunLocks` in `RunLocksProofs`, of
`S3Stats` and `Metrics` in `MetricsProofs`.  Definitions whose names end in `Mut` are plausible
mistakes in the action that follows them; no specification uses them.  Each was
substituted for that action to see that a property notices.

## 3. Runs

| run | cfg | asks | bounds |
|---|---|---|---|
| backup_run | `MCBackupRun.cfg` | mutual exclusion, gauges, verdicts, retention, the last good snapshot; every step is one of the contract | 2 callers, 1 kept snapshot of 2, 1 orphan |
| backup_run_live | `MCBackupRunLive.cfg` | every call returns | 2 callers, 1 snapshot, an operator who empties the repository |
| overall_tells_failure | `MCOverallTellsFailure.cfg` | violated: failing hooks are reported as success | 2 callers |
| maintenance | `MCMaintenance.cfg` | backups always come back; early only after a race | 3 windows of 1, 3 or 4 ticks, clock up to 7 |
| window_honoured | `MCWindowHonoured.cfg` | violated: a window can end before its time | 2 windows |
| restic_backup | `MCResticBackup.cfg` | success is complete, failure is taken back, nothing blocks, a call is a step with an outcome | 2 calls, one with a script |
| cron_loop | `MCCronLoop.cfg` | on the minute, once per instant, by the present schedule, no instant and no change of the file is lost | 3 schedules, 7 minutes, steps of 2, 2 changes of the file |
| auto_unlock | `MCAutoUnlock.cfg` | locks are removed for a reason, exclusion holds otherwise, commands return, stale shared locks go | the service, 1 other command, ages 1 and 2, 2 dead locks, 2 kills |
| client | `MCClient.cfg` | what overlapping requests do to each other's log and to the exit codes | 2 requests and the event loop |
| stats | `MCMetrics.cfg` | the sums are those of the bucket; gauges and points agree with them | 3 objects, 1 directory, 2 mishaps |
| restore | `MCRestore.cfg` | no hook after half a dump; hooks return | 2 snapshots of 2 parts, 3 lines, a pipe for 1 |
| id_is_honoured | `MCIdIsHonoured.cfg` | violated: the wrong snapshot is restored | the same |

Why the bounds are enough.  Two callers are one inside a run and one that is
turned away, or is between the switch and the lock when the first ends; who
they are changes with every request.  Two snapshots, of which one is kept, are what a
run has made and what retention may remove or break off at, and one orphan can
save its snapshot before, between or behind them.  Two instances are larger in
one respect each, since callers and snapshots multiply; they have cfgs of their own,
to be run by hand:
`MCBackupCallers.cfg` has a third caller, and `MCBackupRepository.cfg` two kept snapshots
of four and two orphans, so that retention has two to expire and breaks off between
them.  (Its single caller orphans a restic by an odd line; a panic, which
leaves the same behind, needs a request.)  In
`backup_run_live` orphans are left out: no caller waits for one.  Three
windows are needed for one to be called off, one to miss its cancellation and
one to replace them; durations 1, 3 and 4 end in the middle and at the edge of
a second, and order windows both ways.  Two calls of `Backup` are one that is
over and may have left something behind, and its successor; one line that is
not JSON is enough since the call ends at the first.  Steps of two
minutes and instants up to seven make the sleeper take several steps, one
step and none; two writes let the file change while a change is being handled.
The service, another command and
`restic backup` are enough for a lock of a live process to be removed on behalf of
a dead one while a third decides; ages of 1 and 2 put the refresh below the age of removal, the
case in which `SweepHasCause` says something; with two dead locks a retry can
meet the lock of another dead process.
Two kills are one that leaves a lock behind and one that hits the command
that meets it.  Two requests and a cron run give every order of saving and
restoring a global, with a third party that uses it meanwhile; the proofs need
no bound.  Three objects are the two that make a directory a repository and one
beside it, so that each part of the sums can change while the other is counted;
two mishaps are a lost point and a restart.  A pipe for one line makes a script
of three block in front of a caller that has stopped reading; two snapshots are
the one that was asked for and the latest.
The requests are symmetric in client, the handlers in `MCBackupCallers.cfg`; symmetry is not
used where liveness is checked, which it would make unsound.  The proofs lift the safety results to every value of these constants.

`MaxSnapshots`, `MaxOrphans`, `MaxTime`, `Horizon`, `MaxWrites`, `MaxDead`, `MaxKills`, `MaxMishaps`,
`MaxLines` and `MaxId` bound what the environment does (snapshots added, restic
processes left alone, clock, changes of the file, locks left behind, kills, lost points and restarts, lines
of a script, ids) and appear in the guards of `ResticSaves`, `OrphanEnds`, `GiveUp`
and `ReportPanics`, `RequestMaintenance`
and `Tick`, `Tick` and `Suspend`, `WriteFile`, `Die`, `Killed` and `Restart`,
`Publish` and `Restart`, `StartHook`, `RepositoryChanges`.
Deadlock is not checked in the runs whose models end at such a bound, nor for a
restore, which is over at some time or hangs in a hook.

### Violations

Each refutes something the repository says of itself, quoted in `PROJECT.json`.

* **overall_tells_failure**: `err` is shadowed in the closures of `prepare` and
  `wrapup` (`backup.go` 44, 121).  A pre-backup hook that fails stops the run
  before any backup is made, and the run is reported as successful.
  `CommandFailureIsReported` is the part of the claim that holds.
* **window_honoured**: a request whose send finds the older goroutine outside
  its `select` leaves the older timer running.  `NoEarlyReactivation` says that
  this needs such a race.
* **id_is_honoured**: with extra arguments for the PostRestore hook the id of the
  snapshot is dropped (`len(args) == 1`), the latest one is restored, and the hook
  gets no arguments either.

These fail as well, each with a cfg of its own to be run by hand:

| property | `tlc -config` | what happens |
|---|---|---|
| `DisableSticks` | `MCDisableSticks.cfg MCMaintenance.tla` | "disable backups" (`cmd_backup.go` 22) during a maintenance window ends with the window |
| `YoungLocksStay` | `MCYoungLocksStay.cfg AutoUnlock.tla` | "lock needs to be stale" (`generic.go` 185): one old lock costs all the others, that of a running process included; `SweepHasCause` and `AloneUnlessSwept` are what holds |
| `ExitTellsFailure` | `MCExitTellsFailure.cfg MCClient.tla` | "should fail because backup is disabled" (`test/tests/disable.go` 47): the exit code is 0 for a run that was skipped, and for one whose error message has several lines |
| `OneBackupProcess` | `MCOneBackupProcess.cfg MCResticBackup.tla` | "only one backup process can run at a time" (`backup.go` 23), but `Backup` gives up on a line that is not JSON while its restic goes on, and so does a report that panics; `OrphanOnlyOfAbandonedCall` says that nothing else does this |
| `IdleShowsNone` | `MCIdleShowsNone.cfg MCBackupRun.tla` | "Phase running, 0=none" (`metrics.go` 81), but only the final report sets it to 0, and a panic skips that; `GaugesTellTheRun` says how long the trace of a panic may last |
| `ScheduleAlwaysFollowsFile` | `MCScheduleFollowsFile.cfg MCCronLoop.tla` | "will schedule backups accordingly, watcher started" (`initialize.go` 221), but a schedule that is written between its reading at start-up and the watcher's first look is never read; `ScheduleFollowsFile` says that every later change arrives |
| `StaleLocksGo` | `MCStaleLocksGo.cfg MCAutoUnlock.tla` | "Stale locks can be automatically removed" (`README.md` 17), but the exclusive lock of a forget or prune that was killed makes every run fail in `restic backup`, before any command that would remove it; it goes when the service is restarted, in `Preflight`; `SharedLocksGo` is what holds |

`MCClientLive.cfg` (with `MCClient.tla`), also to be run by hand, shows that `ClientExits`
holds of one request and the event loop: a client comes to its end, or its own
run is at work; one of the event loop that hangs does not keep it waiting.

Met while modelling, without a property of their own:

* An API answer of 403 or 400 ends `mcs-backup backup` with 0: `ezStream` does not
  look at the status.  `VerdictIsOwn` therefore leaves `forbidden` out.
* The client gives `--enable`, `--disable` and `--maintenance` 5 ms; after a
  timeout it exits with 1 although the service may have done what it was told.
* `initialize.go` 79 logs "auto prune disabled" for a `BACKUP_PRUNE_INTERVAL` that
  is not positive, but the default of 120 hours stays in force
  (`HousekeepingInterval`).
* `docs/hooks.md` 4 says that scripts are executed in the backup root; `hookT.Run`
  sets no directory, only the pipe-in script gets one.
* `PathMetrics` are collected and never published: no provider has such a field.
* A process that dies in a phase leaves its `phase_running` in InfluxDB until the
  next run; `InfluxAgrees` therefore counts from the start of the process.
* A hook with a child in the background that keeps its outputs, or with a line
  that is too long and enough output after it, keeps the run and its lock for ever.
  `HookReturns` says that these are the only two ways.
* A client that meets a line of more than 64 kB ends with 0 (`StreamTooLong`).
* A request that ends while another run is in `restic backup` takes nothing from it,
  but one that ends while another run is about to start restic can make that run
  panic (`FlushFunctionsAreLive` says when).

### Fairness

Goroutines that can run are scheduled (weak fairness of their steps); beyond
that, each liveness property assumes of the world no more than its code waits for.

* `BackupRun`: a caller inside `fullBackupRun` goes on; hooks, restic and the S3
  listing end.  None of the environment's steps is fair: nobody has to call,
  remove snapshots or restart the container.
* `Maintenance`: the clock ticks, and the goroutines of the windows are scheduled.
  No request is.
* `ResticBackup`: caller and waiter go on; restic ends once its input has ended; a
  script ends if it is read, and breaks once nobody can read it any more; the
  garbage collector runs, since only a finalizer closes the read end.  Neither
  restic nor the script has to fail or to misbehave.
* `CronLoop`: loop, sleeper and watcher go on, and backups end.  Time is not fair:
  the horizon is finite.
* `AutoUnlock`: `genericCommand` goes on and the restic it has started ends.
  Nothing is assumed about others, who may hold a lock for ever.
* `RunLocks`: the service and the other callers of `genericCommand` go on, the
  restic they have started ends, and time passes.  A command that is tried
  again and again does not fail each time for reasons that have nothing to do
  with locks, and its message is understood some time (strong fairness of
  `Succeed`, `Unlock` and `Judge`); only `SharedLocksGo` needs this.  Nothing is assumed about others, who may hold a lock for ever.
* `Client`: clients read, and handlers go on outside of `fullBackupRun` and up to
  its lock.  That a run ends is not assumed: one that hangs in a hook hangs for ever.
  Nothing makes a request arrive that the network refuses.
* `Restore`: the caller of a hook goes on, and the script does as long as it can
  write.  A child in the background may stay for ever.
* `S3Stats` and `Metrics` have no liveness property and no fairness.

## 4. Proofs

Every theorem holds for all values of the constants that satisfy the named
assumptions of the modules, which TLC evaluates in each run.  They say little:
names differ from one another (`CallersAssumption`, `NamesAssumption`,
`ProcsAssumption`), numbers are natural and some of them positive
(`KeepLastAssumption`, `ClockAssumption`, `AgeAssumption`, `SizeAssumption`),
schedules are sets of instants within the horizon that are not empty
(`ScheduleAssumption`), a bucket has keys of three kinds in its top or in one of its
directories (`KeysAssumption`).  None of them assumes that operators keep away or that
no restic is ever abandoned: the properties name what follows from these.

Each module proves `TypeOK` first, then an invariant that every step keeps, one
proof step per action, and draws the properties from it.

* **BackupRunProofs**.  `MutexInv`: the token in the channel and the one holder
  belong together; `OneRunAtATime` needs the types but no other strengthening.
  `SnapshotInv` adds to `RetentionHolds` that the snapshot a run has just saved, and then
  its own good one up to the verdict, is the newest unless somebody else has written to
  the repository (`SavedIsNewest`, `OwnSnapshotIsNewest`): retention may then remove every
  other one.  `GoodSurvives` is an
  action property on top of both; `OnlyWriters` lists the actions to look at.
  `Gauges` rests on `GaugeInv`: inside a phase's function the gauges are those of this
  phase, and what is in progress with nobody inside is in `aborted`.
  `FailureIsReported` rests on `VerdictInv`: `err` is false before the report, and
  there it agrees with the gauge of the phase, which no other caller can touch.
  `Implements` maps the initial state to one of `BackupContract`, and every step
  to a step of it or to a stutter.
* **MaintenanceProofs**.  `NoLostReactivation` is inductive with the types.
  `OneTimerUnlessRaced` and `NoEarlyReactivation` need `OrderInv`: a timer fires
  after its instant, and without a race the only goroutine left is the newest
  window's, or the one it is about to call off, which waits in its `select`.
* **ResticBackupProofs**.  `CallInv` ties, for each call, the processes, the
  message of restic, the two channels and the snapshot to where the caller
  stands; `SerialInv` says that one call at a time is under way.  The conditions on
  a call are shown once for its own steps (`OwnStep`), and steps of other calls
  leave them alone (`OthersUnchanged`).  `NobodyStuck` is what keeps `BackupReturns`
  and `ScriptIsReaped` alive, without their fairness: by `GoroutineInv` the
  goroutine holds the write end exactly until the script has ended, so restic's
  success implies that the goroutine is past closing it; by `ChannelInv` the
  message is in its channel before the result is, each is sent once, and they are
  taken out in the other order.  `ImplementsCall` adds that nothing is saved before
  restic says so (`UnsavedInv`), and that a call that has returned has no restic that
  could save, unless it was abandoned.
* **CronLoopProofs**.  `NextIsAhead`: the next instant of a schedule is later than
  now and belongs to it.  `ClockInv` then bounds the clock by the target while
  the sleeper sleeps, in steps or the last time, and keeps the target later than
  the instant of the last backup.  By `NextInv` no instant lies
  between now and the target, so that for `AwakeInTime` it is enough that a sleeper with
  something left to sleep has not reached it, unless the host was suspended.  `UpdatesArrive` rests on `UpdateInv`: the times
  the watcher remembers never run ahead of the file's, so that a write it has not
  seen is always newer, and what it has read is with the watcher, in the channel or
  in force.
* **RunLocksProofs**.  Of `AutoUnlock`: by `LockedInv` a running process has its lock
  unless that was removed, so `Acquire` finds it.  For `SweepHasCause` it takes also
  `OwnedInv`: the locks of the living never reach the age of removal.
  `RunImplementsAutoUnlock`: each step of `RunLocks` is a step of one command or of
  the clock, or leaves the locks alone; the safety results of `AutoUnlock` carry over.
* **ClientProofs**.  `ClientImplements` reduces the client's properties about the
  globals to `ApiOutput`.  `FlushLive`: besides the property itself, `flush` and
  every value of it that was read but not yet assigned are never nil
  (`FlushInv`).  `OwnVerdict` follows the life of a request (`Life`): it has no result
  before its verdict, an error is told in its own response after that and nowhere
  else, and a client exits only after the response has ended (`VerdictInv`).
  `Alone` needs what each place of the only runner means for all three globals
  and for the saved ones (`Redirected`, `CleanInv`), and that a runner that is
  alone cannot meet another without `met` being set.
* **RestoreProofs**.  `HooksAreOver`: the lines written and not logged are those in
  the pipe, and one more when it was too long (`HookInv`).  `OnlyComplete`: restic's
  success means the whole snapshot, and both processes have ended before the
  chain's end is looked at (`RestoreInv`).
* **MetricsProofs**.  A sum is the cardinality of a set of pairs, so what a sum over
  one more key is follows from the theorems about finite sets (`TotalAdds`, `TotalGrows`),
  without an induction.  `Sums` rests on `SumInv`: up to the cursor,
  each count lies between what was there all the time and what was there at some
  time; and since a key belongs to one directory, the paths share out what the
  bucket has.  `MetricsImplementsS3Stats` and `SumsOfRun` carry this over to the runs.
  `QueueInv` says which pairs may be waiting at each step of a run, `GaugeInv` that
  the fields set so far have the numbers of the first pair, so that a pair that is
  done is what the gauges of its series say (`PairIsSet`).  `Fresh` then needs
  `FreshInv`: an announced collection has no success, which only its last step gives
  back.  `Agrees` needs `InfluxInv`: the newest point of a series agrees with its gauges
  unless it got lost, the next pair is on its way, or a phase has been announced,
  the one datum that is not published (`Unpublished`); after a panic nothing would
  follow, and the series counts as lost.

Every invariant and every action property that a run checks is proved.  `TypeOK` of
`ResticBackup` and of `CronLoop` and `SuccessIsComplete` are proved and in no run: the
last follows from `KeepsCall`.  Only
model-checked are the liveness properties (`CallersReturn`, `AutoReactivated`,
`BackupReturns`, `ScriptIsReaped`, `ScheduleFollowsFile`, `CommandsReturn`,
`SharedLocksGo`, `ClientExits`, `HookReturns`): fairness and ENABLED are beyond the proof
system.  Of some of them the part that is a safety property is proved: a goroutine
that will turn backups on again is left (`NoLostReactivation`), nobody in a backup
waits in vain (`NobodyWaitsInVain`), no change of the schedule is lost
(`NoUpdateIsLost`).

## 5. What is not modelled

* `NewFromEnv` of restic, S3 and metrics, `initServer`, `labelsFromEnv`,
  `checkRequiredEnv` and most of `initEnv`: they read the environment once, before
  anything is concurrent, and end the process or give a value that is a constant
  here.  Authentication (a choice in `TurnAway`), status requests, the lookup of
  scripts (a choice in `SkipHook`).
* The command lines of restic and the decoding of its answers; commands that
  only print (`snapshots`, `env`, `version`) or hand their arguments to restic, but
  for `mcs-backup restic forget` (`OperatorForget`).
* Lines of restic that are longer than the scanner's 64 kB: `Backup` would stop
  reading and wait for a restic that may wait for its reader.  In scripts such lines
  are modelled (`ReadTooLong`); restic prints none of that length unless its paths are.
* Loki, to which log lines are sent beside the output: nothing reads it back.
* What a write to a response does whose handler has returned: that there may be
  one is in `ApiOutput` (`output` of a request that has met another), its effect is
  undefined.
* Data races: `backupEnabled`, the log output and the flush functions
  are accessed without synchronisation.  The models take each access as
  one step and interleave them; values that no access has written are left out.
* Durations of maintenance windows that are zero, negative or do not parse.
* The integration tests and deployments (`test/`): a harness around the binary,
  read as evidence of what the program is expected to do.

## 6. Plan

All modules of the plan are written: `BackupRun` with its contract,
`Maintenance`, `ResticBackup`, `CronLoop`, `AutoUnlock`, then the compositions
`RunLocks` on `AutoUnlock`, `BackupCall` above `ResticBackup`, `Client` on `ApiOutput`, `Restore` on `HookRun` and
`Metrics` on `S3Stats`, and their proofs.  What would come next:

1. A composition of `BackupRun` and `ApiOutput`: which lines of a run reach which
   response, when a run is served to a client that did not start it.
2. A composition of `HookRun` with `BackupRun`, in place of hooks that succeed or
   fail: the lock during a hook that hangs.
3. The safety part of more liveness properties as theorems: a measure that every
   step of a run, a command or a client lowers and no other step raises.

New runs take the place of those that ask least; the claims that fail and are run
by hand lie ready.
