---------------------------- MODULE ResticBackup ----------------------------
(***************************************************************************)
(* Restic.Backup of internal/restic/backup.go from the inside: the caller, *)
(* the goroutine that waits for the pipe-in script, and the two processes  *)
(* they start and connect, `script | restic backup --stdin`.               *)
(*                                                                         *)
(* BackupRun takes this function as one step; here are its threads.  The   *)
(* calls follow one another because fullBackupRun holds its lock.          *)
(*                                                                         *)
(* Abstracted: restic's status lines, stderr texts, the arguments of the   *)
(* commands.  restic and the script are external.                          *)
(***************************************************************************)
EXTENDS Sequences

CONSTANTS
    Calls,      \* calls of Backup
    Piped,      \* those with a pipeCommand
    OddLines    \* restic may print a line that is not JSON

ASSUME ModeAssumption == Piped \subseteq Calls /\ OddLines \in BOOLEAN

VARIABLES
    main,       \* main[c]: where the call stands, or how it returned
    waiter,     \* waiter[c]: the goroutine that waits for the script
    dump,       \* dump[c]: the script's process
    restic,     \* restic[c]: restic's process
    writeEnd,   \* writeEnd[c]: this process holds pipeWriter open
    readEnd,    \* readEnd[c]: this process holds pipeReader open
    out,        \* out[c]: lines in restic's stdout
    id,         \* id[c]: the local snapshotID is set
    snap,       \* snap[c]: the snapshot in the repository, if any
    pipeError,  \* pipeError[c]: the buffered channel of that name
    pipeMsg,    \* pipeMsg[c]: likewise
    undone      \* undone[c]: what became of r.Forget(snapshotID)

procVars == <<dump, restic, out, snap>>
pipeVars == <<writeEnd, readEnd>>
chanVars == <<pipeError, pipeMsg>>
vars == <<main, waiter, procVars, pipeVars, id, chanVars, undone>>

(* How a call ends.  "odd": json.Unmarshal failed; "error": any other      *)
(* error; "panic": printReport has called a FlushFunc that is nil.         *)
Returned == {"ok", "empty", "error", "odd", "panic"}
Abandoned == {"odd", "panic"}
Mains    == {"idle", "pipe", "start", "scan", "wait", "undo", "pipeError",
             "emptyPipeError", "undoPipe", "pipeMsg"} \cup Returned
Waiters  == {"none", "waiting", "message", "close", "report", "done"}
Dumps    == {"none", "running", "done", "failed"}
Alive    == {"running", "saved", "told"}
Exited   == {"ok", "empty", "failed"}

Set(f, c, x) == [f EXCEPT ![c] = x]

Init ==
    /\ main = [c \in Calls |-> "idle"]
    /\ waiter = [c \in Calls |-> "none"]
    /\ dump = [c \in Calls |-> "none"]
    /\ restic = [c \in Calls |-> "none"]
    /\ writeEnd = [c \in Calls |-> FALSE]
    /\ readEnd = [c \in Calls |-> FALSE]
    /\ out = [c \in Calls |-> <<>>]
    /\ id = [c \in Calls |-> FALSE]
    /\ snap = [c \in Calls |-> "none"]
    /\ pipeError = [c \in Calls |-> "empty"]
    /\ pipeMsg = [c \in Calls |-> "empty"]
    /\ undone = [c \in Calls |-> "no"]

-----------------------------------------------------------------------------
(* The caller *)

(* Without a script nil is put into pipeError right away. *)
Enter(c) ==
    /\ main[c] = "idle"
    /\ \A d \in Calls : main[d] \in Returned \cup {"idle"}
    /\ main' = Set(main, c, IF c \in Piped THEN "pipe" ELSE "start")
    /\ pipeError' = Set(pipeError, c, IF c \in Piped THEN "empty" ELSE "nil")
    /\ UNCHANGED <<waiter, procVars, pipeVars, id, pipeMsg, undone>>

(* os.Pipe, pipeCmd.Start and the go statement *)
StartPipe(c) ==
    /\ main[c] = "pipe"
    /\ writeEnd' = Set(writeEnd, c, TRUE)
    /\ readEnd' = Set(readEnd, c, TRUE)
    /\ \/ /\ dump' = Set(dump, c, "running")
          /\ waiter' = Set(waiter, c, "waiting")
          /\ main' = Set(main, c, "start")
       \/ /\ main' = Set(main, c, "error")
          /\ UNCHANGED <<dump, waiter>>
    /\ UNCHANGED <<restic, out, id, snap, chanVars, undone>>

(* cmd.Start *)
StartRestic(c) ==
    /\ main[c] = "start"
    /\ \/ /\ restic' = Set(restic, c, "running")
          /\ main' = Set(main, c, "scan")
       \/ /\ main' = Set(main, c, "error")
          /\ UNCHANGED restic
    /\ UNCHANGED <<waiter, dump, out, snap, pipeVars, id, chanVars, undone>>

(* A line that is not JSON makes Backup return at once. *)
ScanLine(c) ==
    /\ main[c] = "scan"
    /\ out[c] # <<>>
    /\ out' = Set(out, c, Tail(out[c]))
    /\ IF Head(out[c]) = "summary"
       THEN id' = Set(id, c, TRUE) /\ UNCHANGED main
       ELSE main' = Set(main, c, "odd") /\ UNCHANGED id
    /\ UNCHANGED <<waiter, dump, restic, snap, pipeVars, chanVars, undone>>

(* Mutation: the end of a failed scan is taken for the end of restic. *)
ScanEndMut(c) ==
    /\ main[c] = "scan"
    /\ out[c] = <<>>
    /\ main' = Set(main, c, "wait")
    /\ UNCHANGED <<waiter, procVars, pipeVars, id, chanVars, undone>>

ScanEnd(c) ==
    /\ main[c] = "scan"
    /\ out[c] = <<>>
    /\ restic[c] \in Exited
    /\ main' = Set(main, c, "wait")
    /\ UNCHANGED <<waiter, procVars, pipeVars, id, chanVars, undone>>

(* printReport, after a status line or after the last one, calls the       *)
(* FlushFunc this call was given; that is nil if another request was just  *)
(* giving it back (ApiOutput).  The handler of a request goes up and frees *)
(* the lock, restic is not waited for.  (In the event loop the panic ends  *)
(* the server; BackupRun has that.)                                        *)
ReportPanics(c) ==
    /\ main[c] = "scan"
    /\ main' = Set(main, c, "panic")
    /\ UNCHANGED <<waiter, procVars, pipeVars, id, chanVars, undone>>

(* cmd.Wait; "snapshot is empty" is the one failure that is forgiven. *)
WaitRestic(c) ==
    /\ main[c] = "wait"
    /\ main' = Set(main, c, IF restic[c] = "ok" THEN "pipeError"
                            ELSE IF restic[c] = "empty" THEN "emptyPipeError"
                            ELSE IF id[c] THEN "undo" ELSE "error")
    /\ UNCHANGED <<waiter, procVars, pipeVars, id, chanVars, undone>>

(* r.Forget(snapshotID), its result ignored. *)
Undo(c) ==
    /\ main[c] \in {"undo", "undoPipe"}
    /\ main' = Set(main, c, IF main[c] = "undo" THEN "error" ELSE "pipeMsg")
    /\ \/ snap' = Set(snap, c, "none") /\ undone' = Set(undone, c, "ok")
       \/ undone' = Set(undone, c, "failed") /\ UNCHANGED snap
    /\ UNCHANGED <<waiter, dump, restic, out, pipeVars, id, chanVars>>

(* Mutation: the script's fate is awaited but not looked at. *)
TakePipeErrorIgnoredMut(c) ==
    /\ main[c] \in {"pipeError", "emptyPipeError"}
    /\ pipeError[c] # "empty"
    /\ pipeError' = Set(pipeError, c, "empty")
    /\ main' = Set(main, c, IF main[c] = "pipeError" THEN "ok" ELSE "empty")
    /\ UNCHANGED <<waiter, procVars, pipeVars, id, pipeMsg, undone>>

(* Mutation: the snapshot of a failed script is kept. *)
TakePipeErrorKeepMut(c) ==
    /\ main[c] \in {"pipeError", "emptyPipeError"}
    /\ pipeError[c] # "empty"
    /\ pipeError' = Set(pipeError, c, "empty")
    /\ main' = Set(main, c, IF pipeError[c] = "err" THEN "pipeMsg"
                            ELSE IF main[c] = "pipeError" THEN "ok" ELSE "empty")
    /\ UNCHANGED <<waiter, procVars, pipeVars, id, pipeMsg, undone>>

(* err = <-pipeError *)
TakePipeError(c) ==
    /\ main[c] \in {"pipeError", "emptyPipeError"}
    /\ pipeError[c] # "empty"
    /\ pipeError' = Set(pipeError, c, "empty")
    /\ main' = Set(main, c, IF pipeError[c] = "err"
                            THEN IF id[c] THEN "undoPipe" ELSE "pipeMsg"
                            ELSE IF main[c] = "pipeError" THEN "ok" ELSE "empty")
    /\ UNCHANGED <<waiter, procVars, pipeVars, id, pipeMsg, undone>>

(* msg := <-pipeMsg *)
TakePipeMsg(c) ==
    /\ main[c] = "pipeMsg"
    /\ pipeMsg[c] # "empty"
    /\ pipeMsg' = Set(pipeMsg, c, "empty")
    /\ main' = Set(main, c, "error")
    /\ UNCHANGED <<waiter, procVars, pipeVars, id, pipeError, undone>>

-----------------------------------------------------------------------------
(* The goroutine that waits for the script *)

(* Mutation: what the script has written to stderr is only logged. *)
ScriptExitedMut(c) ==
    /\ waiter[c] = "waiting"
    /\ dump[c] \in {"done", "failed"}
    /\ waiter' = Set(waiter, c, "close")
    /\ UNCHANGED <<main, procVars, pipeVars, id, chanVars, undone>>

ScriptExited(c) ==
    /\ waiter[c] = "waiting"
    /\ dump[c] \in {"done", "failed"}
    /\ waiter' = Set(waiter, c, IF dump[c] = "failed" THEN "message" ELSE "close")
    /\ UNCHANGED <<main, procVars, pipeVars, id, chanVars, undone>>

(* Mutation: the message is sent without a buffer. *)
SendMessageMut(c) ==
    /\ waiter[c] = "message"
    /\ main[c] = "pipeMsg"
    /\ pipeMsg' = Set(pipeMsg, c, "text")
    /\ waiter' = Set(waiter, c, "close")
    /\ UNCHANGED <<main, procVars, pipeVars, id, pipeError, undone>>

(* The channels have room for one; a send to one that is full would wait. *)
SendMessage(c) ==
    /\ waiter[c] = "message"
    /\ pipeMsg[c] = "empty"
    /\ pipeMsg' = Set(pipeMsg, c, "text")
    /\ waiter' = Set(waiter, c, "close")
    /\ UNCHANGED <<main, procVars, pipeVars, id, pipeError, undone>>

(* Only now can restic see the end of its stdin. *)
CloseWriter(c) ==
    /\ waiter[c] = "close"
    /\ writeEnd' = Set(writeEnd, c, FALSE)
    /\ waiter' = Set(waiter, c, "report")
    /\ UNCHANGED <<main, procVars, readEnd, id, chanVars, undone>>

(* Mutation: the result is sent without a buffer. *)
SendErrorMut(c) ==
    /\ waiter[c] = "report"
    /\ main[c] \in {"pipeError", "emptyPipeError"}
    /\ pipeError' = Set(pipeError, c, IF dump[c] = "failed" THEN "err" ELSE "nil")
    /\ waiter' = Set(waiter, c, "done")
    /\ UNCHANGED <<main, procVars, pipeVars, id, pipeMsg, undone>>

SendError(c) ==
    /\ waiter[c] = "report"
    /\ pipeError[c] = "empty"
    /\ pipeError' = Set(pipeError, c, IF dump[c] = "failed" THEN "err" ELSE "nil")
    /\ waiter' = Set(waiter, c, "done")
    /\ UNCHANGED <<main, procVars, pipeVars, id, pipeMsg, undone>>

-----------------------------------------------------------------------------
(* The processes *)

(* The script can go on while somebody reads, or as long as the rest of    *)
(* its data fits into a pipe whose read end is still open somewhere.       *)
DumpEnds(c) ==
    /\ dump[c] = "running"
    /\ restic[c] \in Alive \/ readEnd[c]
    /\ dump' \in {Set(dump, c, "done"), Set(dump, c, "failed")}
    /\ UNCHANGED <<main, waiter, restic, out, snap, pipeVars, id, chanVars, undone>>

(* SIGPIPE *)
DumpBreaks(c) ==
    /\ dump[c] = "running"
    /\ restic[c] \notin Alive /\ ~readEnd[c]
    /\ dump' = Set(dump, c, "failed")
    /\ UNCHANGED <<main, waiter, restic, out, snap, pipeVars, id, chanVars, undone>>

(* Backup never closes pipeReader; the finalizer of os.File does, some     *)
(* time after Backup has returned.                                         *)
CollectReader(c) ==
    /\ main[c] \in Returned
    /\ readEnd[c]
    /\ readEnd' = Set(readEnd, c, FALSE)
    /\ UNCHANGED <<main, waiter, procVars, writeEnd, id, chanVars, undone>>

(* restic saves what it got: all there is to save only if the script has   *)
(* not failed and, without a script, if every file could be read.          *)
ResticSaves(c) ==
    /\ restic[c] = "running"
    /\ ~writeEnd[c] /\ dump[c] # "running"
    /\ restic' = Set(restic, c, "saved")
    /\ \/ dump[c] # "failed" /\ snap' = Set(snap, c, "whole")
       \/ /\ dump[c] = "failed" \/ c \notin Piped
          /\ snap' = Set(snap, c, "partial")
    /\ UNCHANGED <<main, waiter, dump, out, pipeVars, id, chanVars, undone>>

ResticPrints(c) ==
    \/ /\ restic[c] = "saved"
       /\ restic' = Set(restic, c, "told")
       /\ out' = Set(out, c, Append(out[c], "summary"))
       /\ UNCHANGED <<main, waiter, dump, snap, pipeVars, id, chanVars, undone>>
    \/ /\ OddLines
       /\ restic[c] = "running" /\ out[c] = <<>>
       /\ out' = Set(out, c, <<"odd">>)
       /\ UNCHANGED <<main, waiter, dump, restic, snap, pipeVars, id, chanVars, undone>>

(* restic fails or is killed at any time; a snapshot without the files it  *)
(* could not read is reported by the exit code as well.                    *)
ResticExits(c) ==
    /\ \/ restic[c] \in Alive /\ restic' = Set(restic, c, "failed")
       \/ restic[c] = "running" /\ c \notin Piped /\ restic' = Set(restic, c, "empty")
       \/ /\ restic[c] = "told"
          /\ snap[c] = "whole" \/ dump[c] = "failed"
          /\ restic' = Set(restic, c, "ok")
    /\ UNCHANGED <<main, waiter, dump, out, snap, pipeVars, id, chanVars, undone>>

-----------------------------------------------------------------------------

MainStep(c) ==
    \/ StartPipe(c) \/ StartRestic(c) \/ ScanLine(c) \/ ScanEnd(c)
    \/ WaitRestic(c) \/ Undo(c) \/ TakePipeError(c) \/ TakePipeMsg(c)

WaiterStep(c) == ScriptExited(c) \/ SendMessage(c) \/ CloseWriter(c) \/ SendError(c)

ResticStep(c) == ResticSaves(c) \/ ResticPrints(c) \/ ResticExits(c)

Next ==
    \E c \in Calls :
        \/ Enter(c) \/ MainStep(c) \/ ReportPanics(c) \/ WaiterStep(c)
        \/ DumpEnds(c) \/ DumpBreaks(c) \/ CollectReader(c) \/ ResticStep(c)

Spec == Init /\ [][Next]_vars

(* The scheduler runs goroutines that can run, the garbage collector runs  *)
(* from time to time (the runtime forces it), restic does not hang once    *)
(* its input has ended, and neither does a script that is being read.      *)
(* restic need not print odd lines, and need not fail; no report need      *)
(* panic.                                                                  *)
FairSpec ==
    /\ Spec
    /\ \A c \in Calls :
          /\ WF_vars(MainStep(c)) /\ WF_vars(WaiterStep(c))
          /\ WF_vars(CollectReader(c)) /\ WF_vars(DumpBreaks(c))
          /\ WF_vars(restic[c] \in Alive /\ DumpEnds(c))
          /\ WF_vars(ResticSaves(c))
          /\ WF_vars(restic[c] = "saved" /\ ResticPrints(c))
          /\ WF_vars(restic[c] = "told" /\ ResticExits(c))

-----------------------------------------------------------------------------
(* Properties *)

TypeOK ==
    /\ main \in [Calls -> Mains]
    /\ waiter \in [Calls -> Waiters]
    /\ dump \in [Calls -> Dumps]
    /\ restic \in [Calls -> {"none"} \cup Alive \cup Exited]
    /\ writeEnd \in [Calls -> BOOLEAN]
    /\ readEnd \in [Calls -> BOOLEAN]
    /\ out \in [Calls -> Seq({"odd", "summary"})]
    /\ id \in [Calls -> BOOLEAN]
    /\ snap \in [Calls -> {"none", "whole", "partial"}]
    /\ pipeError \in [Calls -> {"empty", "nil", "err"}]
    /\ pipeMsg \in [Calls -> {"empty", "text"}]
    /\ undone \in [Calls -> {"no", "ok", "failed"}]
    /\ \A c \in Calls \ Piped :
          main[c] # "pipe" /\ waiter[c] = "none" /\ dump[c] = "none"

(* A call that returns without an error and without SnapshotIsEmpty has    *)
(* left a complete snapshot behind and knows its ID.  restic alone cannot  *)
(* tell: for it a script that died is the end of its input.                *)
SuccessIsComplete ==
    \A c \in Calls : main[c] = "ok" => snap[c] = "whole" /\ id[c]

(* A call that waited for restic and returns an error leaves no snapshot   *)
(* behind that it has heard of, unless restic forget fails.                *)
FailureIsTakenBack ==
    \A c \in Calls :
        main[c] = "error" /\ id[c] /\ undone[c] # "failed" => snap[c] = "none"

BothAlive(c, d) == restic[c] \in Alive /\ restic[d] \in Alive

(* Two restic processes of two calls are never alive together, unless one  *)
(* of the calls has been abandoned: it gave up on a line that is not JSON, *)
(* or its report panicked.  No other way out of Backup leaves restic       *)
(* behind.                                                                 *)
OrphanOnlyOfAbandonedCall ==
    \A c, d \in Calls :
        BothAlive(c, d) => c = d \/ main[c] \in Abandoned \/ main[d] \in Abandoned

(* "only one backup process can run at a time" (cmd/mcs-backup/backup.go,  *)
(* line 23), without exception.  It fails: an abandoned call does not wait *)
(* for its restic, and fullBackupRun releases its lock all the same.       *)
OneBackupProcess == \A c, d \in Calls : BothAlive(c, d) => c = d

(* Who waits for another finds him able to go on: the goroutine never at   *)
(* a channel that is full, the caller never at one that nobody will fill,  *)
(* although a script that nobody reads from never ends; and while restic   *)
(* reads, somebody is there to close the write end.                        *)
NobodyWaitsInVain ==
    \A c \in Calls :
        /\ waiter[c] = "message" => pipeMsg[c] = "empty"
        /\ waiter[c] = "report" => pipeError[c] = "empty"
        /\ main[c] \in {"pipeError", "emptyPipeError"} =>
              pipeError[c] # "empty" \/ waiter[c] = "report"
        /\ main[c] = "pipeMsg" => pipeMsg[c] # "empty"
        /\ main[c] = "scan" /\ restic[c] = "running" /\ writeEnd[c] =>
              waiter[c] \in {"waiting", "message", "close"}

(* The phase backup sees a call as one that returns once, with a complete  *)
(* snapshot if it succeeds, with none if there was nothing to save, and    *)
(* what it has left then stays as it is, unless the call was abandoned: an *)
(* abandoned call may have left a snapshot, or get one later.              *)
resultOf == [c \in Calls |->
    IF main[c] = "idle" THEN "none" ELSE IF main[c] \in Returned THEN main[c] ELSE "busy"]
leftOf == [c \in Calls |-> IF main[c] \in Returned THEN snap[c] ELSE "none"]

Call == INSTANCE BackupCall WITH result <- resultOf, left <- leftOf

KeepsCall == Call!Spec

(* Every call comes to an end: the receives from pipeError and pipeMsg always find *)
(* a sender, and restic always sees the end of its input.                  *)
BackupReturns == \A c \in Calls : main[c] # "idle" ~> main[c] \in Returned

(* No goroutine and no script stays behind for ever, however Backup has    *)
(* returned.                                                               *)
ScriptIsReaped == \A c \in Calls : waiter[c] = "waiting" ~> waiter[c] = "done"
=============================================================================
