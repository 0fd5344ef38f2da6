----------------------------- MODULE ApiOutput ------------------------------
(***************************************************************************)
(* The log output and the flush functions of cmd/mcs-backup/cmd_serve.go,  *)
(* which runBackup redirects to the response of its request while it calls *)
(* fullBackupRun and puts back with deferred calls.  They are globals of   *)
(* the process; the lock of fullBackupRun does not cover them, so that     *)
(* requests get at each other's redirection and at that of a cron run.     *)
(*                                                                         *)
(* A log line goes to the standard output and to every response in         *)
(* `output`, a sequence: io.MultiWriter nests.  What a write or a flush    *)
(* does to a response whose handler has returned is undefined, so it is    *)
(* enough to know that there may be one.                                   *)
(*                                                                         *)
(* Abstracted: what is logged, and the phases of a run but `restic         *)
(* backup`, which is given restic.FlushFunc as it is at its start.         *)
(***************************************************************************)
EXTENDS Naturals, Sequences, FiniteSets

CONSTANTS
    Requests,   \* POST requests to /api/mcs-backup, one response each
    Cron,       \* the event loop
    None,       \* func() {}
    Nil         \* a function variable that is nil

ASSUME NamesAssumption ==
    /\ Cron \notin Requests /\ None \notin Requests /\ Nil \notin Requests
    /\ None # Nil

Runners == Requests \cup {Cron}
Funcs == Requests \cup {None, Nil}   \* w stands for a function that flushes w

VARIABLES
    pc,         \* where a handler or the event loop stands
    result,     \* what came of a request's run
    output,     \* the responses log lines are copied to
    flush,      \* the variable flush
    flushFunc,  \* restic.FlushFunc
    orig,       \* orig[w]: the local variable of runBackup
    read,       \* read[w]: the value of flush runBackup is about to assign
    captured,   \* captured[p]: FlushFunc in the copy of restic Backup works on
    sent,       \* the responses the line <<<< ERROR ... >>>> was written to
    torn,       \* those in which it got mixed up with another line
    (* what the properties remember *)
    met         \* two runners have been at work at the same time

vars == <<pc, result, output, flush, flushFunc, orig, read, captured, sent, torn, met>>

Elements(s) == {s[i] : i \in 1 .. Len(s)}

(* fullBackupRun holds the lock in these; a handler is inside runBackup    *)
(* between its first and its last state.                                   *)
Locked == {p \in Runners : pc[p] \in {"running", "restic"}}
Idle == {"new", "ended", "idle"}
Inside == {p \in Runners : pc[p] \notin Idle}

Init ==
    /\ pc = [p \in Runners |-> IF p = Cron THEN "idle" ELSE "new"]
    /\ result = [w \in Requests |-> "none"]
    /\ sent = {} /\ torn = {}
    /\ output = <<>> /\ flush = None /\ flushFunc = None
    /\ orig = [w \in Requests |-> <<>>]
    /\ read = [w \in Requests |-> None]
    /\ captured = [p \in Runners |-> None]
    /\ met = FALSE

(* p goes on to s; the runners that are at work then have met. *)
MoveTo(p, s) ==
    /\ pc' = [pc EXCEPT ![p] = s]
    /\ met' = (met \/ (s \notin Idle /\ Inside \ {p} # {}))

globals == <<output, flush, flushFunc>>
locals == <<orig, read, captured>>
answer == <<sent, torn>>

-----------------------------------------------------------------------------
(* runBackup up to the call of fullBackupRun *)

(* The handler turns the request away, 400 or 403. *)
TurnAway(w) ==
    /\ pc[w] = "new"
    /\ MoveTo(w, "ended")
    /\ result' = [result EXCEPT ![w] = "forbidden"]
    /\ UNCHANGED <<globals, locals, answer>>

ReadOutput(w) ==
    /\ pc[w] = "new"
    /\ MoveTo(w, "redirect")
    /\ orig' = [orig EXCEPT ![w] = output]
    /\ UNCHANGED <<result, globals, read, captured, answer>>

Redirect(w) ==
    /\ pc[w] = "redirect"
    /\ MoveTo(w, "setflush")
    /\ output' = Append(orig[w], w)
    /\ UNCHANGED <<result, flush, flushFunc, locals, answer>>

SetFlush(w) ==
    /\ pc[w] = "setflush"
    /\ MoveTo(w, "readflush")
    /\ flush' = w
    /\ UNCHANGED <<result, output, flushFunc, locals, answer>>

(* restic.FlushFunc = flush reads one global and writes another. *)
ReadFlush(w, from, to) ==
    /\ pc[w] = from
    /\ MoveTo(w, to)
    /\ read' = [read EXCEPT ![w] = flush]
    /\ UNCHANGED <<result, globals, orig, captured, answer>>

(* Mutation: only the first of the two deferred functions is left. *)
SetFlushFuncMut(w, from, to) ==
    /\ pc[w] = from
    /\ MoveTo(w, to)
    /\ flushFunc' = IF from = "refunc" THEN flushFunc ELSE read[w]
    /\ read' = [read EXCEPT ![w] = None]
    /\ UNCHANGED <<result, output, flush, orig, captured, answer>>

SetFlushFunc(w, from, to) ==
    /\ pc[w] = from
    /\ MoveTo(w, to)
    /\ flushFunc' = read[w]
    /\ read' = [read EXCEPT ![w] = None]
    /\ UNCHANGED <<result, output, flush, orig, captured, answer>>

-----------------------------------------------------------------------------
(* fullBackupRun *)

CronBegins ==
    /\ pc[Cron] = "idle"
    /\ MoveTo(Cron, "call")
    /\ UNCHANGED <<result, globals, locals, answer>>

(* Mutation: fullBackupRun itself leads to the verdict, in the event loop  *)
(* as well.                                                                *)
ReturnMut(p, r) ==
    /\ MoveTo(p, IF r \in {"rejected", "failed", "unreadable"} THEN "verdict"
                 ELSE IF p = Cron THEN "idle" ELSE "reset")
    /\ result' = [w \in Requests |-> IF w = p THEN r ELSE result[w]]
    /\ captured' = [captured EXCEPT ![p] = None]
    /\ UNCHANGED <<globals, orig, read, answer>>

(* Where fullBackupRun returns to, with an error or without one; a caller  *)
(* that is the event loop only logs the error.                             *)
Return(p, r) ==
    /\ MoveTo(p, IF p = Cron THEN "idle"
                 ELSE IF r \in {"rejected", "failed", "unreadable"} THEN "verdict"
                 ELSE "reset")
    /\ result' = [w \in Requests |-> IF w = p THEN r ELSE result[w]]
    /\ captured' = [captured EXCEPT ![p] = None]
    /\ UNCHANGED <<globals, orig, read, answer>>

(* Mutation: Lock in place of TryLock, a caller that comes late waits. *)
RejectMut(p) == pc[p] = "call" /\ Locked # {} /\ UNCHANGED vars

(* Backups are disabled, or another run has the lock. *)
Skip(p) == pc[p] = "call" /\ Return(p, "skipped")
Reject(p) == pc[p] = "call" /\ Locked # {} /\ Return(p, "rejected")

Lock(p) ==
    /\ pc[p] = "call"
    /\ Locked = {}
    /\ MoveTo(p, "running")
    /\ UNCHANGED <<result, globals, locals, answer>>

(* The value receiver of Restic.Backup. *)
StartRestic(p) ==
    /\ pc[p] = "running"
    /\ MoveTo(p, "restic")
    /\ captured' = [captured EXCEPT ![p] = flushFunc]
    /\ UNCHANGED <<result, globals, orig, read, answer>>

(* printReport has called FlushFunc at least once.  The error message of   *)
(* restic that Backup returns goes over several lines, the ones of all     *)
(* other phases are quoted and stay on one.                                *)
Finish(p) ==
    /\ \/ pc[p] = "running"
       \/ pc[p] = "restic" /\ captured[p] # Nil
    /\ \E r \in {"ok", "failed", "unreadable"} : Return(p, r)

(* Calling a nil function panics, and so does a run that finds fewer       *)
(* snapshots than it expects.  net/http recovers in a handler, whose       *)
(* deferred calls are run and whose connection is closed.                  *)
Panic(w) ==
    /\ pc[w] \in {"running", "restic"}
    /\ MoveTo(w, "reset")
    /\ result' = [result EXCEPT ![w] = "aborted"]
    /\ captured' = [captured EXCEPT ![w] = None]
    /\ UNCHANGED <<globals, orig, read, answer>>

(* The process ends, because the event loop panics or for another reason,  *)
(* and is started again.                                                   *)
Restart ==
    /\ pc' = [p \in Runners |-> IF p \in Requests /\ p \in Inside THEN "ended"
                                ELSE IF p = Cron THEN "idle" ELSE pc[p]]
    /\ result' = [w \in Requests |-> IF w \in Inside THEN "aborted" ELSE result[w]]
    /\ output' = <<>> /\ flush' = None /\ flushFunc' = None
    /\ orig' = [w \in Requests |-> <<>>]
    /\ read' = [w \in Requests |-> None]
    /\ captured' = [p \in Runners |-> None]
    /\ met' = FALSE
    /\ UNCHANGED answer

-----------------------------------------------------------------------------
(* The rest of runBackup *)

(* Mutation: the verdict is logged, like everything else. *)
WriteVerdictMut(w) ==
    /\ pc[w] = "verdict"
    /\ MoveTo(w, "reset")
    /\ sent' = sent \cup Elements(output)
    /\ UNCHANGED <<result, globals, locals, torn>>

(* w.Write does not take the mutex of the log.  As long as log lines are   *)
(* copied to this response, some goroutine may be writing one to it.       *)
WriteVerdict(w) ==
    /\ pc[w] = "verdict"
    /\ MoveTo(w, "reset")
    /\ \/ sent' = sent \cup {w} /\ UNCHANGED torn
       \/ w \in Elements(output) /\ torn' = torn \cup {w} /\ UNCHANGED sent
    /\ UNCHANGED <<result, globals, locals>>

ResetFlush(w, from, to) ==
    /\ pc[w] = from
    /\ MoveTo(w, to)
    /\ flush' = None
    /\ UNCHANGED <<result, output, flushFunc, locals, answer>>

ClearFlushFunc(w) ==
    /\ pc[w] = "clear"
    /\ MoveTo(w, "reset2")
    /\ flushFunc' = Nil
    /\ UNCHANGED <<result, output, flush, locals, answer>>

(* Mutation: what was added is taken out again, whatever came after it. *)
RestoreOutputMut(w) ==
    /\ pc[w] = "restore"
    /\ MoveTo(w, "ended")
    /\ orig' = [orig EXCEPT ![w] = <<>>]
    /\ UNCHANGED <<result, globals, read, captured, answer>>

RestoreOutput(w) ==
    /\ pc[w] = "restore"
    /\ MoveTo(w, "ended")
    /\ output' = orig[w]
    /\ orig' = [orig EXCEPT ![w] = <<>>]
    /\ UNCHANGED <<result, flush, flushFunc, read, captured, answer>>

Prepare(w) ==
    \/ Redirect(w) \/ SetFlush(w)
    \/ ReadFlush(w, "readflush", "setfunc") \/ SetFlushFunc(w, "setfunc", "call")

(* The deferred calls, last one first. *)
Deferred(w) ==
    \/ WriteVerdict(w)
    \/ ResetFlush(w, "reset", "clear") \/ ClearFlushFunc(w)
    \/ ResetFlush(w, "reset2", "reread")
    \/ ReadFlush(w, "reread", "refunc") \/ SetFlushFunc(w, "refunc", "restore")
    \/ RestoreOutput(w)

Run(p) == Skip(p) \/ Reject(p) \/ Lock(p) \/ StartRestic(p) \/ Finish(p)

Handle(w) == Prepare(w) \/ Run(w) \/ Panic(w) \/ Deferred(w)

Next ==
    \/ \E w \in Requests : TurnAway(w) \/ ReadOutput(w) \/ Handle(w)
    \/ CronBegins \/ Run(Cron)
    \/ Restart

Spec == Init /\ [][Next]_vars

-----------------------------------------------------------------------------
(* Properties *)

States == {"new", "redirect", "setflush", "readflush", "setfunc", "call", "running",
           "restic", "verdict", "reset", "clear", "reset2", "reread", "refunc",
           "restore", "ended", "idle"}
Results == {"none", "forbidden", "ok", "skipped", "rejected", "failed",
            "unreadable", "aborted"}

TypeOK ==
    /\ pc \in [Runners -> States]
    /\ pc[Cron] \in {"idle", "call", "running", "restic"}
    /\ result \in [Requests -> Results]
    /\ output \in Seq(Requests) /\ orig \in [Requests -> Seq(Requests)]
    /\ flush \in Funcs /\ flushFunc \in Funcs
    /\ read \in [Requests -> Funcs] /\ captured \in [Runners -> Funcs]
    /\ sent \subseteq Requests /\ torn \subseteq Requests
    /\ met \in BOOLEAN

(* As long as no two runners have met, the log of a run goes to the        *)
(* response that is waiting for it and to no other, what restic reports is *)
(* flushed there, and when nobody is at work everything is as it was.      *)
AloneIsClean ==
    ~met =>
        /\ Inside = {} => output = <<>> /\ flush = None /\ flushFunc = None
        /\ \A p \in Locked :
              LET f == IF p = Cron THEN None ELSE p
              IN  /\ output = IF p = Cron THEN <<>> ELSE <<p>>
                  /\ flush = f
                  /\ pc[p] = "restic" => captured[p] = f

(* However requests overlap, the variable flush never names a response     *)
(* whose handler has reset it, so that a phase that reads it may get the   *)
(* wrong response but not one that is gone (what it has read it may call a *)
(* little later); and restic.FlushFunc is nil only while some request is   *)
(* in its deferred calls: a run that starts restic at any other moment     *)
(* does not panic in printReport.                                          *)
FlushFunctionsAreLive ==
    /\ flush \in Requests =>
          pc[flush] \notin {"new", "clear", "reset2", "reread", "refunc", "restore", "ended"}
    /\ flushFunc = Nil => \E w \in Requests : pc[w] \in {"reset2", "reread", "refunc"}
=============================================================================
