------------------------------ MODULE HookRun -------------------------------
(***************************************************************************)
(* hookT.Run of cmd/mcs-backup/hooks.go: the caller starts a script, reads *)
(* its standard output line by line through a pipe, logs the lines, and    *)
(* waits for the process.  bufio.Scanner stops at a line that does not fit *)
(* its buffer, without the caller noticing; the pipe then fills up.        *)
(* cmd.Wait also waits for the goroutine that collects the standard error, *)
(* until nobody holds the other end any more.  What the script has left    *)
(* running in the background is waited for only through the outputs it     *)
(* still has: a process whose outputs were redirected is not.              *)
(*                                                                         *)
(* Abstracted: the text of the lines.                                      *)
(***************************************************************************)
EXTENDS Naturals, Sequences

CONSTANTS
    PipeCap,    \* lines the pipe takes before a writer has to wait
    MaxLines    \* bound on the lines a script writes

ASSUME PipeAssumption == PipeCap \in Nat \ {0} /\ MaxLines \in Nat

VARIABLES
    hook,     \* where the caller stands in Run
    script,   \* the process of the script
    todo,     \* the lines it is still going to write
    background,  \* the processes it has left behind, each the set of the
                 \* outputs of the script that it still holds
    pipe,     \* lines on their way to the scanner
    (* what the properties remember *)
    unread,   \* lines written and not logged
    tooLong   \* a line was too long for the scanner

hookVars == <<hook, script, todo, background, pipe, unread, tooLong>>

Returned == {"ok", "failed"}
Outputs == {"stdout", "stderr"}

HookInit ==
    /\ hook = "idle" /\ script = "none"
    /\ todo = 0 /\ background = {}
    /\ pipe = <<>> /\ unread = 0 /\ tooLong = FALSE

-----------------------------------------------------------------------------
(* The caller *)

(* There is no such hook, or it cannot be executed. *)
SkipHook ==
    /\ hook = "idle"
    /\ hook' \in Returned
    /\ script' = "none" /\ todo' = 0 /\ background' = {}
    /\ pipe' = <<>> /\ unread' = 0 /\ tooLong' = FALSE

StartHook ==
    /\ hook = "idle"
    /\ hook' = "reading" /\ script' = "running"
    /\ todo' \in 0 .. MaxLines
    /\ background' = {} /\ pipe' = <<>> /\ unread' = 0 /\ tooLong' = FALSE

(* Mutation: the line is handed out and stays in the buffer. *)
ReadLineMut ==
    /\ hook = "reading"
    /\ pipe # <<>> /\ Head(pipe) = "line"
    /\ unread' = unread - 1
    /\ UNCHANGED <<hook, script, todo, background, pipe, tooLong>>

(* Mutation: the output is read when the script has ended. *)
ReadLateMut ==
    /\ hook = "reading"
    /\ script # "running"
    /\ pipe # <<>> /\ Head(pipe) = "line"
    /\ pipe' = Tail(pipe) /\ unread' = unread - 1
    /\ UNCHANGED <<hook, script, todo, background, tooLong>>

ReadLine ==
    /\ hook = "reading"
    /\ pipe # <<>> /\ Head(pipe) = "line"
    /\ pipe' = Tail(pipe) /\ unread' = unread - 1
    /\ UNCHANGED <<hook, script, todo, background, tooLong>>

(* Scan returns false and its error is not looked at. *)
ReadTooLong ==
    /\ hook = "reading"
    /\ pipe # <<>> /\ Head(pipe) = "long"
    /\ hook' = "waiting"
    /\ pipe' = Tail(pipe) /\ tooLong' = TRUE
    /\ UNCHANGED <<script, todo, background, unread>>

(* Nobody can write to this output any more. *)
Closed(o) == script # "running" /\ \A p \in background : o \notin p

ReadEnd ==
    /\ hook = "reading"
    /\ pipe = <<>> /\ Closed("stdout")
    /\ hook' = "waiting"
    /\ UNCHANGED <<script, todo, background, pipe, unread, tooLong>>

(* Mutation: Wait does not wait, and takes a script that goes on for good. *)
WaitMut ==
    /\ hook = "waiting"
    /\ hook' = IF script = "exited1" THEN "failed" ELSE "ok"
    /\ UNCHANGED <<script, todo, background, pipe, unread, tooLong>>

Wait ==
    /\ hook = "waiting"
    /\ Closed("stderr")
    /\ hook' = IF script = "exited0" THEN "ok" ELSE "failed"
    /\ UNCHANGED <<script, todo, background, pipe, unread, tooLong>>

HookStep == ReadLine \/ ReadTooLong \/ ReadEnd \/ Wait

-----------------------------------------------------------------------------
(* The script and its children; a write to a pipe that is full blocks, and *)
(* one to a pipe that cmd.Wait has closed does not arrive anywhere.        *)

WriteLine ==
    /\ ~Closed("stdout") /\ todo > 0
    /\ hook \in {"reading", "waiting"}
    /\ Len(pipe) < PipeCap
    /\ \E l \in {"line", "long"} : pipe' = Append(pipe, l)
    /\ todo' = todo - 1 /\ unread' = unread + 1
    /\ UNCHANGED <<hook, script, background, tooLong>>

(* `cmd &`, with the outputs of the script or with others *)
Fork ==
    /\ script = "running"
    /\ \E p \in SUBSET Outputs : background' = background \cup {p}
    /\ UNCHANGED <<hook, script, todo, pipe, unread, tooLong>>

(* Lines not yet written are left to a child. *)
Exit ==
    /\ script = "running"
    /\ todo = 0 \/ \E p \in background : "stdout" \in p
    /\ script' \in {"exited0", "exited1"}
    /\ UNCHANGED <<hook, todo, background, pipe, unread, tooLong>>

ChildExits ==
    /\ \E p \in background : background' = background \ {p}
    /\ UNCHANGED <<hook, script, todo, pipe, unread, tooLong>>

ScriptStep == WriteLine \/ Exit

HookNext == HookStep \/ ScriptStep \/ Fork \/ ChildExits

-----------------------------------------------------------------------------
(* Properties *)

HookTypeOK ==
    /\ hook \in {"idle", "reading", "waiting"} \cup Returned
    /\ script \in {"none", "running", "exited0", "exited1"}
    /\ todo \in 0 .. MaxLines /\ unread \in 0 .. MaxLines
    /\ background \subseteq SUBSET Outputs /\ tooLong \in BOOLEAN
    /\ pipe \in Seq({"line", "long"}) /\ Len(pipe) <= PipeCap

(* When Run has returned, the script has ended, nobody can write to its    *)
(* standard error any more, and every line of its standard output has been *)
(* logged and no more can come, unless one of them was too long.  A child  *)
(* whose outputs were redirected may run on: Run does not know of it.      *)
HookIsOver ==
    hook \in Returned =>
        /\ Closed("stderr")
        /\ tooLong \/ (unread = 0 /\ Closed("stdout"))

(* Run always returns, whatever the script writes in which portions, if no *)
(* line is too long for the scanner and no child keeps an output open.  In *)
(* these two cases it may never return, and a backup that waits for it     *)
(* keeps the lock and turns all others away.                               *)
HookReturns ==
    hook \in {"reading", "waiting"} ~>
        hook \in Returned \/ tooLong \/ \E p \in background : p # {}
=============================================================================
