------------------------------- MODULE Client -------------------------------
(***************************************************************************)
(* `mcs-backup backup` of cmd/mcs-backup/cmd_backup.go and rpc.go: clients *)
(* that ask the service of ApiOutput for a backup, follow the log that is  *)
(* streamed back and derive their exit code from it.  A client sees        *)
(* nothing of the run but the lines of its response.                       *)
(*                                                                         *)
(* Abstracted: the lines of the log, which the client prints, and the      *)
(* options that configure the service, whose answer is printed as it is.   *)
(***************************************************************************)
EXTENDS ApiOutput

VARIABLE cli    \* cli[w]: where the client of request w stands, or how it ended

clientVars == <<vars, cli>>

ClientInit == Init /\ cli = [w \in Requests |-> "probe"]

Proceed(w, s) == cli' = [cli EXCEPT ![w] = s]

-----------------------------------------------------------------------------
(* backupFunc: /healthz has to be answered within 5 ms. *)
ServiceFound(w) == cli[w] = "probe" /\ Proceed(w, "stream") /\ UNCHANGED vars
ServiceNotFound(w) == cli[w] = "probe" /\ Proceed(w, "exit1") /\ UNCHANGED vars

(* The request is not answered at all: ezStream returns the error of Do. *)
RequestFails(w) ==
    /\ cli[w] = "stream" /\ pc[w] = "new"
    /\ Proceed(w, "exit1")
    /\ UNCHANGED vars

(* The service answers. *)
Arrive(w) == cli[w] = "stream" /\ (TurnAway(w) \/ ReadOutput(w)) /\ UNCHANGED cli

(* ezStream has met the line that tells of an error. *)
StreamTellsError(w) ==
    /\ cli[w] = "stream" /\ pc[w] = "ended" /\ result[w] # "aborted"
    /\ w \in sent /\ result[w] # "unreadable"
    /\ Proceed(w, "exit1")
    /\ UNCHANGED vars

(* The end of the stream.  The line is looked for as one line, and neither *)
(* the status of the response nor the error of the scanner is looked at.   *)
StreamEnds(w) ==
    /\ cli[w] = "stream" /\ pc[w] = "ended" /\ result[w] # "aborted"
    /\ w \notin sent \/ result[w] = "unreadable"
    /\ Proceed(w, "exit0")
    /\ UNCHANGED vars

(* The connection breaks: before the response has begun, or in it. *)
StreamBreaks(w) ==
    /\ cli[w] = "stream" /\ result[w] = "aborted" /\ pc[w] = "ended"
    /\ \E s \in {"exit0", "exit1"} : Proceed(w, s)
    /\ UNCHANGED vars

(* The scanner stops at a line of more than 64 kB, and ezStream returns nil *)
(* whatever the run still does: the client ends with exit code 0.          *)
StreamTooLong(w) ==
    /\ cli[w] = "stream" /\ pc[w] # "new" /\ result[w] # "forbidden"
    /\ Proceed(w, "cut")
    /\ UNCHANGED vars

ClientStep(w) ==
    \/ ServiceFound(w) \/ ServiceNotFound(w) \/ RequestFails(w)
    \/ StreamTellsError(w) \/ StreamEnds(w) \/ StreamBreaks(w)

ServiceStep ==
    \/ \E w \in Requests : Handle(w)
    \/ CronBegins \/ Run(Cron) \/ Restart

ClientNext ==
    \/ \E w \in Requests : ClientStep(w) \/ StreamTooLong(w) \/ Arrive(w)
    \/ ServiceStep /\ UNCHANGED cli

ClientSpec == ClientInit /\ [][ClientNext]_clientVars

(* Clients read, and handlers go on, except inside fullBackupRun once it   *)
(* has its lock: a run may hang in a hook, and then nobody ends it.        *)
ClientFairSpec ==
    /\ ClientSpec
    /\ \A w \in Requests :
          /\ WF_clientVars(Arrive(w) \/ ClientStep(w))
          /\ WF_clientVars((Prepare(w) \/ Lock(w) \/ Reject(w) \/ Deferred(w)) /\ UNCHANGED cli)

-----------------------------------------------------------------------------
(* Properties *)

ClientTypeOK ==
    /\ TypeOK
    /\ cli \in [Requests -> {"probe", "stream", "exit0", "exit1", "cut"}]

(* However runs overlap and share their log, the exit code is about the    *)
(* client's own run: an error has come from it, unless the service did not *)
(* answer to the end, and is never the one of somebody else's run; and a   *)
(* run that another one has kept out, or that has failed with an error on  *)
(* one line, is not taken for a success by a client that reads to the end  *)
(* of the stream, unless that line was torn.  (A client that stops at an   *)
(* over-long line, "cut", ends with 0 and knows nothing.)                  *)
VerdictIsOwn ==
    \A w \in Requests :
        /\ cli[w] = "exit1" => result[w] \in {"none", "rejected", "failed", "aborted"}
        /\ cli[w] = "exit0" => result[w] \notin {"rejected", "failed"} \/ w \in torn

(* Nothing but its own run keeps a client waiting: it comes to its end, or *)
(* its run is at work.  In particular the run of another request, or of    *)
(* the event loop, does not, even if that one hangs for ever.              *)
ClientExits ==
    \A w \in Requests :
        cli[w] = "stream" ~> cli[w] \in {"exit0", "exit1", "cut"} \/ w \in Locked

(* "should fail because backup is disabled" (test/tests/disable.go:47).    *)
(* The exit code is 0 when the service has skipped the backup, and also    *)
(* when restic has failed, with its message, which goes over several lines.*)
ExitTellsFailure ==
    \A w \in Requests : cli[w] = "exit0" => result[w] \notin {"skipped", "unreadable"}
=============================================================================
