----------------------------- MODULE BackupCall -----------------------------
(***************************************************************************)
(* What Restic.Backup (internal/restic/backup.go) is to its caller: a call *)
(* that ends once, with a result and with a snapshot or without one.       *)
(* This is how the phase backup of BackupRun sees it; ResticBackup, with   *)
(* its goroutines and processes, implements it.                            *)
(***************************************************************************)
CONSTANT Calls

VARIABLES
    result,   \* result[c]: "none", "busy", or how the call has returned
    left      \* left[c]: the snapshot a call that has returned has left

callVars == <<result, left>>

Snapshots == {"none", "whole", "partial"}

Init ==
    /\ result = [c \in Calls |-> "none"]
    /\ left = [c \in Calls |-> "none"]

Begin(c) ==
    /\ result[c] = "none"
    /\ \A d \in Calls : result[d] # "busy"
    /\ result' = [result EXCEPT ![c] = "busy"]
    /\ UNCHANGED left

Return(c, r, s) ==
    /\ result[c] = "busy"
    /\ result' = [result EXCEPT ![c] = r]
    /\ left' = [left EXCEPT ![c] = s]

Succeed(c) == Return(c, "ok", "whole")
Empty(c) == Return(c, "empty", "none")

(* Nothing is left, or what could not be taken back. *)
Fail(c) == \E s \in Snapshots : Return(c, "error", s)

(* The call gives up on a line it does not understand, or its report       *)
(* panics; restic goes on.                                                 *)
GiveUp(c) == \E s \in Snapshots : Return(c, "odd", s) \/ Return(c, "panic", s)
LateSnapshot(c) ==
    /\ result[c] \in {"odd", "panic"} /\ left[c] = "none"
    /\ left' \in {[left EXCEPT ![c] = "whole"], [left EXCEPT ![c] = "partial"]}
    /\ UNCHANGED result

Next ==
    \E c \in Calls :
        Begin(c) \/ Succeed(c) \/ Empty(c) \/ Fail(c) \/ GiveUp(c) \/ LateSnapshot(c)

Spec == Init /\ [][Next]_callVars
=============================================================================
