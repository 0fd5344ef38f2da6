--------------------------- MODULE BackupContract ---------------------------
(***************************************************************************)
(* What the service promises about its repository, without saying how.     *)
(*                                                                         *)
(* A backup run owns the repository from its start to its end.  It may     *)
(* add one snapshot, which it keeps if its backup has succeeded, and takes *)
(* back or leaves behind if not; only a run that has kept its own may      *)
(* expire older ones, one by one, and never one of the newest KeepLast.    *)
(* What is left behind is nobody's any more.  A run that gives up on a     *)
(* restic that is still at work has abandoned it, and for every abandoned  *)
(* restic one more snapshot may turn up at any time.  The process may die, *)
(* and the operator may remove snapshots by hand.                          *)
(*                                                                         *)
(* BackupRun, the model of the code, implements this specification.        *)
(***************************************************************************)
EXTENDS Naturals, Sequences, SequencesExt

CONSTANTS
    Callers,          \* the goroutines that call fullBackupRun
    KeepLast,         \* {last: n} of RETENTION_POLICY
    OperatorForgets   \* TRUE: snapshots are also removed by hand

VARIABLES
    stage,            \* stage[c]: how far the run of c has come
    snapshots,        \* the repository's snapshots, oldest first
    abandoned         \* restic processes that nobody waits for

contractVars == <<stage, snapshots, abandoned>>

(* "new" is the snapshot of the run at work, until its backup has ended;   *)
(* "good" the one of a backup that succeeded, "bad" every other one.       *)
Settle(s, k) == [i \in 1..Len(s) |-> IF s[i] = "new" THEN k ELSE s[i]]

(* The newest n elements of s. *)
Newest(s, n) == IF Len(s) <= n THEN s ELSE SubSeq(s, Len(s) - n + 1, Len(s))

-----------------------------------------------------------------------------

Init ==
    /\ stage = [c \in Callers |-> "idle"]
    /\ snapshots = <<>>
    /\ abandoned = 0

MoveTo(c, from, to) ==
    /\ stage[c] \in from
    /\ stage' = [stage EXCEPT ![c] = to]

Start(c) ==
    /\ \A d \in Callers : stage[d] = "idle"
    /\ MoveTo(c, {"idle"}, "working")
    /\ UNCHANGED <<snapshots, abandoned>>

Save(c) ==
    /\ MoveTo(c, {"working"}, "saved")
    /\ snapshots' = Append(snapshots, "new")
    /\ UNCHANGED abandoned

Keep(c) ==
    /\ MoveTo(c, {"saved"}, "kept")
    /\ snapshots' = Settle(snapshots, "good")
    /\ UNCHANGED abandoned

TakeBack(c) ==
    /\ MoveTo(c, {"saved"}, "closing")
    /\ \E i \in 1..Len(snapshots) :
          snapshots[i] = "new" /\ snapshots' = RemoveAt(snapshots, i)
    /\ UNCHANGED abandoned

LeaveBehind(c) ==
    /\ MoveTo(c, {"saved"}, "closing")
    /\ snapshots' = Settle(snapshots, "bad")
    /\ UNCHANGED abandoned

Abandon(c) ==
    /\ MoveTo(c, {"working"}, "closing")
    /\ abandoned' = abandoned + 1
    /\ UNCHANGED snapshots

ExpireOne(c) ==
    /\ MoveTo(c, {"kept"}, "kept")
    /\ \E i \in 1..(Len(snapshots) - KeepLast) : snapshots' = RemoveAt(snapshots, i)
    /\ UNCHANGED abandoned

Expire(c) ==
    /\ MoveTo(c, {"kept"}, "expired")
    /\ snapshots' = Newest(snapshots, KeepLast)
    /\ UNCHANGED abandoned

GiveUp(c) ==
    /\ MoveTo(c, {"working", "kept", "expired"}, "closing")
    /\ UNCHANGED <<snapshots, abandoned>>

Finish(c) ==
    /\ MoveTo(c, {"closing"}, "idle")
    /\ UNCHANGED <<snapshots, abandoned>>

(* Abandoned processes die with the container. *)
Crash ==
    /\ stage' = [c \in Callers |-> "idle"]
    /\ snapshots' = Settle(snapshots, "bad")
    /\ abandoned' = 0

AbandonedEnds ==
    /\ abandoned > 0
    /\ abandoned' = abandoned - 1
    /\ \/ UNCHANGED snapshots
       \/ \E i \in 1..(Len(snapshots) + 1) : snapshots' = InsertAt(snapshots, i, "bad")
    /\ UNCHANGED stage

RemoveByHand ==
    /\ OperatorForgets
    /\ \E i \in 1..Len(snapshots) : snapshots' = RemoveAt(snapshots, i)
    /\ UNCHANGED <<stage, abandoned>>

Next ==
    \/ \E c \in Callers :
          \/ Start(c) \/ Save(c) \/ Keep(c) \/ TakeBack(c) \/ LeaveBehind(c)
          \/ Abandon(c) \/ ExpireOne(c) \/ Expire(c) \/ GiveUp(c) \/ Finish(c)
    \/ Crash
    \/ AbandonedEnds
    \/ RemoveByHand

Spec == Init /\ [][Next]_contractVars
=============================================================================
