----------------------------- MODULE AutoUnlock -----------------------------
(***************************************************************************)
(* Locks in the restic repository, and genericCommand of                   *)
(* internal/restic/generic.go, which runs a restic command, removes all    *)
(* locks when it meets one that is old enough, and tries once more.        *)
(*                                                                         *)
(* restic is external: a process takes a lock, exclusive or not, refreshes *)
(* it in time, takes it away when it ends and leaves it when it is killed. *)
(* A lock it finds in its way makes it fail with a message that names one  *)
(* lock and its age.                                                       *)
(*                                                                         *)
(* Abstracted: what the commands do, errors that have nothing to do with   *)
(* locks (they end a command as success does), the text of the messages.   *)
(***************************************************************************)
EXTENDS Naturals, FiniteSets

CONSTANTS
    Callers,          \* goroutines that call genericCommand
    Others,           \* other users of restic: Backup, Restore, operators
    Dead,             \* owner of the locks that killed processes have left
    AutoUnlockAfter,  \* AUTO_UNLOCK_AFTER in ticks, 0 when it is not set
    RefreshEvery,     \* a process refreshes its lock at this age
    MaxDead           \* bound on the locks left behind at a time

Procs == Callers \cup Others

ASSUME ProcsAssumption == Dead \notin Procs /\ Callers \cap Others = {}
ASSUME AgeAssumption == AutoUnlockAfter \in Nat /\ RefreshEvery \in Nat \ {0}

VARIABLES
    pc,       \* pc[p]: where the command of p stands
    excl,     \* excl[p]: it needs the repository for itself
    inRetry,  \* inRetry[c]: the local variable of genericCommand
    locks,    \* the locks in the repository
    (* what the properties remember *)
    swept     \* running processes whose lock was removed by UnlockAll

vars == <<pc, excl, inRetry, locks, swept>>

(* Ages above this bound are not told apart. *)
AgeCap == AutoUnlockAfter + RefreshEvery

Locks == [owner : Procs \cup {Dead}, excl : BOOLEAN, age : 0 .. AgeCap]

NewLock(p) == [owner |-> p, excl |-> excl[p], age |-> 0]
Own(p) == {l \in locks : l.owner = p}
Running == {p \in Procs : pc[p] = "running"}

(* The locks that keep p from taking its own. *)
Blocking(p) == {l \in locks : l.excl \/ excl[p]}

MoveTo(p, s) == pc' = [pc EXCEPT ![p] = s]

Init ==
    /\ pc = [p \in Procs |-> "idle"]
    /\ excl = [p \in Procs |-> FALSE]
    /\ inRetry = [c \in Callers |-> FALSE]
    /\ locks = {}
    /\ swept = {}

-----------------------------------------------------------------------------
(* restic *)

Start(p) ==
    /\ pc[p] = "idle"
    /\ MoveTo(p, "locking")
    /\ \E e \in BOOLEAN : excl' = [excl EXCEPT ![p] = e]
    /\ UNCHANGED <<inRetry, locks, swept>>

Acquire(p) ==
    /\ pc[p] = "locking"
    /\ Blocking(p) = {}
    /\ MoveTo(p, "running")
    /\ locks' = locks \cup {NewLock(p)}
    /\ UNCHANGED <<excl, inRetry, swept>>

(* A refreshed lock is a new one, even if the old one is gone. *)
Refresh(p) ==
    /\ pc[p] = "running"
    /\ locks' = (locks \ Own(p)) \cup {NewLock(p)}
    /\ UNCHANGED <<pc, excl, inRetry, swept>>

(* Whoever called restic directly gets the error. *)
Refuse(p) ==
    /\ p \in Others
    /\ pc[p] = "locking"
    /\ Blocking(p) # {}
    /\ MoveTo(p, "idle")
    /\ UNCHANGED <<excl, inRetry, locks, swept>>

(* restic is killed, by the pipe script for example, or with its container. *)
Die(p) ==
    /\ pc[p] # "idle"
    /\ Own(p) # {} => Cardinality({l \in locks : l.owner = Dead}) < MaxDead
    /\ MoveTo(p, "idle")
    /\ locks' = {IF l.owner = p THEN [l EXCEPT !.owner = Dead] ELSE l : l \in locks}
    /\ inRetry' = [c \in Callers |-> inRetry[c] /\ c # p]
    /\ swept' = swept \ {p}
    /\ UNCHANGED excl

(* A healthy process does not let its lock grow older than RefreshEvery. *)
Tick ==
    /\ \A l \in locks : l.owner # Dead => l.age < RefreshEvery
    /\ locks' = {[l EXCEPT !.age = IF l.age < AgeCap THEN l.age + 1 ELSE l.age] : l \in locks}
    /\ UNCHANGED <<pc, excl, inRetry, swept>>

-----------------------------------------------------------------------------
(* genericCommand *)

(* The command has ended and genericCommand returns. *)
End(p) ==
    /\ pc[p] = "running"
    /\ MoveTo(p, "idle")
    /\ locks' = locks \ Own(p)
    /\ inRetry' = [c \in Callers |-> inRetry[c] /\ c # p]
    /\ swept' = swept \ {p}
    /\ UNCHANGED excl

(* The error is returned: it is the second one, unlocking is not wanted,   *)
(* or the lock the message names is too young.                             *)
ReturnError(c) ==
    /\ pc[c] = "locking"
    /\ \E l \in Blocking(c) :
          inRetry[c] \/ AutoUnlockAfter = 0 \/ l.age < AutoUnlockAfter
    /\ MoveTo(c, "idle")
    /\ inRetry' = [inRetry EXCEPT ![c] = FALSE]
    /\ UNCHANGED <<excl, locks, swept>>

(* The message is not of the expected form, or its age does not parse. *)
NotUnderstood(c) ==
    /\ pc[c] = "locking"
    /\ Blocking(c) # {}
    /\ MoveTo(c, "idle")
    /\ inRetry' = [inRetry EXCEPT ![c] = FALSE]
    /\ UNCHANGED <<excl, locks, swept>>

(* Mutation: the age of the lock is not looked at. *)
JudgeMut(c) ==
    /\ pc[c] = "locking"
    /\ ~inRetry[c] /\ AutoUnlockAfter # 0
    /\ Blocking(c) # {}
    /\ MoveTo(c, "unlocking")
    /\ inRetry' = [inRetry EXCEPT ![c] = TRUE]
    /\ UNCHANGED <<excl, locks, swept>>

(* Mutation: inRetry is not set. *)
JudgeAgainMut(c) ==
    /\ pc[c] = "locking"
    /\ AutoUnlockAfter # 0
    /\ \E l \in Blocking(c) : l.age >= AutoUnlockAfter
    /\ MoveTo(c, "unlocking")
    /\ UNCHANGED <<excl, inRetry, locks, swept>>

(* The lock named by the message is old enough. *)
Judge(c) ==
    /\ pc[c] = "locking"
    /\ ~inRetry[c] /\ AutoUnlockAfter # 0
    /\ \E l \in Blocking(c) : l.age >= AutoUnlockAfter
    /\ MoveTo(c, "unlocking")
    /\ inRetry' = [inRetry EXCEPT ![c] = TRUE]
    /\ UNCHANGED <<excl, locks, swept>>

(* Mutation: an unlock is taken for the lock itself. *)
UnlockAllMut(c) ==
    /\ pc[c] = "unlocking"
    /\ MoveTo(c, "running")
    /\ locks' = {}
    /\ swept' = swept \cup Running
    /\ UNCHANGED <<excl, inRetry>>

(* Mutation: `restic unlock` without --remove-all leaves what is not known *)
(* to be stale, as the locks of other hosts are not.                       *)
UnlockSomeMut(c) ==
    /\ pc[c] = "unlocking"
    /\ MoveTo(c, "locking")
    /\ UNCHANGED <<excl, inRetry, locks, swept>>

(* restic unlock --remove-all has removed every lock there was: continue. *)
UnlockAll(c) ==
    /\ pc[c] = "unlocking"
    /\ MoveTo(c, "locking")
    /\ locks' = {}
    /\ swept' = swept \cup Running
    /\ UNCHANGED <<excl, inRetry>>

(* It has failed: the first error is returned. *)
UnlockFails(c) ==
    /\ pc[c] = "unlocking"
    /\ MoveTo(c, "idle")
    /\ inRetry' = [inRetry EXCEPT ![c] = FALSE]
    /\ UNCHANGED <<excl, locks, swept>>

CommandStep(c) ==
    \/ Acquire(c) \/ End(c) \/ ReturnError(c) \/ NotUnderstood(c) \/ Judge(c)
    \/ UnlockAll(c) \/ UnlockFails(c)

Next ==
    \/ \E c \in Callers : CommandStep(c)
    \/ \E p \in Others : Acquire(p) \/ Refuse(p) \/ End(p)
    \/ \E p \in Procs : Start(p) \/ Refresh(p) \/ Die(p)
    \/ Tick

Spec == Init /\ [][Next]_vars

(* genericCommand goes on, and the restic it has started ends. *)
FairSpec == Spec /\ \A c \in Callers : WF_vars(CommandStep(c))

-----------------------------------------------------------------------------
(* Properties *)

TypeOK ==
    /\ pc \in [Procs -> {"idle", "locking", "running", "unlocking"}]
    /\ excl \in [Procs -> BOOLEAN]
    /\ inRetry \in [Callers -> BOOLEAN]
    /\ locks \subseteq Locks
    /\ swept \subseteq Running
    /\ \A p \in Others : pc[p] # "unlocking"
    /\ \A c \in Callers : pc[c] = "unlocking" => inRetry[c]

(* A process that has the repository for itself is alone, unless UnlockAll *)
(* has removed a lock of a process that was still running: it is the only  *)
(* way in which two commands can get at each other's data.                 *)
AloneUnlessSwept ==
    \A p, q \in Running : excl[p] /\ p # q => p \in swept \/ q \in swept

(* With AUTO_UNLOCK_AFTER above restic's own interval, genericCommand      *)
(* decides to remove the locks only when a process has died and left one,  *)
(* never because of processes that are merely slow; and when it is not set *)
(* it never does ("AUTO_UNLOCK_AFTER not set", test/tests/unlock.go).      *)
SweepHasCause ==
    [][\A c \in Callers :
          pc[c] = "locking" /\ pc'[c] = "unlocking" =>
              /\ AutoUnlockAfter # 0
              /\ AutoUnlockAfter > RefreshEvery =>
                     \E l \in locks : l.owner = Dead /\ l.age >= AutoUnlockAfter]_vars

(* genericCommand always returns: whatever others leave behind meanwhile,  *)
(* it does not unlock and try for ever.                                    *)
CommandsReturn == \A c \in Callers : pc[c] # "idle" ~> pc[c] = "idle"

(* "lock needs to be stale for at least %v to be automatically removed"    *)
(* (generic.go:185).  It does not: one lock that is old enough costs all   *)
(* the others, those of running processes included.                        *)
YoungLocksStay ==
    [][\A c \in Callers :
          UnlockAll(c) => \A l \in locks : l.age >= AutoUnlockAfter]_vars
=============================================================================
