--------------------------- MODULE RunLocksProofs ---------------------------
(***************************************************************************)
(* Proofs about AutoUnlock, for any callers and any other users of restic, *)
(* and for any two ages; and about RunLocks: the service's commands are    *)
(* commands of AutoUnlock, so that what is proved about any set of callers *)
(* holds for the service among the others.                                 *)
(***************************************************************************)
EXTENDS RunLocks, TLAPS

-----------------------------------------------------------------------------
(* Types *)

LEMMA InitTypes == Init => TypeOK
    BY ProcsAssumption DEF Init, TypeOK, Procs

LEMMA NextTypes == TypeOK /\ [Next]_vars => TypeOK'
<1> SUFFICES ASSUME TypeOK, [Next]_vars PROVE TypeOK'
    OBVIOUS
<1> USE ProcsAssumption DEF TypeOK, Procs, MoveTo, Running
<1>0. \A p \in Procs : NewLock(p) \in Locks
    BY AgeAssumption DEF NewLock, Locks, AgeCap
<1>1. ASSUME NEW p \in Procs, Start(p) PROVE TypeOK'
    BY <1>1 DEF Start
<1>2. ASSUME NEW p \in Procs, Acquire(p) PROVE TypeOK'
    BY <1>0, <1>2 DEF Acquire
<1>3. ASSUME NEW p \in Procs, Refresh(p) PROVE TypeOK'
    BY <1>0, <1>3 DEF Refresh
<1>4. ASSUME NEW p \in Procs, Refuse(p) PROVE TypeOK'
    BY <1>4 DEF Refuse
<1>5. ASSUME NEW p \in Procs, Die(p) PROVE TypeOK'
    <2>1. locks' \subseteq Locks
        BY <1>5 DEF Die, Locks
    <2>2. swept' \subseteq Running'
        BY <1>5 DEF Die
    <2> QED
        BY <1>5, <2>1, <2>2 DEF Die
<1>6. ASSUME NEW p \in Procs, End(p) PROVE TypeOK'
    BY <1>6 DEF End
<1>7. ASSUME NEW c \in Callers, ReturnError(c) \/ NotUnderstood(c) \/ UnlockFails(c) PROVE TypeOK'
    BY <1>7 DEF ReturnError, NotUnderstood, UnlockFails
<1>8. ASSUME NEW c \in Callers, Judge(c) PROVE TypeOK'
    BY <1>8 DEF Judge
<1>9. ASSUME NEW c \in Callers, UnlockAll(c) PROVE TypeOK'
    BY <1>9 DEF UnlockAll
<1>10. ASSUME Tick PROVE TypeOK'
    <2>1. locks' \subseteq Locks
        BY <1>10, AgeAssumption DEF Tick, Locks, AgeCap
    <2> QED
        BY <1>10, <2>1 DEF Tick
<1>11. ASSUME UNCHANGED vars PROVE TypeOK'
    BY <1>11 DEF vars
<1> QED
    BY <1>1, <1>2, <1>3, <1>4, <1>5, <1>6, <1>7, <1>8, <1>9, <1>10, <1>11
       DEF Next, CommandStep

(* Every variable keeps its type. *)
THEOREM TypeCorrect == Spec => []TypeOK
    BY InitTypes, NextTypes, PTL DEF Spec

-----------------------------------------------------------------------------
(* Locks and their owners *)

(* A lock of a living process is that of its present command, and young. *)
OwnedInv ==
    \A l \in locks : l.owner # Dead =>
        /\ l.owner \in Running
        /\ l.excl = excl[l.owner]
        /\ l.age <= RefreshEvery

(* A running process has its lock, unless it was removed. *)
LockedInv ==
    \A p \in Running : p \notin swept => \E l \in locks : l.owner = p

Inv == OwnedInv /\ LockedInv /\ AloneUnlessSwept

LEMMA InitInv == Init => Inv
    BY DEF Init, Inv, OwnedInv, LockedInv, AloneUnlessSwept, Running

LEMMA NextInv == TypeOK /\ Inv /\ [Next]_vars => Inv'
<1> SUFFICES ASSUME TypeOK, Inv, [Next]_vars PROVE Inv'
    OBVIOUS
<1> USE ProcsAssumption DEF TypeOK, Procs, MoveTo, Running, Inv, OwnedInv, LockedInv,
        AloneUnlessSwept
<1>1. ASSUME NEW p \in Procs, Start(p) PROVE Inv'
    BY <1>1 DEF Start
<1>2. ASSUME NEW p \in Procs, Acquire(p) PROVE Inv'
    <2>1. \A q \in Running : q \notin swept => ~excl[q] /\ ~excl[p]
        BY <1>2 DEF Acquire, Blocking
    <2>2. AloneUnlessSwept'
        BY <1>2, <2>1 DEF Acquire
    <2>3. NewLock(p).owner = p /\ NewLock(p).excl = excl[p] /\ NewLock(p).age <= RefreshEvery
        BY AgeAssumption DEF NewLock
    <2>4. /\ locks' = locks \cup {NewLock(p)} /\ excl' = excl
          /\ p \in Running' /\ \A q \in Running : q \in Running'
        BY <1>2 DEF Acquire
    <2>5. OwnedInv'
        <3> SUFFICES ASSUME NEW l \in locks', l.owner # Dead
                     PROVE  l.owner \in Running' /\ l.excl = excl'[l.owner] /\ l.age <= RefreshEvery
            OBVIOUS
        <3>1. CASE l = NewLock(p)
            BY <2>3, <2>4, <3>1, Zenon
        <3>2. CASE l \in locks
            BY <2>4, <3>2
        <3> QED
            BY <2>4, <3>1, <3>2
    <2>6. LockedInv'
        <3>1. /\ UNCHANGED swept
              /\ \A q \in Running' : q = p \/ q \in Running
              /\ NewLock(p) \in locks' /\ locks \subseteq locks'
            BY <1>2 DEF Acquire
        <3> HIDE DEF Running
        <3> QED
            BY <2>3, <3>1
    <2> QED
        BY <2>2, <2>5, <2>6
<1>3. ASSUME NEW p \in Procs, Refresh(p) PROVE Inv'
    <2>1. OwnedInv'
        <3>1. NewLock(p).owner = p /\ NewLock(p).excl = excl[p] /\ NewLock(p).age <= RefreshEvery
            BY AgeAssumption DEF NewLock
        <3>2. /\ p \in Running /\ Running' = Running /\ excl' = excl
              /\ \A l \in locks' : l \in locks \/ l = NewLock(p)
            BY <1>3 DEF Refresh
        <3> HIDE DEF Running
        <3> QED
            BY <3>1, <3>2
    <2>2. LockedInv'
        <3>1. NewLock(p).owner = p
            BY DEF NewLock
        <3>2. /\ UNCHANGED <<pc, swept>>
              /\ NewLock(p) \in locks'
              /\ \A l \in locks : l.owner # p => l \in locks'
            BY <1>3 DEF Refresh, Own
        <3> QED
            BY <3>1, <3>2
    <2> QED
        BY <1>3, <2>1, <2>2 DEF Refresh
<1>4. ASSUME NEW p \in Procs, Refuse(p) PROVE Inv'
    BY <1>4 DEF Refuse
<1>5. ASSUME NEW p \in Procs, Die(p) PROVE Inv'
    <2>1. /\ pc' = [pc EXCEPT ![p] = "idle"]
          /\ excl' = excl
          /\ swept' = swept \ {p}
        BY <1>5 DEF Die
    <2>2. \A l \in locks : l.owner # p => l \in locks'
        BY <1>5 DEF Die
    <2>3. \A l \in locks' : l.owner # Dead => l \in locks /\ l.owner # p
        BY <1>5 DEF Die, Locks
    <2>4. OwnedInv'
        BY <2>1, <2>3
    <2>5. LockedInv'
        BY <2>1, <2>2
    <2>6. AloneUnlessSwept'
        BY <2>1
    <2> QED
        BY <2>4, <2>5, <2>6
<1>6. ASSUME NEW p \in Procs, End(p) PROVE Inv'
    BY <1>6 DEF End, Own
<1>7. ASSUME NEW c \in Callers, ReturnError(c) \/ NotUnderstood(c) \/ UnlockFails(c) PROVE Inv'
    BY <1>7 DEF ReturnError, NotUnderstood, UnlockFails
<1>8. ASSUME NEW c \in Callers, Judge(c) PROVE Inv'
    BY <1>8 DEF Judge
<1>9. ASSUME NEW c \in Callers, UnlockAll(c) PROVE Inv'
    BY <1>9 DEF UnlockAll
<1>10. ASSUME Tick PROVE Inv'
    <2> DEFINE Older(l) == [l EXCEPT !.age = IF l.age < AgeCap THEN l.age + 1 ELSE l.age]
    <2>1. \A l \in locks : /\ Older(l).owner = l.owner /\ Older(l).excl = l.excl
                           /\ l.age < RefreshEvery => Older(l).age <= RefreshEvery
        BY AgeAssumption DEF Locks, AgeCap
    <2>2. locks' = {Older(l) : l \in locks}
        BY <1>10 DEF Tick
    <2>3. /\ \A l \in locks : l.owner # Dead => l.age < RefreshEvery
          /\ UNCHANGED <<pc, excl, inRetry, swept>>
        BY <1>10 DEF Tick
    <2> HIDE DEF Older
    <2>4. OwnedInv'
        BY <2>1, <2>2, <2>3
    <2>5. LockedInv'
        BY <2>1, <2>2, <2>3
    <2> QED
        BY <2>3, <2>4, <2>5
<1>11. ASSUME UNCHANGED vars PROVE Inv'
    BY <1>11 DEF vars
<1> QED
    BY <1>1, <1>2, <1>3, <1>4, <1>5, <1>6, <1>7, <1>8, <1>9, <1>10, <1>11
       DEF Next, CommandStep

LEMMA Invariant == Spec => [](TypeOK /\ Inv)
    BY InitTypes, NextTypes, InitInv, NextInv, PTL DEF Spec

-----------------------------------------------------------------------------
(* The results *)

(* An exclusive command is alone unless locks of the living were removed. *)
THEOREM Alone == Spec => []AloneUnlessSwept
<1>1. Inv => AloneUnlessSwept
    BY DEF Inv
<1> QED
    BY <1>1, Invariant, PTL

(* Locks are removed only where a process has died and left an old one. *)
THEOREM Cause == Spec => SweepHasCause
<1> DEFINE Justified ==
        \A c \in Callers :
            pc[c] = "locking" /\ pc'[c] = "unlocking" =>
                /\ AutoUnlockAfter # 0
                /\ AutoUnlockAfter > RefreshEvery =>
                       \E l \in locks : l.owner = Dead /\ l.age >= AutoUnlockAfter
<1>1. ASSUME TypeOK, Inv, Next, NEW c \in Callers,
             pc[c] = "locking", pc'[c] = "unlocking"
      PROVE  Judge(c)
    BY <1>1, ProcsAssumption
       DEF TypeOK, Procs, Next, CommandStep, MoveTo, Start, Acquire, Refresh, Refuse, Die,
           End, Tick, ReturnError, NotUnderstood, Judge, UnlockAll, UnlockFails
<1>2. ASSUME TypeOK, Inv, NEW c \in Callers, Judge(c)
      PROVE  /\ AutoUnlockAfter # 0
             /\ AutoUnlockAfter > RefreshEvery =>
                    \E l \in locks : l.owner = Dead /\ l.age >= AutoUnlockAfter
    <2>1. PICK l \in Blocking(c) : l.age >= AutoUnlockAfter
        BY <1>2 DEF Judge
    <2>2. l \in locks /\ l.age \in Nat
        BY <1>2, <2>1, AgeAssumption DEF Blocking, TypeOK, Locks, AgeCap
    <2>3. l.owner # Dead => l.age <= RefreshEvery
        BY <1>2, <2>2 DEF Inv, OwnedInv
    <2>4. AutoUnlockAfter > RefreshEvery => l.owner = Dead
        BY <2>1, <2>2, <2>3, AgeAssumption
    <2> QED
        BY <1>2, <2>1, <2>2, <2>4 DEF Judge
<1>3. TypeOK /\ Inv /\ [Next]_vars => [Justified]_vars
    <2> SUFFICES ASSUME TypeOK, Inv, Next PROVE Justified
        OBVIOUS
    <2> QED
        BY <1>1, <1>2
<1> QED
    BY <1>3, Invariant, PTL DEF Spec, SweepHasCause

-----------------------------------------------------------------------------
(* The service among the others *)

(* The process of the current command is a process of AutoUnlock, and a    *)
(* caller of genericCommand unless it is the backup.                       *)
LEMMA CurrentIsProc ==
    /\ Service \in Callers /\ BackupProc \in Others
    /\ Current \in {Service, BackupProc}
    /\ Current \in Procs
BY ServiceAssumption DEF Current, Procs

(* The actions of the service and those of the others each do, to the      *)
(* variables of AutoUnlock, what one of its actions does, or nothing.      *)
LEMMA ServiceStepMaps == ServiceStep => Next
<1>1. BeginBackup => Next
  BY CurrentIsProc DEF BeginBackup, Next, Procs
<1>2. BeginCommand => Next
  BY CurrentIsProc DEF BeginCommand, Next, Procs
<1>3. Advance => Next
  <2>1. Acquire(Service) => Next
    BY CurrentIsProc DEF CommandStep, Next
  <2>2. Acquire(BackupProc) => Next
    BY CurrentIsProc DEF Next
  <2>3. Judge(Service) => Next
    BY CurrentIsProc DEF CommandStep, Next
  <2> QED BY <2>1, <2>2, <2>3, CurrentIsProc DEF Advance
<1>4. Unlock => Next
  BY CurrentIsProc DEF Unlock, CommandStep, Next
<1>5. BackupRefused => Next
  BY CurrentIsProc DEF BackupRefused, Next
<1>6. CommandRefused => Next
  BY CurrentIsProc DEF CommandRefused, CommandStep, Next
<1>7. Succeed \/ Fail => Next
  <2>1. End(Service) => Next
    BY CurrentIsProc DEF CommandStep, Next
  <2>2. End(BackupProc) => Next
    BY CurrentIsProc DEF Next
  <2> QED BY <2>1, <2>2, CurrentIsProc DEF Succeed, Fail, Finish
<1> QED
  BY <1>1, <1>2, <1>3, <1>4, <1>5, <1>6, <1>7 DEF ServiceStep

LEMMA OtherStepsMap == Killed \/ Restart \/ OthersStep \/ Time => [Next]_vars
<1>1. Killed => Next
  BY CurrentIsProc DEF Killed, Next
<1>2. Restart => [Next]_vars
  BY CurrentIsProc DEF Restart, Next
<1>3. OthersStep => Next
  BY DEF OthersStep, Next
<1>4. Time => Next
  BY DEF Time, Next
<1> QED BY <1>1, <1>2, <1>3, <1>4

(* Every behaviour of the service and the others is one of AutoUnlock.     *)
THEOREM RunImplementsAutoUnlock == RunSpec => Spec
<1>1. RunInit => Init
  BY DEF RunInit
<1>2. [RunNext]_runVars => [Next]_vars
  <2>1. UNCHANGED runVars => UNCHANGED vars
    BY DEF runVars, vars
  <2> QED BY <2>1, ServiceStepMaps, OtherStepsMap DEF RunNext
<1> QED BY <1>1, <1>2, PTL DEF RunSpec, Spec

-----------------------------------------------------------------------------
(* Types *)

LEMMA NextRunTypes == RunTypeOK /\ [RunNext]_runVars => RunTypeOK'
<1> SUFFICES ASSUME RunTypeOK, [RunNext]_runVars
             PROVE  at' \in Phases /\ kills' \in 0 .. MaxKills /\ TypeOK'
  BY DEF RunTypeOK
<1>1. TypeOK'
  <2>1. [Next]_vars
    BY ServiceStepMaps, OtherStepsMap DEF RunNext, runVars, vars
  <2> QED BY <2>1, NextTypes DEF RunTypeOK
<1>2. AfterSuccess \subseteq Phases /\ AfterFailure \subseteq Phases
  BY DEF AfterSuccess, AfterFailure, Phases, RunTypeOK
<1>3. CASE ServiceStep
  BY <1>1, <1>2, <1>3
     DEF ServiceStep, BeginBackup, BeginCommand, Advance, Unlock, BackupRefused,
         CommandRefused, Succeed, Fail, Finish, RunTypeOK, Phases
<1>4. CASE Killed \/ Restart
  <2>1. kills' \in 0 .. MaxKills
    <3>1. kills < MaxKills /\ kills' = kills + 1
      BY <1>4 DEF Killed, Restart
    <3> QED BY <3>1, KillsAssumption DEF RunTypeOK
  <2>2. at' \in AfterFailure \/ at' = "preflight"
    BY <1>4, Zenon DEF Killed, Restart
  <2> QED BY <1>1, <1>2, <2>1, <2>2 DEF Phases
<1>5. CASE OthersStep \/ Time \/ UNCHANGED runVars
  BY <1>1, <1>5 DEF OthersStep, Time, runVars, RunTypeOK
<1> QED
  BY <1>3, <1>4, <1>5 DEF RunNext

(* Every variable keeps its type. *)
THEOREM RunTypes == RunSpec => []RunTypeOK
<1>1. RunInit => RunTypeOK
  BY InitTypes, KillsAssumption DEF RunInit, RunTypeOK, Phases
<1> QED BY <1>1, NextRunTypes, PTL DEF RunSpec

(* The service and the others are alone with the repository when they must *)
(* be, unless an unlock has taken a lock of a process that was running.    *)
THEOREM RunsAlone == RunSpec => []AloneUnlessSwept
  BY RunImplementsAutoUnlock, Alone, PTL

(* No unlock of theirs is without a lock that a dead process has left.     *)
THEOREM RunsSweepHasCause == RunSpec => SweepHasCause
  BY RunImplementsAutoUnlock, Cause
=============================================================================
