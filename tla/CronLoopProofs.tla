--------------------------- MODULE CronLoopProofs ---------------------------
(***************************************************************************)
(* Proofs about CronLoop, for every set of schedules, every step of the    *)
(* sleeper, every horizon and every number of changes of the file.         *)
(***************************************************************************)
EXTENDS CronLoop, WellFoundedInduction, TLAPS

-----------------------------------------------------------------------------
(* The next instant of a schedule *)

LEMMA LeastInstant ==
    ASSUME NEW T \in SUBSET Nat, T # {}
    PROVE  \E x \in T : \A y \in T : x <= y
<1> DEFINE R == {ss \in Nat \X Nat : ss[1] < ss[2]}
<1>1. IsWellFoundedOn(R, Nat)
    BY NatLessThanWellFounded DEF OpToRel
<1>2. \A x, y \in Nat : <<y, x>> \notin R => x <= y
    OBVIOUS
<1> HIDE DEF R
<1>3. PICK x \in T : \A y \in T : <<y, x>> \notin R
    BY <1>1, WFMin
<1> QED
    BY <1>2, <1>3

(* What cron.NextOccurrences returns lies ahead and in the schedule, if    *)
(* not beyond the horizon.                                                 *)
LEMMA NextIsAhead ==
    ASSUME NEW s \in Schedules, NEW t \in 0 .. Horizon
    PROVE  /\ NextOccurrence(s, t) \in 0 .. Never
           /\ NextOccurrence(s, t) > t
           /\ NextOccurrence(s, t) \in s \/ NextOccurrence(s, t) = Never
           /\ \A x \in s : x > t => NextOccurrence(s, t) <= x
<1>0. /\ Horizon \in Nat
      /\ \A x \in s : x \in Nat /\ x <= Horizon
    <2>1. s \subseteq 1 .. Horizon
        BY ScheduleAssumption
    <2> QED
        BY <2>1, BoundAssumption
<1>1. CASE \E x \in s : x > t
    <2> DEFINE Later == {x \in s : x > t}
    <2>1. Later \in SUBSET Nat /\ Later # {}
        BY <1>0, <1>1, Zenon
    <2>2. \E x \in Later : \A y \in Later : x <= y
        BY <2>1, LeastInstant
    <2>3. \E x \in s : x > t /\ \A y \in s : y > t => x <= y
        BY <2>2
    <2>4. /\ NextOccurrence(s, t) \in s /\ NextOccurrence(s, t) > t
          /\ \A x \in s : x > t => NextOccurrence(s, t) <= x
        BY <1>1, <2>3 DEF NextOccurrence
    <2>5. NextOccurrence(s, t) \in Nat /\ NextOccurrence(s, t) <= Horizon
        BY <1>0, <2>4
    <2> QED
        BY <1>0, <2>4, <2>5 DEF Never
<1>2. CASE ~ \E x \in s : x > t
    BY <1>0, <1>2 DEF NextOccurrence, Never
<1> QED
    BY <1>1, <1>2

-----------------------------------------------------------------------------
(* Types *)

(* The watcher only ever passes on a schedule it could read. *)
TypeInv == TypeOK /\ (watcher = "notify" => cr \in Schedules)

LEMMA InitTypes == Init => TypeInv
<1> SUFFICES ASSUME Init PROVE TypeInv
    OBVIOUS
<1>1. /\ now \in 0 .. Horizon /\ target \in 0 .. Never /\ ranFor \in 0 .. Never
      /\ left \in 0 .. Step /\ mtime \in 1 .. (MaxWrites + 1)
      /\ modtime \in 0 .. (MaxWrites + 1) /\ lastmod \in 0 .. (MaxWrites + 1)
    BY BoundAssumption DEF Init, Never
<1>2. updates \in SUBSET Schedules /\ \A s, t \in updates : s = t
    BY DEF Init
<1> QED
    BY <1>1, <1>2, Zenon DEF Init, TypeInv, TypeOK

LEMMA NextTypes == TypeInv /\ [Next]_vars => TypeInv'
<1> SUFFICES ASSUME TypeInv, [Next]_vars PROVE TypeInv'
    OBVIOUS
<1> USE BoundAssumption DEF TypeInv, TypeOK, loopVars, sleepVars, fileVars, watchVars, clockVars
<1>1. ASSUME Plan PROVE TypeInv'
    BY <1>1, NextIsAhead DEF Plan
<1>2. ASSUME Skip \/ StartRun \/ EndRun PROVE TypeInv'
    BY <1>2 DEF Skip, StartRun, EndRun
<1>3. ASSUME UpdateCron PROVE TypeInv'
    BY <1>3 DEF UpdateCron
<1>4. ASSUME CheckTime PROVE TypeInv'
    BY <1>4 DEF CheckTime, Never
<1>5. ASSUME WakeUp PROVE TypeInv'
    BY <1>5 DEF WakeUp
<1>6. ASSUME StatFile PROVE TypeInv'
    BY <1>6 DEF StatFile
<1>7. ASSUME ReadFile PROVE TypeInv'
    BY <1>7 DEF ReadFile, Invalid, Absent
<1>8. ASSUME Notify PROVE TypeInv'
    BY <1>8 DEF Notify
<1>9. ASSUME WriteFile PROVE TypeInv'
    BY <1>9 DEF WriteFile
<1>10. ASSUME Tick PROVE TypeInv'
    <2>1. now' \in 0 .. Horizon /\ left' \in 0 .. Step
        BY <1>10 DEF Tick, Busy
    <2> QED
        BY <1>10, <2>1, Zenon DEF Tick
<1>11. ASSUME NEW d \in 1 .. Horizon, Suspend(d) PROVE TypeInv'
    <2>1. now' \in 0 .. Horizon
        BY <1>11 DEF Suspend
    <2> QED
        BY <1>11, <2>1, Zenon DEF Suspend
<1>12. ASSUME UNCHANGED vars PROVE TypeInv'
    BY <1>12 DEF vars
<1> QED
    BY <1>1, <1>2, <1>3, <1>4, <1>5, <1>6, <1>7, <1>8, <1>9, <1>10, <1>11, <1>12, Zenon
       DEF Next, LoopStep, SleeperStep, WatcherStep

(* Every variable keeps its type, and updateCronChan its capacity. *)
THEOREM TypeCorrect == Spec => []TypeOK
<1>1. TypeInv => TypeOK
    BY DEF TypeInv
<1> QED
    BY <1>1, InitTypes, NextTypes, PTL DEF Spec

-----------------------------------------------------------------------------
(* The clock, the target and the sleeper *)

(* There is a sleeper exactly while the loop waits in its select. *)
SleeperInv == loop = "select" <=> sleeper # "none"

(* The target is an instant of the schedule in force, later than the one   *)
(* the last backup was for.                                                *)
TargetInv ==
    /\ ranFor <= now
    /\ loop = "select" => /\ ranFor < target
                          /\ target \in cron \/ target = Never

(* No sleep lasts beyond the target; the last one does not end before it.  *)
SleepInv ==
    /\ loop = "select" /\ woke = 0 /\ sleeper # "zero" => now <= target
    /\ sleeper = "step" /\ woke = 0 => now + left <= target
    /\ sleeper = "last" => now + left >= target
    /\ sleeper = "last" /\ woke = 0 => now + left = target
    /\ sleeper = "due" => now >= target
    /\ sleeper \in {"step", "last"} /\ woke # 0 => now + left <= woke + Step

(* Between now and the target there is no instant of the schedule, and now *)
(* is one only if the loop has just planned.                               *)
NextInv ==
    loop = "select" =>
        \A x \in cron : x < target => x < now \/ (x = now /\ fresh)

ClockInv == SleeperInv /\ TargetInv /\ SleepInv /\ NextInv

LEMMA InitClock == Init => ClockInv
    BY DEF Init, ClockInv, SleeperInv, TargetInv, SleepInv, NextInv

LEMMA NextClock == TypeInv /\ ClockInv /\ [Next]_vars => ClockInv'
<1> SUFFICES ASSUME TypeInv, ClockInv, [Next]_vars PROVE ClockInv'
    OBVIOUS
<1> USE BoundAssumption DEF TypeInv, TypeOK, ClockInv, SleeperInv, TargetInv, SleepInv, NextInv,
        Never, loopVars, sleepVars, fileVars, watchVars, clockVars
<1>1. ASSUME Plan PROVE ClockInv'
    <2>1. /\ target' > now
          /\ target' \in cron \/ target' = Never
          /\ \A x \in cron : x > now => target' <= x
        BY <1>1, NextIsAhead DEF Plan
    <2>3. \A x \in cron : x \in Nat
        BY ScheduleAssumption
    <2>2. target' \in 0 .. Never
        BY NextTypes
    <2> QED
        BY <1>1, <2>1, <2>2, <2>3 DEF Plan
<1>2. ASSUME Skip \/ StartRun \/ EndRun \/ UpdateCron PROVE ClockInv'
    BY <1>2 DEF Skip, StartRun, EndRun, UpdateCron
<1>3. ASSUME CheckTime PROVE ClockInv'
    BY <1>3 DEF CheckTime
<1>4. ASSUME WakeUp PROVE ClockInv'
    BY <1>4 DEF WakeUp
<1>5. ASSUME StatFile \/ ReadFile \/ Notify \/ WriteFile PROVE ClockInv'
    BY <1>5 DEF StatFile, ReadFile, Notify, WriteFile
<1>6. ASSUME Tick PROVE ClockInv'
    <2>1. SleeperInv' /\ TargetInv'
        BY <1>6 DEF Tick
    <2>2. SleepInv'
        BY <1>6 DEF Tick, Busy
    <2>3. NextInv'
        <3>1. \A x \in cron : x \in Nat
            BY ScheduleAssumption
        <3> QED
            BY <1>6, <3>1 DEF Tick
    <2> QED
        BY <2>1, <2>2, <2>3
<1>7. ASSUME NEW d \in 1 .. Horizon, Suspend(d) PROVE ClockInv'
    <2>1. SleeperInv' /\ TargetInv'
        BY <1>7 DEF Suspend
    <2>2. SleepInv'
        BY <1>7 DEF Suspend
    <2>3. NextInv'
        <3>1. \A x \in cron : x \in Nat
            BY ScheduleAssumption
        <3> QED
            BY <1>7, <3>1 DEF Suspend
    <2> QED
        BY <2>1, <2>2, <2>3
<1>8. ASSUME UNCHANGED vars PROVE ClockInv'
    BY <1>8 DEF vars
<1> QED
    BY <1>1, <1>2, <1>3, <1>4, <1>5, <1>6, <1>7, <1>8, Zenon
       DEF Next, LoopStep, SleeperStep, WatcherStep

LEMMA Clock == Spec => [](TypeInv /\ ClockInv)
    BY InitTypes, NextTypes, InitClock, NextClock, PTL DEF Spec

-----------------------------------------------------------------------------
(* The results *)

(* No instant goes by while the loop waits, but for an instant of the very *)
(* minute in which it has planned, and for a host that has just woken up.  *)
THEOREM AwakeInTime == Spec => NoInstantGoesBy
<1>1. ASSUME TypeInv, ClockInv, Tick, now \in cron, loop # "run", ~fresh
      PROVE  woke # 0 /\ now < woke + Step
    <2>1. loop = "select" /\ sleeper \in {"step", "last"} /\ left # 0
        BY <1>1 DEF Tick, Busy, TypeInv, TypeOK, ClockInv, SleeperInv
    <2>2. now \in Int /\ target \in Int /\ left \in Int /\ left > 0 /\ woke \in Int /\ Step \in Int
        BY <1>1, <2>1, BoundAssumption DEF TypeInv, TypeOK, Never
    <2>3. target <= now
        BY <1>1, <2>1, <2>2 DEF ClockInv, NextInv
    <2>4. woke # 0
        BY <1>1, <2>1, <2>2, <2>3 DEF ClockInv, SleepInv
    <2> QED
        BY <1>1, <2>1, <2>2, <2>4 DEF ClockInv, SleepInv
<1>2. TypeInv /\ ClockInv =>
          [Tick /\ now \in cron =>
              loop = "run" \/ fresh \/ (woke # 0 /\ now < woke + Step)]_vars
    BY <1>1
<1> QED
    BY <1>2, Clock, PTL DEF NoInstantGoesBy

(* A backup starts for an instant of the schedule in force, never before   *)
(* it, on it while the host is awake, and only once for an instant.        *)
THEOREM OnSchedule == Spec => RunsOnSchedule
<1>1. ASSUME TypeInv, ClockInv, StartRun
      PROVE  /\ target \in cron
             /\ now >= target
             /\ woke = 0 => now = target
    BY <1>1, BoundAssumption DEF TypeInv, TypeOK, ClockInv, SleeperInv, TargetInv, SleepInv,
       StartRun, Never
<1>2. ASSUME TypeInv, ClockInv, StartRun PROVE target > ranFor
    BY <1>2 DEF ClockInv, TargetInv, StartRun, TypeInv, TypeOK, Never
<1>3. TypeInv /\ ClockInv =>
          [StartRun => /\ target \in cron
                       /\ now >= target
                       /\ woke = 0 => now = target
                       /\ target > ranFor]_vars
    BY <1>1, <1>2
<1> QED
    BY <1>3, Clock, PTL DEF RunsOnSchedule

-----------------------------------------------------------------------------
(* The way of a schedule from the file to the loop *)

(* The watcher's times never run ahead of the file's, so a write it has    *)
(* not seen is newer than what it remembers.                               *)
UpdateInv ==
    /\ lastmod <= modtime /\ modtime <= mtime
    /\ watcher = "read" => modtime > 0
    /\ cr # Invalid => lastmod > 0
    /\ cr # Invalid /\ lastmod = mtime => file = cr
    /\ cr # Invalid => watcher = "notify" \/ updates = {cr} \/ (updates = {} /\ cron = cr)
    /\ cr = Invalid => watcher # "notify" /\ updates = {}

LEMMA InitUpdate == Init => UpdateInv
    BY DEF Init, UpdateInv

LEMMA NextUpdate == TypeInv /\ UpdateInv /\ [Next]_vars => UpdateInv'
<1> SUFFICES ASSUME TypeInv, UpdateInv, [Next]_vars PROVE UpdateInv'
    OBVIOUS
<1>1. /\ modtime \in Nat /\ lastmod \in Nat /\ mtime \in Nat /\ mtime > 0
    BY BoundAssumption DEF TypeInv, TypeOK
<1>2. CASE StatFile
    BY <1>1, <1>2 DEF StatFile, UpdateInv, fileVars
<1>3. CASE ReadFile
    BY <1>1, <1>3 DEF ReadFile, UpdateInv, fileVars
<1>4. CASE Notify
    BY <1>1, <1>4 DEF Notify, UpdateInv, fileVars
<1>5. CASE UpdateCron
    BY <1>1, <1>5 DEF UpdateCron, UpdateInv, fileVars, watchVars
<1>6. CASE WriteFile
    BY <1>1, <1>6 DEF WriteFile, UpdateInv, watchVars
<1>7. CASE UNCHANGED <<cron, fileVars, watchVars, updates>>
    BY <1>7 DEF UpdateInv, fileVars, watchVars
<1> QED
    BY <1>2, <1>3, <1>4, <1>5, <1>6, <1>7
       DEF Next, LoopStep, SleeperStep, WatcherStep, Plan, Skip, StartRun, EndRun, CheckTime,
           WakeUp, Tick, Suspend, vars

(* No schedule that the watcher has read gets lost on its way to the loop, *)
(* and it reads every one that it has not seen.                            *)
THEOREM UpdatesArrive == Spec => []NoUpdateIsLost
<1>1. Init => UpdateInv
    BY InitUpdate
<1>2. TypeInv /\ UpdateInv /\ [Next]_vars => UpdateInv'
    BY NextUpdate
<1>3. UpdateInv => NoUpdateIsLost
    BY DEF UpdateInv, NoUpdateIsLost
<1> QED
    BY <1>1, <1>2, <1>3, Clock, PTL DEF Spec

=============================================================================
