--------------------------- MODULE BackupRunProofs ---------------------------
(***************************************************************************)
(* Proofs about BackupRun, for every set of API requests, every retention  *)
(* policy and every number of snapshots.                                   *)
(***************************************************************************)
EXTENDS BackupRun, SequenceTheorems, TLAPS

-----------------------------------------------------------------------------
(* Lemmas about the operators on the sequence of snapshots *)

(* A slice of a sequence that does not reach beyond its ends. *)
LEMMA SliceProperties ==
    ASSUME NEW S, NEW s \in Seq(S),
           NEW m \in 1 .. Len(s) + 1, NEW n \in (m - 1) .. Len(s)
    PROVE  /\ SubSeq(s, m, n) \in Seq(S)
           /\ Len(SubSeq(s, m, n)) = n - m + 1
           /\ \A i \in 1 .. (n - m + 1) : SubSeq(s, m, n)[i] = s[m + i - 1]
<1>1. Len(s) \in Nat
    BY LenProperties
<1>2. m \in Int /\ n \in Int
    BY <1>1
<1>3. \A i \in m .. n : s[i] \in S
    BY <1>1, ElementOfSeq
<1>4. /\ SubSeq(s, m, n) \in Seq(S)
      /\ Len(SubSeq(s, m, n)) = IF m <= n THEN n - m + 1 ELSE 0
      /\ \A i \in 1 .. (n - m + 1) : SubSeq(s, m, n)[i] = s[m + i - 1]
    BY <1>2, <1>3, SubSeqProperties
<1>5. CASE m <= n
    BY <1>4, <1>5
<1>6. CASE ~(m <= n)
    <2>1. n - m + 1 = 0
        BY <1>1, <1>6
    <2> QED
        BY <1>4, <1>6, <2>1
<1> QED
    BY <1>5, <1>6

(* What Newest keeps: at most n elements, all of them when there are no    *)
(* more, and the newest one in any case.                                   *)
LEMMA NewestProperties ==
    ASSUME NEW S, NEW s \in Seq(S), NEW n \in Nat \ {0}
    PROVE  /\ Newest(s, n) \in Seq(S)
           /\ Len(Newest(s, n)) <= n
           /\ s # <<>> => /\ Newest(s, n) # <<>>
                          /\ Last(Newest(s, n)) = Last(s)
<1>1. Len(s) \in Nat
    BY LenProperties
<1>2. CASE Len(s) <= n
    BY <1>2 DEF Newest
<1>3. CASE ~(Len(s) <= n)
    <2> DEFINE m == Len(s) - n + 1
               t == SubSeq(s, m, Len(s))
    <2>1. Newest(s, n) = t
        BY <1>3 DEF Newest
    <2>2. /\ m \in 1 .. Len(s) + 1
          /\ Len(s) \in (m - 1) .. Len(s)
          /\ Len(s) - m + 1 = n
          /\ m + n - 1 = Len(s)
        BY <1>1, <1>3
    <2>3. /\ t \in Seq(S)
          /\ Len(t) = n
          /\ t[n] = s[Len(s)]
        <3> HIDE DEF m
        <3> QED
            BY <2>2, SliceProperties
    <2>4. t # <<>>
        BY <2>3, EmptySeq
    <2> QED
        BY <2>1, <2>3, <2>4 DEF Last
<1> QED
    BY <1>2, <1>3

(* Removing one element leaves all others, the newest one as the newest. *)
LEMMA RemoveAtProperties ==
    ASSUME NEW S, NEW s \in Seq(S), NEW i \in 1 .. Len(s)
    PROVE  /\ RemoveAt(s, i) \in Seq(S)
           /\ Len(RemoveAt(s, i)) = Len(s) - 1
           /\ i # Len(s) => /\ RemoveAt(s, i) # <<>>
                            /\ Last(RemoveAt(s, i)) = Last(s)
           /\ \A j \in 1 .. Len(s) : j # i =>
                 \E k \in 1 .. Len(RemoveAt(s, i)) : RemoveAt(s, i)[k] = s[j]
<1> DEFINE a == SubSeq(s, 1, i - 1)
           b == SubSeq(s, i + 1, Len(s))
<1>1. Len(s) \in Nat
    BY LenProperties
<1>2. a \in Seq(S) /\ Len(a) = i - 1 /\ \A j \in 1 .. (i - 1) : a[j] = s[j]
    <2>1. /\ 1 \in 1 .. Len(s) + 1
          /\ i - 1 \in (1 - 1) .. Len(s)
          /\ i - 1 - 1 + 1 = i - 1
          /\ \A j \in 1 .. (i - 1) : 1 + j - 1 = j
        BY <1>1
    <2> DEFINE n == i - 1
    <2> HIDE DEF n
    <2>2. /\ SubSeq(s, 1, n) \in Seq(S)
          /\ Len(SubSeq(s, 1, n)) = n - 1 + 1
          /\ \A j \in 1 .. (n - 1 + 1) : SubSeq(s, 1, n)[j] = s[1 + j - 1]
        BY <2>1, SliceProperties DEF n
    <2> QED
        BY <2>1, <2>2 DEF n
<1>3. /\ b \in Seq(S)
      /\ Len(b) = Len(s) - i
      /\ i # Len(s) => b[Len(s) - i] = s[Len(s)]
      /\ \A j \in 1 .. (Len(s) - i) : b[j] = s[i + j]
    <2> DEFINE m == i + 1
    <2>1. /\ m \in 1 .. Len(s) + 1
          /\ Len(s) \in (m - 1) .. Len(s)
          /\ Len(s) - m + 1 = Len(s) - i
          /\ m + (Len(s) - i) - 1 = Len(s)
          /\ i # Len(s) => Len(s) - i \in 1 .. (Len(s) - i)
          /\ \A j \in 1 .. (Len(s) - i) : m + j - 1 = i + j
        BY <1>1
    <2>2. b = SubSeq(s, m, Len(s))
        OBVIOUS
    <2> HIDE DEF m, b
    <2>3. /\ SubSeq(s, m, Len(s)) \in Seq(S)
          /\ Len(SubSeq(s, m, Len(s))) = Len(s) - m + 1
          /\ \A j \in 1 .. (Len(s) - m + 1) : SubSeq(s, m, Len(s))[j] = s[m + j - 1]
        BY <2>1, SliceProperties
    <2> QED
        BY <2>1, <2>2, <2>3
<1> HIDE DEF a, b
<1>4. /\ a \o b \in Seq(S)
      /\ Len(a \o b) = Len(s) - 1
      /\ \A j \in 1 .. (Len(s) - 1) :
            (a \o b)[j] = IF j <= i - 1 THEN a[j] ELSE b[j - (i - 1)]
    <2>1. Len(a) + Len(b) = Len(s) - 1
        BY <1>1, <1>2, <1>3
    <2>2. /\ a \o b \in Seq(S)
          /\ Len(a \o b) = Len(a) + Len(b)
          /\ \A j \in 1 .. Len(a) + Len(b) :
                (a \o b)[j] = IF j <= Len(a) THEN a[j] ELSE b[j - Len(a)]
        BY <1>2, <1>3, ConcatProperties
    <2> QED
        BY <1>2, <2>1, <2>2, Zenon
<1>5. ASSUME i # Len(s)
      PROVE  a \o b # <<>> /\ (a \o b)[Len(s) - 1] = s[Len(s)]
    <2>1. /\ Len(s) - 1 \in 1 .. (Len(s) - 1)
          /\ ~(Len(s) - 1 <= i - 1)
          /\ Len(s) - 1 - (i - 1) = Len(s) - i
          /\ Len(s) - 1 # 0
        BY <1>1, <1>5
    <2> QED
        BY <1>3, <1>4, <1>5, <2>1, EmptySeq
<1>6. RemoveAt(s, i) = a \o b
    BY DEF RemoveAt, a, b
<1>7. ASSUME NEW j \in 1 .. Len(s), j # i
      PROVE  \E k \in 1 .. (Len(s) - 1) : (a \o b)[k] = s[j]
    <2>1. CASE j < i
        <3>1. j \in 1 .. (i - 1) /\ j \in 1 .. (Len(s) - 1) /\ j <= i - 1
            BY <1>1, <2>1
        <3> QED
            BY <1>2, <1>4, <3>1
    <2>2. CASE ~(j < i)
        <3>1. /\ j - 1 \in 1 .. (Len(s) - 1)
              /\ ~(j - 1 <= i - 1)
              /\ j - 1 - (i - 1) = j - i
              /\ j - i \in 1 .. (Len(s) - i)
              /\ i + (j - i) = j
            BY <1>1, <1>7, <2>2
        <3>2. (a \o b)[j - 1] = b[j - i]
            BY <1>4, <3>1
        <3>3. b[j - i] = s[j]
            BY <1>3, <3>1
        <3> QED
            BY <3>1, <3>2, <3>3
    <2> QED
        BY <2>1, <2>2
<1> QED
    BY <1>4, <1>5, <1>6, <1>7 DEF Last

(* Inserting an element leaves all others. *)
LEMMA InsertAtProperties ==
    ASSUME NEW S, NEW s \in Seq(S), NEW i \in 1 .. (Len(s) + 1), NEW e \in S
    PROVE  /\ InsertAt(s, i, e) \in Seq(S)
           /\ \A j \in 1 .. Len(s) :
                 \E k \in 1 .. Len(InsertAt(s, i, e)) : InsertAt(s, i, e)[k] = s[j]
<1> DEFINE a == SubSeq(s, 1, i - 1)
           b == SubSeq(s, i, Len(s))
           ae == a \o <<e>>
<1>1. Len(s) \in Nat
    BY LenProperties
<1>2. a \in Seq(S) /\ Len(a) = i - 1 /\ \A j \in 1 .. (i - 1) : a[j] = s[j]
    <2> DEFINE n == i - 1
    <2>1. /\ 1 \in 1 .. Len(s) + 1
          /\ n \in (1 - 1) .. Len(s)
          /\ n - 1 + 1 = n
          /\ \A j \in 1 .. n : 1 + j - 1 = j
        BY <1>1
    <2> HIDE DEF n
    <2>2. /\ SubSeq(s, 1, n) \in Seq(S)
          /\ Len(SubSeq(s, 1, n)) = n - 1 + 1
          /\ \A j \in 1 .. (n - 1 + 1) : SubSeq(s, 1, n)[j] = s[1 + j - 1]
        BY <2>1, SliceProperties
    <2> QED
        BY <2>1, <2>2 DEF n
<1>3. /\ b \in Seq(S)
      /\ Len(b) = Len(s) - i + 1
      /\ \A j \in 1 .. (Len(s) - i + 1) : b[j] = s[i + j - 1]
    <2>1. i \in 1 .. Len(s) + 1 /\ Len(s) \in (i - 1) .. Len(s)
        BY <1>1
    <2> QED
        BY <2>1, SliceProperties
<1>4. <<e>> \in Seq(S) /\ Len(<<e>>) = 1
    OBVIOUS
<1> HIDE DEF a, b
<1>5. /\ ae \in Seq(S)
      /\ Len(ae) = i
      /\ \A j \in 1 .. (i - 1) : ae[j] = s[j]
    <2>1. Len(a) + Len(<<e>>) = i
        BY <1>2, <1>4
    <2>2. /\ ae \in Seq(S)
          /\ Len(ae) = Len(a) + Len(<<e>>)
          /\ \A j \in 1 .. Len(a) + Len(<<e>>) :
                ae[j] = IF j <= Len(a) THEN a[j] ELSE <<e>>[j - Len(a)]
        BY <1>2, <1>4, ConcatProperties
    <2>3. ASSUME NEW j \in 1 .. (i - 1) PROVE ae[j] = s[j]
        <3>1. j \in 1 .. i /\ j <= i - 1
            OBVIOUS
        <3> HIDE DEF ae
        <3> QED
            BY <1>2, <2>1, <2>2, <3>1
    <2> QED
        BY <2>1, <2>2, <2>3
<1> HIDE DEF ae
<1>6. /\ ae \o b \in Seq(S)
      /\ Len(ae \o b) = Len(s) + 1
      /\ \A j \in 1 .. (Len(s) + 1) : (ae \o b)[j] = IF j <= i THEN ae[j] ELSE b[j - i]
    <2>1. Len(ae) + Len(b) = Len(s) + 1
        BY <1>1, <1>3, <1>5
    <2>2. /\ ae \o b \in Seq(S)
          /\ Len(ae \o b) = Len(ae) + Len(b)
          /\ \A j \in 1 .. Len(ae) + Len(b) :
                (ae \o b)[j] = IF j <= Len(ae) THEN ae[j] ELSE b[j - Len(ae)]
        BY <1>3, <1>5, ConcatProperties
    <2> QED
        BY <1>5, <2>1, <2>2, Zenon
<1>7. ASSUME NEW j \in 1 .. Len(s)
      PROVE  \E k \in 1 .. (Len(s) + 1) : (ae \o b)[k] = s[j]
    <2>1. CASE j < i
        <3>1. j \in 1 .. (i - 1) /\ j \in 1 .. (Len(s) + 1) /\ j <= i
            BY <1>1, <2>1
        <3> QED
            BY <1>5, <1>6, <3>1
    <2>2. CASE ~(j < i)
        <3>1. /\ j + 1 \in 1 .. (Len(s) + 1)
              /\ ~(j + 1 <= i)
              /\ j + 1 - i \in 1 .. (Len(s) - i + 1)
              /\ i + (j + 1 - i) - 1 = j
            BY <1>1, <2>2
        <3>2. (ae \o b)[j + 1] = b[j + 1 - i]
            BY <1>6, <3>1
        <3>3. b[j + 1 - i] = s[j]
            BY <1>3, <3>1
        <3> QED
            BY <3>1, <3>2, <3>3
    <2> QED
        BY <2>1, <2>2
<1>8. InsertAt(s, i, e) = ae \o b
    BY DEF InsertAt, a, b, ae
<1> QED
    BY <1>6, <1>7, <1>8

(* Settling a snapshot changes nothing else. *)
LEMMA SettleProperties ==
    ASSUME NEW s \in Seq(Kinds), NEW k \in Kinds
    PROVE  /\ Settle(s, k) \in Seq(Kinds)
           /\ Len(Settle(s, k)) = Len(s)
           /\ \A i \in 1 .. Len(s) : Settle(s, k)[i] = IF s[i] = "new" THEN k ELSE s[i]
           /\ s # <<>> => /\ Settle(s, k) # <<>>
                          /\ Last(Settle(s, k)) = IF Last(s) = "new" THEN k ELSE Last(s)
<1>1. Len(s) \in Nat
    BY LenProperties
<1>2. \A i \in 1 .. Len(s) : s[i] \in Kinds
    BY ElementOfSeq
<1>3. Settle(s, k) \in [1 .. Len(s) -> Kinds]
    BY <1>2 DEF Settle
<1>4. Settle(s, k) \in Seq(Kinds) /\ Len(Settle(s, k)) = Len(s)
    <2>1. Settle(s, k) \in Seq(Kinds)
        BY <1>1, <1>3, SeqDef
    <2>2. DOMAIN Settle(s, k) = 1 .. Len(s)
        BY <1>3
    <2>3. Len(Settle(s, k)) \in Nat /\ DOMAIN Settle(s, k) = 1 .. Len(Settle(s, k))
        BY <2>1, LenProperties
    <2>4. Len(Settle(s, k)) = Len(s)
        <3> DEFINE m == Len(Settle(s, k))
                   n == Len(s)
        <3>1. m \in Nat /\ n \in Nat /\ 1 .. m = 1 .. n
            BY <1>1, <2>2, <2>3
        <3> HIDE DEF m, n
        <3>2. m = n
            BY <3>1
        <3> QED
            BY <3>2 DEF m, n
    <2> QED
        BY <2>1, <2>4
<1>5. \A i \in 1 .. Len(s) : Settle(s, k)[i] = IF s[i] = "new" THEN k ELSE s[i]
    BY DEF Settle
<1>6. ASSUME s # <<>>
      PROVE  /\ Settle(s, k) # <<>>
             /\ Last(Settle(s, k)) = IF Last(s) = "new" THEN k ELSE Last(s)
    <2>1. Len(s) \in 1 .. Len(s)
        BY <1>1, <1>6, EmptySeq
    <2> QED
        BY <1>4, <1>5, <2>1, EmptySeq DEF Last
<1> QED
    BY <1>4, <1>5, <1>6

-----------------------------------------------------------------------------
(* Type correctness *)

(* The phase of a run fits the place it stands at. *)
PhaseMatchesStep ==
    \A c \in Callers :
        /\ Holds(c) => phase[c] \in Phases
        /\ step[c] = "saved" => phase[c] = "backup"

TypeInv == TypeOK /\ PhaseMatchesStep

LEMMA InitTypes == Init => TypeInv
<1> USE BoundAssumption DEF Init, Fresh, TypeInv, TypeOK, PhaseMatchesStep, Holds, Holding, Steps
<1> SUFFICES ASSUME Init PROVE TypeInv
    OBVIOUS
<1>1. snapshots \in Seq(Kinds)
    BY EmptySeq
<1> QED
    BY <1>1

(* Settling keeps the type of the repository. *)
LEMMA SettledTypes ==
    ASSUME TypeInv, NEW k \in {"good", "bad"}
    PROVE  Settle(snapshots, k) \in Seq(Kinds)
    BY SettleProperties DEF TypeInv, TypeOK, Kinds

LEMMA RestartTypes == TypeInv /\ Restart => TypeInv'
<1> SUFFICES ASSUME TypeInv, Restart PROVE TypeInv'
    OBVIOUS
<1>1. snapshots' \in Seq(Kinds)
    BY SettledTypes DEF Restart
<1> QED
    BY <1>1, BoundAssumption
       DEF Restart, Fresh, TypeInv, TypeOK, PhaseMatchesStep, Holds, Holding, Steps

(* A panic in a handler keeps the types if the caller's own changes do.    *)
LEMMA PanicTypes ==
    ASSUME TypeInv, NEW c \in Callers, Holds(c), c # Cron, Panic(c),
           snapshots' \in Seq(Kinds), orphans' \in 0..MaxOrphans,
           inProgress' \in SUBSET Phases, success' \in SUBSET (Phases \cup {"overall"})
    PROVE  TypeInv'
<1> USE DEF TypeInv, TypeOK, PhaseMatchesStep, Holds, Holding, Steps, Phases,
            HookPhases, CommandPhases
<1>1. step' = [step EXCEPT ![c] = "unlock"] /\ UNCHANGED phase
    BY DEF Panic, StepTo
<1>2. UNCHANGED <<booted, enabled, lock, housekeepingDue, err, meddled, phaseRunning>>
    BY DEF Panic
<1>3. aborted' = aborted \cup {phase[c]}
    BY DEF Panic
<1>4. aborted' \in SUBSET Phases
    BY <1>3
<1>5. PhaseMatchesStep'
    BY <1>1
<1> QED
    BY <1>1, <1>2, <1>4, <1>5

LEMMA RunStepTypes ==
    ASSUME TypeInv, NEW c \in Callers, RunStep(c)
    PROVE  TypeInv'
<1> USE DEF TypeInv, TypeOK, PhaseMatchesStep, Holds, Holding, Steps, Phases,
            HookPhases, CommandPhases, callerVars, gaugeVars, repoVars, StepTo
<1>1. CASE CheckEnabled(c)
    BY <1>1 DEF CheckEnabled
<1>2. CASE TryLock(c)
    <2>1. CASE lock = 0
        BY <1>2, <2>1 DEF TryLock, Enter
    <2>2. CASE lock # 0
        BY <1>2, <2>2 DEF TryLock
    <2> QED
        BY <2>1, <2>2
<1>3. CASE BeginPhase(c)
    <2>1. \A p \in Phases : phaseToCode[p] \in 0 .. 7
        BY DEF phaseToCode
    <2>2. phaseRunning' \in 0 .. 7
        BY <1>3, <2>1 DEF BeginPhase
    <2> QED
        BY <1>3, <2>2 DEF BeginPhase
<1>4. CASE Prepare(c)
    BY <1>4 DEF Prepare, Running, MarkDone, GoOn
<1>5. CASE HookFails(c)
    BY <1>5 DEF HookFails, MarkFailed, BreakOff
<1>6. CASE CommandFails(c)
    BY <1>6 DEF CommandFails, MarkFailed, BreakOff
<1>7. CASE ResticSaves(c)
    <2>1. snapshots' \in Seq(Kinds)
        <3>1. snapshots' = Append(snapshots, "new") /\ "new" \in Kinds
            BY <1>7 DEF ResticSaves, Kinds
        <3>2. snapshots \in Seq(Kinds)
            OBVIOUS
        <3> QED
            BY <3>1, <3>2, AppendProperties
    <2> QED
        BY <1>7, <2>1 DEF ResticSaves, Running
<1>8. CASE BackupDone(c)
    <2>1. snapshots' \in Seq(Kinds)
        BY <1>8, SettledTypes DEF BackupDone
    <2> QED
        BY <1>8, <2>1 DEF BackupDone, MarkDone, GoOn
<1>9. CASE Discard(c)
    <2>1. snapshots' \in Seq(Kinds)
        BY <1>9, SettledTypes, RemoveAtProperties DEF Discard, TakeBack
    <2> QED
        BY <1>9, <2>1 DEF Discard, MarkFailed, BreakOff
<1>10. CASE BackupEmpty(c)
    BY <1>10 DEF BackupEmpty, Running, MarkDone, BreakOff
<1>20. CASE GiveUp(c)
    <2>1. orphans' \in 0..MaxOrphans
        BY <1>20, BoundAssumption DEF GiveUp
    <2> QED
        BY <1>20, <2>1 DEF GiveUp, Running, MarkFailed, BreakOff
<1>21. CASE ReportPanics(c)
    <2>1. CASE c = Cron
        BY <1>21, <2>1, RestartTypes DEF ReportPanics, Panic
    <2>2. CASE c # Cron
        <3>1. snapshots' \in Seq(Kinds)
            BY <1>21, <2>2, SettledTypes DEF ReportPanics
        <3>2. orphans' \in 0..MaxOrphans
            BY <1>21, <2>2, BoundAssumption DEF ReportPanics
        <3>3. Holds(c) /\ Panic(c) /\ UNCHANGED <<inProgress, success>>
            BY <1>21, <2>2 DEF ReportPanics, Running
        <3> QED
            BY <2>2, <3>1, <3>2, <3>3, PanicTypes
    <2> QED
        BY <2>1, <2>2
<1>22. CASE ExpireOne(c)
    <2>1. snapshots' \in Seq(Kinds)
        <3>1. PICK i \in 1..(Len(snapshots) - KeepLast) : snapshots' = RemoveAt(snapshots, i)
            BY <1>22 DEF ExpireOne
        <3>2. i \in 1..Len(snapshots)
            BY KeepLastAssumption, LenProperties
        <3> QED
            BY <3>1, <3>2, RemoveAtProperties
    <2> QED
        BY <1>22, <2>1 DEF ExpireOne
<1>11. CASE Forget(c)
    <2>1. snapshots' \in Seq(Kinds)
        BY <1>11, NewestProperties, KeepLastAssumption DEF Forget
    <2> QED
        BY <1>11, <2>1 DEF Forget, Running, MarkDone, GoOn, AfterForget
<1>12. CASE ForgetPanics(c)
    <2>1. CASE c = Cron
        BY <1>12, <2>1, RestartTypes DEF ForgetPanics, Panic
    <2>2. CASE c # Cron
        <3>1. Holds(c) /\ Panic(c) /\ UNCHANGED <<snapshots, orphans>>
            BY <1>12, <2>2 DEF ForgetPanics, Running
        <3>2. /\ inProgress' \in SUBSET Phases
              /\ success' \in SUBSET (Phases \cup {"overall"})
            BY <1>12, <2>2, <3>1 DEF ForgetPanics
        <3> QED
            BY <2>2, <3>1, <3>2, PanicTypes
    <2> QED
        BY <2>1, <2>2
<1>13. CASE Prune(c)
    BY <1>13 DEF Prune, Running, MarkDone, GoOn
<1>14. CASE GetStats(c)
    BY <1>14 DEF GetStats, Running, MarkDone, GoOn
<1>15. CASE GetStatsPanics(c)
    <2>1. CASE c = Cron
        BY <1>15, <2>1, RestartTypes DEF GetStatsPanics, Panic
    <2>2. CASE c # Cron
        <3>1. Holds(c) /\ Panic(c) /\ UNCHANGED <<inProgress, success, snapshots, orphans>>
            BY <1>15, <2>2 DEF GetStatsPanics, Running
        <3> QED
            BY <2>2, <3>1, PanicTypes
    <2> QED
        BY <2>1, <2>2
<1>16. CASE S3Stats(c)
    BY <1>16 DEF S3Stats, Running, MarkDone, GoOn
<1>17. CASE Wrapup(c)
    BY <1>17 DEF Wrapup, Running, MarkDone, BreakOff
<1>18. CASE Report(c)
    BY <1>18 DEF Report
<1>19. CASE Unlock(c)
    BY <1>19 DEF Unlock
<1> QED
    BY <1>1, <1>2, <1>3, <1>4, <1>5, <1>6, <1>7, <1>8, <1>9, <1>10, <1>11,
       <1>12, <1>13, <1>14, <1>15, <1>16, <1>17, <1>18, <1>19, <1>20, <1>21, <1>22
       DEF RunStep

LEMMA NextTypes == TypeInv /\ [Next]_vars => TypeInv'
<1> SUFFICES ASSUME TypeInv, [Next]_vars PROVE TypeInv'
    OBVIOUS
<1> USE DEF TypeInv, TypeOK, PhaseMatchesStep, Holds, Holding, Steps, Phases,
            HookPhases, CommandPhases, callerVars, gaugeVars, repoVars, StepTo
<1>1. ASSUME NEW c \in Callers, Trigger(c) PROVE TypeInv'
    BY <1>1 DEF Trigger
<1>2. ASSUME NEW c \in Callers, RunStep(c) PROVE TypeInv'
    BY <1>2, RunStepTypes
<1>3. ASSUME NEW b \in BOOLEAN, SetEnabled(b) PROVE TypeInv'
    BY <1>3 DEF SetEnabled
<1>4. CASE FinishStart
    BY <1>4 DEF FinishStart
<1>5. CASE HousekeepingBecomesDue
    BY <1>5 DEF HousekeepingBecomesDue
<1>6. CASE OperatorForget
    <2>1. snapshots' \in Seq(Kinds)
        BY <1>6, RemoveAtProperties DEF OperatorForget
    <2> QED
        BY <1>6, <2>1 DEF OperatorForget
<1>7. CASE Restart
    BY <1>7, RestartTypes
<1>8. CASE UNCHANGED vars
    BY <1>8 DEF vars
<1>9. CASE OrphanEnds
    <2>1. snapshots' \in Seq(Kinds)
        BY <1>9, InsertAtProperties DEF OrphanEnds, Kinds
    <2>2. orphans' \in 0..MaxOrphans
        BY <1>9, BoundAssumption DEF OrphanEnds
    <2> QED
        BY <1>9, <2>1, <2>2 DEF OrphanEnds
<1> QED
    BY <1>1, <1>2, <1>3, <1>4, <1>5, <1>6, <1>7, <1>8, <1>9 DEF Next

(* Every variable keeps its type, and a run is always in a phase that      *)
(* fullBackupRun gives it.                                                 *)
THEOREM TypeCorrect == Spec => [](TypeOK /\ PhaseMatchesStep)
<1>1. Spec => []TypeInv
    BY InitTypes, NextTypes, PTL DEF Spec
<1> QED
    BY <1>1, PTL DEF TypeInv

-----------------------------------------------------------------------------
(* Mutual exclusion *)

(* With the types, OneRunAtATime is inductive: the token tells whether     *)
(* there is a run, so whoever finds the channel empty is alone.            *)
MutexInv == TypeInv /\ OneRunAtATime

LEMMA InitMutex == Init => OneRunAtATime
    BY DEF Init, Fresh, OneRunAtATime, Holds, Holding, Steps

LEMMA RestartMutex == Restart => OneRunAtATime'
    BY DEF Restart, Fresh, OneRunAtATime, Holds, Holding, Steps

(* A step inside the run neither moves the token nor makes a second        *)
(* holder.                                                                 *)
LEMMA InsideMutex ==
    ASSUME MutexInv, NEW c \in Callers, Holds(c), NEW s \in Holding,
           StepTo(c, s), lock' = lock
    PROVE  OneRunAtATime'
    BY DEF MutexInv, TypeInv, TypeOK, OneRunAtATime, Holds, StepTo, Holding, Steps

LEMMA RunStepMutex ==
    ASSUME MutexInv, NEW c \in Callers, RunStep(c)
    PROVE  OneRunAtATime'
<1> USE DEF Holds, Holding, Steps
<1> HIDE DEF OneRunAtATime
<1>1. CASE CheckEnabled(c)
    BY <1>1 DEF CheckEnabled, MutexInv, TypeInv, TypeOK, OneRunAtATime, StepTo
<1>2. CASE TryLock(c)
    BY <1>2 DEF TryLock, Enter, MutexInv, TypeInv, TypeOK, OneRunAtATime, StepTo
<1>3. CASE BeginPhase(c)
    BY <1>3, InsideMutex DEF BeginPhase
<1>4. CASE Prepare(c)
    BY <1>4, InsideMutex DEF Prepare, Running, GoOn
<1>5. CASE HookFails(c)
    BY <1>5, InsideMutex DEF HookFails, BreakOff
<1>6. CASE CommandFails(c)
    BY <1>6, InsideMutex DEF CommandFails, BreakOff
<1>7. CASE ResticSaves(c)
    BY <1>7, InsideMutex DEF ResticSaves, Running
<1>8. CASE BackupDone(c)
    BY <1>8, InsideMutex DEF BackupDone, GoOn
<1>9. CASE Discard(c)
    BY <1>9, InsideMutex DEF Discard, BreakOff
<1>10. CASE BackupEmpty(c)
    BY <1>10, InsideMutex DEF BackupEmpty, Running, BreakOff
<1>20. CASE GiveUp(c)
    BY <1>20, InsideMutex DEF GiveUp, Running, BreakOff
<1>21. CASE ReportPanics(c)
    <2>1. CASE c = Cron
        BY <1>21, <2>1, RestartMutex DEF ReportPanics, Panic
    <2>2. CASE c # Cron
        BY <1>21, <2>2, InsideMutex DEF ReportPanics, Panic, Running
    <2> QED
        BY <2>1, <2>2
<1>22. CASE ExpireOne(c)
    BY <1>22 DEF ExpireOne, callerVars, MutexInv, OneRunAtATime
<1>11. CASE Forget(c)
    BY <1>11, InsideMutex DEF Forget, Running, GoOn
<1>12. CASE ForgetPanics(c)
    <2>1. CASE c = Cron
        BY <1>12, <2>1, RestartMutex DEF ForgetPanics, Panic
    <2>2. CASE c # Cron
        BY <1>12, <2>2, InsideMutex DEF ForgetPanics, Panic, Running
    <2> QED
        BY <2>1, <2>2
<1>13. CASE Prune(c)
    BY <1>13, InsideMutex DEF Prune, Running, GoOn
<1>14. CASE GetStats(c)
    BY <1>14, InsideMutex DEF GetStats, Running, GoOn
<1>15. CASE GetStatsPanics(c)
    <2>1. CASE c = Cron
        BY <1>15, <2>1, RestartMutex DEF GetStatsPanics, Panic
    <2>2. CASE c # Cron
        BY <1>15, <2>2, InsideMutex DEF GetStatsPanics, Panic, Running
    <2> QED
        BY <2>1, <2>2
<1>16. CASE S3Stats(c)
    BY <1>16, InsideMutex DEF S3Stats, Running, GoOn
<1>17. CASE Wrapup(c)
    BY <1>17, InsideMutex DEF Wrapup, Running, BreakOff
<1>18. CASE Report(c)
    BY <1>18, InsideMutex DEF Report
<1>19. CASE Unlock(c)
    BY <1>19 DEF Unlock, MutexInv, TypeInv, TypeOK, OneRunAtATime, StepTo
<1> QED
    BY <1>1, <1>2, <1>3, <1>4, <1>5, <1>6, <1>7, <1>8, <1>9, <1>10, <1>11,
       <1>12, <1>13, <1>14, <1>15, <1>16, <1>17, <1>18, <1>19, <1>20, <1>21, <1>22
       DEF RunStep

LEMMA NextMutex == MutexInv /\ [Next]_vars => OneRunAtATime'
<1> SUFFICES ASSUME MutexInv, [Next]_vars PROVE OneRunAtATime'
    OBVIOUS
<1>1. ASSUME NEW c \in Callers, Trigger(c) PROVE OneRunAtATime'
    BY <1>1 DEF Trigger, MutexInv, TypeInv, TypeOK, OneRunAtATime, Holds, StepTo,
                Holding, Steps
<1>2. ASSUME NEW c \in Callers, RunStep(c) PROVE OneRunAtATime'
    BY <1>2, RunStepMutex
<1>3. CASE lock' = lock /\ step' = step
    BY <1>3 DEF MutexInv, OneRunAtATime, Holds
<1>4. CASE Restart
    BY <1>4, RestartMutex
<1>5. ASSUME NEW b \in BOOLEAN, SetEnabled(b) PROVE OneRunAtATime'
    BY <1>3, <1>5 DEF SetEnabled, callerVars
<1> QED
    BY <1>1, <1>2, <1>3, <1>4, <1>5
       DEF Next, vars, callerVars, FinishStart, HousekeepingBecomesDue, OperatorForget,
           OrphanEnds

LEMMA MutexInvariant == Spec => []MutexInv
<1>1. Init => MutexInv
    BY InitTypes, InitMutex DEF MutexInv
<1>2. MutexInv /\ [Next]_vars => MutexInv'
    BY NextTypes, NextMutex DEF MutexInv
<1> QED
    BY <1>1, <1>2, PTL DEF Spec

(* At most one caller is between the send on backupLockingChan and its     *)
(* deferred receive, for any number of handlers; the token is never lost.  *)
THEOREM MutualExclusion == Spec => []OneRunAtATime
    BY MutexInvariant, PTL DEF MutexInv

-----------------------------------------------------------------------------
(* The repository *)

(* Until its backup has ended, the snapshot of the run is the newest one.  *)
SavedIsNewest ==
    \A c \in Callers :
        step[c] = "saved" /\ meddled = {} => snapshots # <<>> /\ Last(snapshots) = "new"

(* What holds of the snapshots while a run goes on and nobody else writes  *)
(* to the repository.                                                      *)
SnapshotInv ==
    /\ RetentionHolds
    /\ SavedIsNewest
    /\ OwnSnapshotIsNewest

LEMMA InitSnapshots == Init => SnapshotInv
    BY DEF Init, Fresh, SnapshotInv, RetentionHolds, SavedIsNewest,
           OwnSnapshotIsNewest, Holds, Holding, Steps

LEMMA RestartSnapshots == Restart => SnapshotInv'
    BY DEF Restart, Fresh, SnapshotInv, RetentionHolds, SavedIsNewest,
           OwnSnapshotIsNewest, Holds, Holding, Steps

(* Appending makes a snapshot the newest one. *)
LEMMA AppendedIsNewest ==
    ASSUME NEW S, NEW s \in Seq(S), NEW k \in S
    PROVE  Append(s, k) # <<>> /\ Last(Append(s, k)) = k
    BY AppendProperties DEF Last

LEMMA RunStepSnapshots ==
    ASSUME MutexInv, SnapshotInv, NEW c \in Callers, RunStep(c)
    PROVE  SnapshotInv'
<1> USE DEF MutexInv, TypeInv, TypeOK, PhaseMatchesStep, OneRunAtATime,
            SnapshotInv, RetentionHolds, SavedIsNewest, OwnSnapshotIsNewest,
            Holds, Holding, Steps, StepTo, repoVars
<1>0. Len(snapshots) \in Nat
    BY LenProperties
<1>1. CASE CheckEnabled(c)
    BY <1>1 DEF CheckEnabled
<1>2. CASE TryLock(c)
    <2>1. CASE lock = 0
        BY <1>2, <2>1 DEF TryLock, Enter
    <2>2. CASE lock # 0
        BY <1>2, <2>2 DEF TryLock
    <2> QED
        BY <2>1, <2>2
<1>3. CASE BeginPhase(c)
    BY <1>3 DEF BeginPhase
<1>4. CASE Prepare(c)
    BY <1>4 DEF Prepare, Running, GoOn
<1>5. CASE HookFails(c)
    BY <1>5 DEF HookFails, BreakOff
<1>6. CASE CommandFails(c)
    BY <1>6 DEF CommandFails, BreakOff
<1>7. CASE ResticSaves(c)
    <2>1. /\ snapshots' = Append(snapshots, "new") /\ "new" \in Kinds
          /\ step' = [step EXCEPT ![c] = "saved"]
        BY <1>7 DEF ResticSaves, Kinds
    <2>2. snapshots' # <<>> /\ Last(snapshots') = "new"
        BY <2>1, AppendedIsNewest
    <2>3. phase' = phase /\ phase[c] = "backup" /\ Holds(c)
        BY <1>7 DEF ResticSaves, Running
    <2>4. \A d \in Callers : Holds(d)' => d = c
        BY <2>1, <2>3
    <2> QED
        BY <2>1, <2>2, <2>3, <2>4
<1>8. CASE BackupDone(c)
    <2>1. /\ step[c] = "saved" /\ Holds(c) /\ meddled' = meddled
          /\ step' = [step EXCEPT ![c] = "begin"]
          /\ phase' = [phase EXCEPT ![c] = "forget"]
          /\ snapshots' = Settle(snapshots, "good")
        BY <1>8 DEF BackupDone, GoOn
    <2>2. meddled = {} => snapshots' # <<>> /\ Last(snapshots') = "good"
        <3>1. "good" \in Kinds
            BY DEF Kinds
        <3> QED
            BY <2>1, <3>1, SettleProperties
    <2>3. \A d \in Callers : Holds(d)' => d = c
        BY <2>1
    <2>4. phase'[c] = "forget" /\ step'[c] = "begin"
        BY <2>1
    <2>5. RetentionHolds'
        BY <2>3, <2>4
    <2>6. SavedIsNewest'
        BY <2>1, <2>3, <2>4
    <2>7. OwnSnapshotIsNewest'
        BY <2>1, <2>2, Zenon DEF OwnSnapshotIsNewest
    <2> QED
        BY <2>5, <2>6, <2>7
<1>9. CASE Discard(c)
    <2>1. Holds(c) /\ phase[c] = "backup" /\ phase' = phase
        BY <1>9 DEF Discard, BreakOff
    <2>2. step' = [step EXCEPT ![c] = "report"]
        BY <1>9 DEF Discard, BreakOff
    <2>3. \A d \in Callers : Holds(d)' => d = c
        BY <2>1, <2>2
    <2> QED
        BY <2>1, <2>2, <2>3
<1>20. CASE GiveUp(c)
    BY <1>20 DEF GiveUp, Running, BreakOff
<1>21. CASE ReportPanics(c)
    <2>1. CASE c = Cron
        BY <1>21, <2>1, RestartSnapshots DEF ReportPanics, Panic
    <2>2. CASE c # Cron
        <3>1. Holds(c) /\ phase[c] = "backup" /\ phase' = phase
            BY <1>21, <2>2 DEF ReportPanics, Panic, Running
        <3>2. step' = [step EXCEPT ![c] = "unlock"]
            BY <1>21, <2>2 DEF ReportPanics, Panic
        <3>3. \A d \in Callers : Holds(d)' => d = c
            BY <3>1, <3>2
        <3> QED
            BY <3>1, <3>2, <3>3
    <2> QED
        BY <2>1, <2>2
<1>22. CASE ExpireOne(c)
    <2>1. PICK i \in 1..(Len(snapshots) - KeepLast) : snapshots' = RemoveAt(snapshots, i)
        BY <1>22 DEF ExpireOne
    <2>2. i \in 1..Len(snapshots) /\ i # Len(snapshots)
        BY <1>0, KeepLastAssumption
    <2>3. snapshots' # <<>> /\ Last(snapshots') = Last(snapshots)
        BY <2>1, <2>2, RemoveAtProperties
    <2>4. UNCHANGED <<step, phase, meddled>> /\ step[c] = "run" /\ phase[c] = "forget"
        BY <1>22 DEF ExpireOne, callerVars, Running
    <2>5. \A d \in Callers : Holds(d)' => d = c
        BY <2>4
    <2> QED
        BY <2>3, <2>4, <2>5
<1>10. CASE BackupEmpty(c)
    BY <1>10 DEF BackupEmpty, Running, BreakOff
<1>11. CASE Forget(c)
    <2>1. /\ Len(snapshots') <= KeepLast
          /\ snapshots' # <<>>
          /\ Last(snapshots') = Last(snapshots)
        BY <1>11, NewestProperties, KeepLastAssumption DEF Forget
    <2>2. /\ step' = [step EXCEPT ![c] = "begin"]
          /\ phase' = [phase EXCEPT ![c] = AfterForget]
          /\ Holds(c) /\ phase[c] = "forget" /\ meddled' = meddled
        BY <1>11 DEF Forget, Running, GoOn
    <2>3. \A d \in Callers : Holds(d)' => d = c
        BY <2>2
    <2> QED
        BY <2>1, <2>2, <2>3
<1>12. CASE ForgetPanics(c)
    <2>1. CASE c = Cron
        BY <1>12, <2>1, RestartSnapshots DEF ForgetPanics, Panic
    <2>2. CASE c # Cron
        BY <1>12, <2>2 DEF ForgetPanics, Panic, Running
    <2> QED
        BY <2>1, <2>2
<1>13. CASE Prune(c)
    BY <1>13 DEF Prune, Running, GoOn
<1>14. CASE GetStats(c)
    BY <1>14 DEF GetStats, Running, GoOn
<1>15. CASE GetStatsPanics(c)
    <2>1. CASE c = Cron
        BY <1>15, <2>1, RestartSnapshots DEF GetStatsPanics, Panic
    <2>2. CASE c # Cron
        BY <1>15, <2>2 DEF GetStatsPanics, Panic, Running
    <2> QED
        BY <2>1, <2>2
<1>16. CASE S3Stats(c)
    BY <1>16 DEF S3Stats, Running, GoOn
<1>17. CASE Wrapup(c)
    BY <1>17 DEF Wrapup, Running, BreakOff
<1>18. CASE Report(c)
    BY <1>18 DEF Report
<1>19. CASE Unlock(c)
    BY <1>19 DEF Unlock
<1> QED
    BY <1>1, <1>2, <1>3, <1>4, <1>5, <1>6, <1>7, <1>8, <1>9, <1>10, <1>11,
       <1>12, <1>13, <1>14, <1>15, <1>16, <1>17, <1>18, <1>19, <1>20, <1>21, <1>22
       DEF RunStep

LEMMA NextSnapshots == MutexInv /\ SnapshotInv /\ [Next]_vars => SnapshotInv'
<1> SUFFICES ASSUME MutexInv, SnapshotInv, [Next]_vars PROVE SnapshotInv'
    OBVIOUS
<1> USE DEF SnapshotInv, RetentionHolds, SavedIsNewest, OwnSnapshotIsNewest,
            Holds, Holding, Steps, StepTo, repoVars
<1>1. ASSUME NEW c \in Callers, Trigger(c) PROVE SnapshotInv'
    BY <1>1 DEF Trigger, MutexInv, TypeInv, TypeOK
<1>2. ASSUME NEW c \in Callers, RunStep(c) PROVE SnapshotInv'
    BY <1>2, RunStepSnapshots
<1>3. CASE UNCHANGED <<step, phase, snapshots, meddled>>
    BY <1>3
<1>4. CASE Restart
    BY <1>4, RestartSnapshots
<1>5. ASSUME NEW b \in BOOLEAN, SetEnabled(b) PROVE SnapshotInv'
    BY <1>3, <1>5 DEF SetEnabled, callerVars
<1>6. CASE OperatorForget
    <2>1. snapshots \in Seq(Kinds)
        BY DEF MutexInv, TypeInv, TypeOK
    <2>2. PICK i \in 1 .. Len(snapshots) : snapshots' = RemoveAt(snapshots, i)
        BY <1>6 DEF OperatorForget
    <2>3. Len(snapshots') = Len(snapshots) - 1
        BY <2>1, <2>2, RemoveAtProperties
    <2>4. step' = step /\ phase' = phase /\ meddled' = meddled \cup {"operator"}
        BY <1>6 DEF OperatorForget, callerVars
    <2>5. RetentionHolds'
        BY <2>1, <2>3, <2>4, LenProperties, KeepLastAssumption
    <2> QED
        BY <2>4, <2>5
<1>7. CASE OrphanEnds
    <2>1. CASE UNCHANGED <<snapshots, meddled>>
        BY <1>3, <1>7, <2>1 DEF OrphanEnds, callerVars
    <2>2. CASE meddled' = meddled \cup {"orphan"}
        BY <2>2
    <2> QED
        BY <1>7, <2>1, <2>2 DEF OrphanEnds
<1> QED
    BY <1>1, <1>2, <1>3, <1>4, <1>5, <1>6, <1>7
       DEF Next, vars, callerVars, FinishStart, HousekeepingBecomesDue

LEMMA SnapshotInvariant == Spec => [](MutexInv /\ SnapshotInv)
<1>1. Init => SnapshotInv
    BY InitSnapshots
<1>2. MutexInv /\ SnapshotInv /\ [Next]_vars => SnapshotInv'
    BY NextSnapshots
<1> QED
    BY <1>1, <1>2, MutexInvariant, PTL DEF Spec

(* Once a run is past its retention step, at most KeepLast snapshots are   *)
(* left: the leftovers of failed runs, every panic and every crash         *)
(* notwithstanding, until an orphan saves a late snapshot.                 *)
THEOREM Retention == Spec => []RetentionHolds
    BY SnapshotInvariant, PTL DEF SnapshotInv

(* As long as nobody else writes to the repository during a run, its own   *)
(* good snapshot is the newest one from the end of its backup to its       *)
(* verdict.                                                                *)
THEOREM OwnSnapshot == Spec => []OwnSnapshotIsNewest
    BY SnapshotInvariant, PTL DEF SnapshotInv

(* Only these actions write to the repository. *)
LEMMA OnlyWriters ==
    ASSUME [Next]_vars
    PROVE  \/ snapshots' = snapshots
           \/ snapshots' \in {Settle(snapshots, "good"), Settle(snapshots, "bad")}
           \/ \E c \in Callers : ResticSaves(c) \/ Discard(c) \/ Forget(c) \/ ExpireOne(c)
           \/ meddled' # {}
<1>1. Restart => snapshots' = Settle(snapshots, "bad")
    BY DEF Restart
<1>2. ASSUME NEW c \in Callers, RunStep(c)
      PROVE  \/ snapshots' = snapshots
             \/ snapshots' \in {Settle(snapshots, "good"), Settle(snapshots, "bad")}
             \/ ResticSaves(c) \/ Discard(c) \/ Forget(c) \/ ExpireOne(c)
    BY <1>1, <1>2
       DEF RunStep, CheckEnabled, TryLock, BeginPhase, Prepare, HookFails,
           CommandFails, BackupDone, BackupEmpty, GiveUp, ReportPanics, ForgetPanics,
           Prune, GetStats, GetStatsPanics, S3Stats, Wrapup, Report, Unlock, Panic, repoVars
<1>3. ASSUME NEW b \in BOOLEAN, SetEnabled(b) PROVE snapshots' = snapshots
    BY <1>3 DEF SetEnabled, repoVars
<1>4. CASE OrphanEnds
    BY <1>4 DEF OrphanEnds
<1> QED
    BY <1>1, <1>2, <1>3, <1>4
       DEF Next, vars, Trigger, FinishStart, HousekeepingBecomesDue, OperatorForget, repoVars

(* A run that is alone with the repository removes only its own snapshot   *)
(* and those that are older than its own.                                  *)
LEMMA GoodStep ==
    ASSUME MutexInv, SnapshotInv, [Next]_vars, HasGood, meddled' = {}
    PROVE  HasGood'
<1>1. snapshots \in Seq(Kinds) /\ Len(snapshots) \in Nat
    BY LenProperties DEF MutexInv, TypeInv, TypeOK
<1>0. PICK g \in 1 .. Len(snapshots) : snapshots[g] = "good"
    BY DEF HasGood
<1>2. CASE snapshots' = snapshots
    BY <1>2 DEF HasGood
<1>3. ASSUME NEW k \in {"good", "bad"}, snapshots' = Settle(snapshots, k) PROVE HasGood'
    <2>1. k \in Kinds
        BY DEF Kinds
    <2>2. /\ Len(snapshots') = Len(snapshots)
          /\ \A i \in 1 .. Len(snapshots) :
                snapshots'[i] = IF snapshots[i] = "new" THEN k ELSE snapshots[i]
        BY <1>1, <1>3, <2>1, SettleProperties
    <2> QED
        BY <1>0, <2>2 DEF HasGood
<1>4. ASSUME NEW c \in Callers, ResticSaves(c) PROVE HasGood'
    <2>1. snapshots' = Append(snapshots, "new") /\ "new" \in Kinds
        BY <1>4 DEF ResticSaves, Kinds
    <2>2. /\ Len(snapshots') = Len(snapshots) + 1
          /\ \A i \in 1 .. Len(snapshots) : snapshots'[i] = snapshots[i]
        BY <1>1, <2>1, AppendProperties
    <2> QED
        BY <1>1, <1>0, <2>2 DEF HasGood
<1>5. ASSUME NEW c \in Callers, Discard(c) PROVE HasGood'
    <2>1. CASE snapshots' = Settle(snapshots, "bad")
        BY <1>3, <2>1
    <2>2. ASSUME NEW i \in 1 .. Len(snapshots), snapshots[i] = "new",
                 snapshots' = RemoveAt(snapshots, i)
          PROVE  HasGood'
        <3>1. g # i
            BY <1>0, <2>2
        <3>2. \E k \in 1 .. Len(RemoveAt(snapshots, i)) :
                  RemoveAt(snapshots, i)[k] = snapshots[g]
            BY <1>1, <3>1, RemoveAtProperties
        <3> QED
            BY <1>0, <2>2, <3>2 DEF HasGood
    <2> QED
        BY <1>5, <2>1, <2>2 DEF Discard, TakeBack
<1>6. ASSUME NEW c \in Callers, Forget(c) \/ ExpireOne(c) PROVE HasGood'
    <2>1. snapshots # <<>> /\ Last(snapshots) = "good"
        BY <1>6 DEF Forget, ExpireOne, Running, SnapshotInv, OwnSnapshotIsNewest, Holds,
                    Holding, Steps
    <2>2. /\ snapshots' \in Seq(Kinds)
          /\ snapshots' # <<>>
          /\ Last(snapshots') = "good"
        <3>1. CASE Forget(c)
            BY <1>1, <2>1, <3>1, NewestProperties, KeepLastAssumption DEF Forget
        <3>2. CASE ExpireOne(c)
            <4>1. PICK i \in 1..(Len(snapshots) - KeepLast) :
                      snapshots' = RemoveAt(snapshots, i)
                BY <3>2 DEF ExpireOne
            <4>2. i \in 1..Len(snapshots) /\ i # Len(snapshots)
                BY <1>1, KeepLastAssumption
            <4> QED
                BY <1>1, <2>1, <4>1, <4>2, RemoveAtProperties
        <3> QED
            BY <1>6, <3>1, <3>2
    <2>3. Len(snapshots') \in 1 .. Len(snapshots')
        BY <2>2, EmptySeq
    <2> QED
        BY <2>2, <2>3 DEF HasGood, Last
<1> QED
    BY <1>2, <1>3, <1>4, <1>5, <1>6, OnlyWriters

(* The service never removes the last snapshot of a successful backup,     *)
(* however its runs fail, panic, overlap or are cut off, unless an orphan  *)
(* or the operator writes to the repository during the run that does it.   *)
THEOREM GoodSurvives == Spec => GoodSnapshotSurvives
<1>1. MutexInv /\ SnapshotInv /\ [Next]_vars => [HasGood => HasGood' \/ meddled' # {}]_vars
    BY GoodStep
<1> QED
    BY <1>1, SnapshotInvariant, PTL DEF Spec, GoodSnapshotSurvives

-----------------------------------------------------------------------------
(* The gauges.  Only a panic leaves them behind, and "aborted" knows its   *)
(* phase until that phase begins again.                                    *)

GaugeInv ==
    /\ \A c \in Callers : InFunction(c) =>
          phase[c] \in inProgress /\ phaseRunning = phaseToCode[phase[c]]
    /\ \A p \in inProgress :
          p \in aborted \/ \E c \in Callers : InFunction(c) /\ phase[c] = p
    /\ phaseRunning # 0 =>
          \/ \E c \in Callers : Holds(c) /\ step[c] # "unlock"
          \/ \E p \in aborted : phaseRunning = phaseToCode[p]

LEMMA InitGauges == Init => GaugeInv
    BY DEF Init, Fresh, GaugeInv, InFunction

LEMMA RestartGauges == Restart => GaugeInv'
    BY DEF Restart, Fresh, GaugeInv, InFunction

(* The holder leaves the function of its phase. *)
LEMMA LeaveGauges ==
    ASSUME MutexInv, GaugeInv, NEW c \in Callers, InFunction(c),
           NEW s \in {"begin", "report"}, StepTo(c, s), MarkDone(c) \/ MarkFailed(c)
    PROVE  GaugeInv'
<1> USE DEF Holds, Holding, Steps, InFunction
<1>1. step'[c] = s /\ \A d \in Callers : d # c => step'[d] = step[d]
    BY DEF StepTo, MutexInv, TypeInv, TypeOK
<1>2. \A d \in Callers : d # c => ~Holds(d)
    BY DEF MutexInv, OneRunAtATime
<1>3. /\ inProgress' = inProgress \ {phase[c]}
      /\ phaseRunning' = phaseRunning /\ aborted' = aborted
    BY DEF MarkDone, MarkFailed
<1>4. \A p \in inProgress' : p \in aborted
    BY <1>2, <1>3 DEF GaugeInv
<1> QED
    BY <1>1, <1>2, <1>3, <1>4 DEF GaugeInv

(* The holder panics in a handler. *)
LEMMA PanicGauges ==
    ASSUME MutexInv, GaugeInv, NEW c \in Callers, InFunction(c), StepTo(c, "unlock"),
           aborted' = aborted \cup {phase[c]}, phaseRunning' = phaseRunning,
           inProgress' \subseteq inProgress
    PROVE  GaugeInv'
<1> USE DEF Holds, Holding, Steps, InFunction
<1>1. step'[c] = "unlock" /\ \A d \in Callers : d # c => step'[d] = step[d]
    BY DEF StepTo, MutexInv, TypeInv, TypeOK
<1>2. \A d \in Callers : d # c => ~Holds(d)
    BY DEF MutexInv, OneRunAtATime
<1>3. \A p \in inProgress' : p \in aborted'
    BY <1>2 DEF GaugeInv
<1>4. phaseRunning' = phaseToCode[phase[c]] /\ phase[c] \in aborted'
    BY DEF GaugeInv
<1> QED
    BY <1>1, <1>2, <1>3, <1>4 DEF GaugeInv

LEMMA RunStepGauges ==
    ASSUME MutexInv, GaugeInv, NEW c \in Callers, RunStep(c)
    PROVE  GaugeInv'
<1> USE DEF Holds, Holding, Steps, InFunction
<1>0. \A s : StepTo(c, s) =>
          step'[c] = s /\ \A d \in Callers : d # c => step'[d] = step[d]
    BY DEF StepTo, MutexInv, TypeInv, TypeOK
<1>m. \A d \in Callers : d # c /\ Holds(c) => ~Holds(d)
    BY DEF MutexInv, OneRunAtATime
<1>1. CASE CheckEnabled(c) \/ TryLock(c)
    <2>1. PICK s \in {"idle", "lock", "begin"} : StepTo(c, s)
        BY <1>1 DEF CheckEnabled, TryLock, Enter
    <2>2. /\ UNCHANGED gaugeVars /\ step[c] \in {"check", "lock"}
          /\ \A d \in Callers : d # c => phase'[d] = phase[d]
        BY <1>1 DEF CheckEnabled, TryLock, Enter, MutexInv, TypeInv, TypeOK
    <2> QED
        BY <1>0, <2>1, <2>2 DEF GaugeInv, gaugeVars
<1>2. CASE BeginPhase(c)
    <2>1. step'[c] = "run" /\ phase' = phase /\ Holds(c)
        BY <1>0, <1>2 DEF BeginPhase
    <2>2. \A p \in inProgress : p \in aborted
        BY <1>2, <1>m, <2>1 DEF BeginPhase, GaugeInv
    <2>3. /\ inProgress' = inProgress \cup {phase[c]}
          /\ aborted' = aborted \ {phase[c]}
          /\ phaseRunning' = phaseToCode[phase[c]]
        BY <1>2 DEF BeginPhase
    <2>4. \A d \in Callers : InFunction(d)' => d = c
        BY <1>0, <1>2, <1>m, <2>1 DEF BeginPhase
    <2>5. \A p \in inProgress' : p \in aborted' \/ p = phase'[c]
        BY <2>1, <2>2, <2>3
    <2> QED
        BY <2>1, <2>3, <2>4, <2>5 DEF GaugeInv
<1>3. CASE Prepare(c) \/ BackupDone(c) \/ Prune(c) \/ GetStats(c) \/ S3Stats(c) \/ Forget(c)
    BY <1>3, LeaveGauges
       DEF Prepare, BackupDone, Prune, GetStats, S3Stats, Forget, Running, GoOn
<1>4. CASE HookFails(c) \/ CommandFails(c) \/ Discard(c) \/ GiveUp(c) \/ BackupEmpty(c)
           \/ Wrapup(c)
    BY <1>4, LeaveGauges
       DEF HookFails, CommandFails, Discard, GiveUp, BackupEmpty, Wrapup, Running, BreakOff
<1>5. CASE ResticSaves(c)
    <2>1. StepTo(c, "saved") /\ UNCHANGED <<phase, gaugeVars>> /\ step[c] = "run"
        BY <1>5 DEF ResticSaves, Running
    <2> QED
        BY <1>0, <1>m, <2>1 DEF GaugeInv, gaugeVars
<1>6. CASE ReportPanics(c) \/ ForgetPanics(c) \/ GetStatsPanics(c)
    <2>1. CASE c = Cron
        BY <1>6, <2>1, RestartGauges DEF ReportPanics, ForgetPanics, GetStatsPanics, Panic
    <2>2. CASE c # Cron
        BY <1>6, <2>2, PanicGauges
           DEF ReportPanics, ForgetPanics, GetStatsPanics, Panic, Running
    <2> QED
        BY <2>1, <2>2
<1>7. CASE Report(c)
    BY <1>0, <1>7, <1>m DEF Report, GaugeInv
<1>8. CASE Unlock(c)
    <2>1. /\ step'[c] = "idle" /\ step[c] = "unlock" /\ UNCHANGED gaugeVars
          /\ \A d \in Callers : d # c => ~Holds(d) /\ step'[d] = step[d]
        BY <1>0, <1>8, <1>m DEF Unlock
    <2> QED
        BY <2>1 DEF GaugeInv, gaugeVars
<1>9. CASE ExpireOne(c)
    BY <1>9 DEF ExpireOne, callerVars, gaugeVars, GaugeInv
<1> QED
    BY <1>1, <1>2, <1>3, <1>4, <1>5, <1>6, <1>7, <1>8, <1>9 DEF RunStep

LEMMA NextGauges ==
    ASSUME MutexInv, GaugeInv, [Next]_vars
    PROVE  GaugeInv'
<1>1. ASSUME NEW c \in Callers, Trigger(c) PROVE GaugeInv'
    <2>1. /\ step'[c] = "check" /\ step[c] = "idle" /\ UNCHANGED <<phase, gaugeVars>>
          /\ \A d \in Callers : d # c => step'[d] = step[d]
        BY <1>1 DEF Trigger, StepTo, MutexInv, TypeInv, TypeOK
    <2> QED
        BY <2>1 DEF GaugeInv, InFunction, Holds, Holding, Steps, gaugeVars
<1>2. ASSUME NEW c \in Callers, RunStep(c) PROVE GaugeInv'
    BY <1>2, RunStepGauges
<1>3. CASE UNCHANGED <<step, phase, gaugeVars>>
    BY <1>3 DEF GaugeInv, InFunction, Holds, gaugeVars
<1>4. CASE Restart
    BY <1>4, RestartGauges
<1>5. ASSUME NEW b \in BOOLEAN, SetEnabled(b) PROVE GaugeInv'
    BY <1>3, <1>5 DEF SetEnabled, callerVars
<1> QED
    BY <1>1, <1>2, <1>3, <1>4, <1>5
       DEF Next, vars, callerVars, FinishStart, HousekeepingBecomesDue, OperatorForget,
           OrphanEnds

(* The progress gauges are those of the one running phase, whoever is      *)
(* turned away, fails or dies; what a panic leaves of them is gone when    *)
(* its phase begins again, or another run has got on.                      *)
THEOREM Gauges == Spec => []GaugesTellTheRun
<1>1. MutexInv /\ GaugeInv /\ [Next]_vars => GaugeInv'
    BY NextGauges
<1>2. GaugeInv => GaugesTellTheRun
    BY DEF GaugeInv, GaugesTellTheRun, RunningPhases
<1> QED
    BY <1>1, <1>2, InitGauges, MutexInvariant, PTL DEF Spec

-----------------------------------------------------------------------------
(* The verdict.  err is set in no other place than the one from which the  *)
(* run goes to its report, together with the gauge of the phase.           *)

VerdictInv ==
    \A c \in Callers :
        /\ step[c] \notin {"report", "unlock"} => ~err[c]
        /\ step[c] = "report" /\ phase[c] \notin HookPhases =>
              (err[c] <=> phase[c] \notin success)

LEMMA InitVerdict == Init => VerdictInv
    BY DEF Init, Fresh, VerdictInv

LEMMA RestartVerdict == Restart => VerdictInv'
    BY DEF Restart, Fresh, VerdictInv

(* A step that leaves err alone and stops short of the report. *)
LEMMA CarryVerdict ==
    ASSUME MutexInv, VerdictInv, NEW c \in Callers, step[c] # "report",
           NEW s \in Steps \ {"report"}, StepTo(c, s), UNCHANGED err,
           step[c] = "unlock" => s = "unlock",
           \A d \in Callers : d # c => phase'[d] = phase[d],
           Holds(c) \/ UNCHANGED success
    PROVE  VerdictInv'
<1>1. step'[c] = s /\ \A d \in Callers : d # c => step'[d] = step[d]
    BY DEF StepTo, MutexInv, TypeInv, TypeOK
<1>2. Holds(c) => \A d \in Callers : d # c => step[d] # "report"
    BY DEF MutexInv, OneRunAtATime, Holds, Holding, Steps
<1> QED
    BY <1>1, <1>2 DEF VerdictInv

(* The holder breaks off the loop with what its phase has come to. *)
LEMMA BreakVerdict ==
    ASSUME MutexInv, VerdictInv, NEW c \in Callers, Holds(c),
           NEW e \in BOOLEAN, BreakOff(c, e),
           phase[c] \notin HookPhases => IF e THEN MarkFailed(c) ELSE MarkDone(c)
    PROVE  VerdictInv'
<1>1. /\ step'[c] = "report" /\ err'[c] = e /\ phase' = phase
      /\ \A d \in Callers : d # c => step'[d] = step[d] /\ err'[d] = err[d]
    BY DEF BreakOff, StepTo, MutexInv, TypeInv, TypeOK
<1>2. \A d \in Callers : d # c => step[d] # "report"
    BY DEF MutexInv, OneRunAtATime, Holds, Holding, Steps
<1>3. phase[c] \notin HookPhases => (e <=> phase[c] \notin success')
    BY DEF MarkFailed, MarkDone
<1> QED
    BY <1>1, <1>2, <1>3 DEF VerdictInv

LEMMA RunStepVerdict ==
    ASSUME MutexInv, VerdictInv, NEW c \in Callers, RunStep(c)
    PROVE  VerdictInv'
<1> USE DEF Holds, Holding, Steps
<1>0. /\ \A p : phase' = [phase EXCEPT ![c] = p] =>
            \A d \in Callers : d # c => phase'[d] = phase[d]
      /\ err[c] \in BOOLEAN
    BY DEF MutexInv, TypeInv, TypeOK
<1>1. CASE CheckEnabled(c) \/ TryLock(c)
    <2>1. PICK s \in {"idle", "lock", "begin"} : StepTo(c, s)
        BY <1>1 DEF CheckEnabled, TryLock, Enter
    <2>2. /\ UNCHANGED <<err, success>> /\ step[c] \in {"check", "lock"}
          /\ \A d \in Callers : d # c => phase'[d] = phase[d]
        BY <1>0, <1>1 DEF CheckEnabled, TryLock, Enter, gaugeVars
    <2> QED
        BY <2>1, <2>2, CarryVerdict
<1>2. CASE BeginPhase(c)
    BY <1>2, CarryVerdict DEF BeginPhase
<1>3. CASE Prepare(c) \/ BackupDone(c) \/ Prune(c) \/ GetStats(c) \/ S3Stats(c) \/ Forget(c)
    <2>1. /\ StepTo(c, "begin") /\ UNCHANGED err /\ step[c] \in {"run", "saved"}
          /\ \A d \in Callers : d # c => phase'[d] = phase[d]
        BY <1>0, <1>3
           DEF Prepare, BackupDone, Prune, GetStats, S3Stats, Forget, Running, GoOn
    <2> QED
        BY <2>1, CarryVerdict
<1>4. CASE HookFails(c) \/ Wrapup(c)
    <2>1. phase[c] \in HookPhases /\ BreakOff(c, err[c]) /\ step[c] = "run"
        BY <1>4 DEF HookFails, Wrapup, Running, HookPhases
    <2> QED
        BY <1>0, <2>1, BreakVerdict
<1>5. CASE CommandFails(c) \/ Discard(c) \/ GiveUp(c)
    BY <1>5, BreakVerdict DEF CommandFails, Discard, GiveUp, Running
<1>6. CASE BackupEmpty(c)
    BY <1>6, BreakVerdict DEF BackupEmpty, Running
<1>7. CASE ResticSaves(c)
    BY <1>7, CarryVerdict DEF ResticSaves, Running
<1>8. CASE ReportPanics(c) \/ ForgetPanics(c) \/ GetStatsPanics(c)
    <2>1. CASE c = Cron
        BY <1>8, <2>1, RestartVerdict DEF ReportPanics, ForgetPanics, GetStatsPanics, Panic
    <2>2. CASE c # Cron
        BY <1>8, <2>2, CarryVerdict
           DEF ReportPanics, ForgetPanics, GetStatsPanics, Panic, Running
    <2> QED
        BY <2>1, <2>2
<1>9. CASE Report(c)
    <2>1. /\ step'[c] = "unlock" /\ UNCHANGED <<phase, err>>
          /\ \A d \in Callers : d # c => step'[d] = step[d]
        BY <1>9 DEF Report, StepTo, MutexInv, TypeInv, TypeOK
    <2>2. \A d \in Callers : d # c => step[d] # "report"
        BY <1>9 DEF Report, MutexInv, OneRunAtATime
    <2> QED
        BY <2>1, <2>2 DEF VerdictInv
<1>10. CASE Unlock(c)
    <2>1. /\ step'[c] = "idle" /\ ~err'[c] /\ UNCHANGED success
          /\ \A d \in Callers : d # c =>
                step'[d] = step[d] /\ err'[d] = err[d] /\ phase'[d] = phase[d]
        BY <1>10 DEF Unlock, StepTo, gaugeVars, MutexInv, TypeInv, TypeOK
    <2> QED
        BY <2>1 DEF VerdictInv
<1>11. CASE ExpireOne(c)
    BY <1>11 DEF ExpireOne, callerVars, gaugeVars, VerdictInv
<1> QED
    BY <1>1, <1>2, <1>3, <1>4, <1>5, <1>6, <1>7, <1>8, <1>9, <1>10, <1>11 DEF RunStep

LEMMA NextVerdict ==
    ASSUME MutexInv, VerdictInv, [Next]_vars
    PROVE  VerdictInv'
<1>1. ASSUME NEW c \in Callers, Trigger(c) PROVE VerdictInv'
    BY <1>1, CarryVerdict DEF Trigger, gaugeVars, Steps
<1>2. ASSUME NEW c \in Callers, RunStep(c) PROVE VerdictInv'
    BY <1>2, RunStepVerdict
<1>3. CASE UNCHANGED <<callerVars, gaugeVars>>
    BY <1>3 DEF VerdictInv, callerVars, gaugeVars
<1>4. CASE Restart
    BY <1>4, RestartVerdict
<1>5. ASSUME NEW b \in BOOLEAN, SetEnabled(b) PROVE VerdictInv'
    BY <1>3, <1>5 DEF SetEnabled
<1> QED
    BY <1>1, <1>2, <1>3, <1>4, <1>5
       DEF Next, vars, FinishStart, HousekeepingBecomesDue, OperatorForget, OrphanEnds

(* Only the report itself leads from "report" to "unlock". *)
LEMMA OnlyReport ==
    ASSUME MutexInv, [Next]_vars, NEW c \in Callers, Reported(c)
    PROVE  Report(c)
<1> USE DEF Reported, Steps, Holding
<1>1. ASSUME NEW d \in Callers, RunStep(d) PROVE d = c /\ Report(c)
    <2>1. CASE Restart
        BY <2>1 DEF Restart, Fresh
    <2>2. CASE ~Restart
        <3>0. ~ExpireOne(d)
            BY DEF ExpireOne, callerVars
        <3>1. PICK s : StepTo(d, s)
            BY <1>1, <2>2, <3>0
               DEF RunStep, CheckEnabled, TryLock, BeginPhase, Prepare, HookFails,
                   CommandFails, ResticSaves, BackupDone, Discard, BackupEmpty, Forget,
                   GiveUp, ReportPanics, ForgetPanics, Prune, GetStats, GetStatsPanics,
                   S3Stats, Wrapup, Report, Unlock, Panic, GoOn, BreakOff, Enter
        <3>2. d = c
            BY <3>1 DEF StepTo, MutexInv, TypeInv, TypeOK
        <3> QED
            BY <1>1, <2>2, <3>0, <3>2
               DEF RunStep, CheckEnabled, TryLock, BeginPhase, Prepare, HookFails,
                   CommandFails, ResticSaves, BackupDone, Discard, BackupEmpty, Forget,
                   GiveUp, ReportPanics, ForgetPanics, Prune, GetStats, GetStatsPanics,
                   S3Stats, Wrapup, Unlock, Running
    <2> QED
        BY <2>1, <2>2
<1>2. ASSUME NEW d \in Callers, Trigger(d) PROVE FALSE
    BY <1>2 DEF Trigger, StepTo, MutexInv, TypeInv, TypeOK
<1>3. CASE Restart
    BY <1>3 DEF Restart, Fresh
<1> QED
    BY <1>1, <1>2, <1>3
       DEF Next, vars, callerVars, SetEnabled, FinishStart, HousekeepingBecomesDue,
           OperatorForget, OrphanEnds

(* The verdict of a run is that of the phase it has ended in, unless that  *)
(* is a hook: for every set of callers, whatever panics or is removed.     *)
THEOREM FailureIsReported == Spec => CommandFailureIsReported
<1>1. ASSUME MutexInv, VerdictInv, [Next]_vars, NEW c \in Callers,
             Reported(c), phase[c] \notin HookPhases
      PROVE  "overall" \in success' <=> phase[c] \in success
    <2>1. Report(c)
        BY <1>1, OnlyReport
    <2>2. err[c] <=> phase[c] \notin success
        BY <1>1 DEF VerdictInv, Reported
    <2>3. "overall" \in success' <=> ~err[c]
        BY <2>1 DEF Report
    <2> QED
        BY <2>2, <2>3
<1>2. MutexInv /\ VerdictInv /\ [Next]_vars =>
        [\A c \in Callers : Reported(c) /\ phase[c] \notin HookPhases
            => ("overall" \in success' <=> phase[c] \in success)]_vars
    BY <1>1
<1>3. MutexInv /\ VerdictInv /\ [Next]_vars => VerdictInv'
    BY NextVerdict
<1> QED
    BY <1>2, <1>3, InitVerdict, MutexInvariant, PTL DEF Spec, CommandFailureIsReported

-----------------------------------------------------------------------------
(* Refinement of BackupContract *)

LEMMA InitContract == Init => Contract!Init
    BY DEF Init, Fresh, Contract!Init, stageOf, stageOfPhase, Holds, Holding, Steps

(* A step of one caller moves the stage of no other. *)
LEMMA StageMoves ==
    ASSUME TypeInv, NEW c \in Callers, NEW s \in Steps, StepTo(c, s),
           \A d \in Callers : d # c => phase'[d] = phase[d],
           NEW from, stageOf(c) \in from, NEW to, stageOf(c)' = to
    PROVE  Contract!MoveTo(c, from, to)
<1>1. \A d \in Callers : d # c => stageOf(d)' = stageOf(d)
    BY DEF StepTo, TypeInv, TypeOK, stageOf, stageOfPhase, Holds, Holding, Steps
<1> QED
    BY <1>1 DEF Contract!MoveTo

(* A step that does not move the stage of its caller moves none. *)
LEMMA StageStays ==
    ASSUME TypeInv, NEW c \in Callers, NEW s \in Steps, StepTo(c, s),
           \A d \in Callers : d # c => phase'[d] = phase[d],
           stageOf(c)' = stageOf(c), UNCHANGED <<snapshots, orphans>>
    PROVE  UNCHANGED Contract!contractVars
<1>1. \A d \in Callers : stageOf(d)' = stageOf(d)
    BY DEF StepTo, TypeInv, TypeOK, stageOf, stageOfPhase, Holds, Holding, Steps
<1> QED
    BY <1>1 DEF Contract!contractVars

LEMMA RestartContract == Restart => Contract!Crash
    BY DEF Restart, Contract!Settle, Settle, Fresh, Contract!Crash, stageOf, stageOfPhase, Holds, Holding, Steps

LEMMA RunStepContract ==
    ASSUME MutexInv, NEW c \in Callers, RunStep(c)
    PROVE  Contract!Next \/ UNCHANGED Contract!contractVars
<1> USE DEF MutexInv, TypeInv, TypeOK, PhaseMatchesStep, Holds, Holding, Steps,
            Phases, HookPhases, CommandPhases, repoVars
<1>1. CASE CheckEnabled(c)
    <2>1. stageOf(c)' = stageOf(c)
        BY <1>1 DEF CheckEnabled, StepTo, stageOf, stageOfPhase
    <2> QED
        BY <1>1, <2>1, StageStays DEF CheckEnabled
<1>2. CASE TryLock(c)
    <2>1. CASE lock = 0
        <3>1. \A d \in Callers : stageOf(d) = "idle"
            BY <2>1 DEF OneRunAtATime, stageOf, stageOfPhase
        <3>2. stageOf(c)' = "working"
            BY <1>2, <2>1 DEF TryLock, Enter, StepTo, stageOf, stageOfPhase
        <3>3. Contract!MoveTo(c, {"idle"}, "working")
            BY <1>2, <2>1, <3>1, <3>2, StageMoves DEF TryLock, Enter
        <3>4. Contract!Start(c)
            BY <1>2, <3>1, <3>3 DEF TryLock, Contract!Start
        <3> QED
            BY <3>4 DEF Contract!Next
    <2>2. CASE lock # 0
        <3>1. stageOf(c)' = stageOf(c)
            BY <1>2, <2>2 DEF TryLock, Enter, StepTo, stageOf, stageOfPhase
        <3> QED
            BY <1>2, <2>2, <3>1, StageStays DEF TryLock
    <2> QED
        BY <2>1, <2>2
<1>3. CASE BeginPhase(c)
    <2>1. stageOf(c)' = stageOf(c)
        BY <1>3 DEF BeginPhase, StepTo, stageOf, stageOfPhase
    <2> QED
        BY <1>3, <2>1, StageStays DEF BeginPhase
<1>4. CASE Prepare(c)
    <2>1. stageOf(c)' = stageOf(c)
        BY <1>4 DEF Prepare, Running, GoOn, StepTo, stageOf, stageOfPhase
    <2> QED
        BY <1>4, <2>1, StageStays DEF Prepare, Running, GoOn
<1>5. CASE HookFails(c)
    <2>1. stageOf(c) \in {"working", "kept", "expired"}
        BY <1>5 DEF HookFails, BreakOff, stageOf, stageOfPhase
    <2>2. stageOf(c)' = "closing"
        BY <1>5 DEF HookFails, BreakOff, StepTo, stageOf, stageOfPhase
    <2>3. Contract!MoveTo(c, {"working", "kept", "expired"}, "closing")
        BY <1>5, <2>1, <2>2, StageMoves DEF HookFails, BreakOff
    <2>4. Contract!GiveUp(c)
        BY <1>5, <2>3 DEF HookFails, Contract!GiveUp
    <2> QED
        BY <2>4 DEF Contract!Next
<1>6. CASE CommandFails(c)
    <2>1. stageOf(c) \in {"working", "kept", "expired"}
        BY <1>6 DEF CommandFails, BreakOff, stageOf, stageOfPhase
    <2>2. stageOf(c)' = "closing"
        BY <1>6 DEF CommandFails, BreakOff, StepTo, stageOf, stageOfPhase
    <2>3. Contract!MoveTo(c, {"working", "kept", "expired"}, "closing")
        BY <1>6, <2>1, <2>2, StageMoves DEF CommandFails, BreakOff
    <2>4. Contract!GiveUp(c)
        BY <1>6, <2>3 DEF CommandFails, Contract!GiveUp
    <2> QED
        BY <2>4 DEF Contract!Next
<1>7. CASE ResticSaves(c)
    <2>1. stageOf(c) \in {"working"}
        BY <1>7 DEF ResticSaves, Running, stageOf, stageOfPhase
    <2>2. stageOf(c)' = "saved"
        BY <1>7 DEF ResticSaves, StepTo, stageOf, stageOfPhase
    <2>3. Contract!MoveTo(c, {"working"}, "saved")
        BY <1>7, <2>1, <2>2, StageMoves DEF ResticSaves
    <2>4. Contract!Save(c)
        BY <1>7, <2>3 DEF ResticSaves, Contract!Save
    <2> QED
        BY <2>4 DEF Contract!Next
<1>8. CASE BackupDone(c)
    <2>1. stageOf(c) \in {"saved"}
        BY <1>8 DEF BackupDone, stageOf, stageOfPhase
    <2>2. stageOf(c)' = "kept"
        BY <1>8 DEF BackupDone, GoOn, StepTo, stageOf, stageOfPhase
    <2>3. Contract!MoveTo(c, {"saved"}, "kept")
        BY <1>8, <2>1, <2>2, StageMoves DEF BackupDone, GoOn
    <2>4. Contract!Keep(c)
        BY <1>8, <2>3 DEF BackupDone, Contract!Keep, Contract!Settle, Settle
    <2> QED
        BY <2>4 DEF Contract!Next
<1>9. CASE Discard(c)
    <2>1. stageOf(c) \in {"saved"}
        BY <1>9 DEF Discard, stageOf, stageOfPhase
    <2>2. stageOf(c)' = "closing"
        BY <1>9 DEF Discard, BreakOff, StepTo, stageOf, stageOfPhase
    <2>3. Contract!MoveTo(c, {"saved"}, "closing")
        BY <1>9, <2>1, <2>2, StageMoves DEF Discard, BreakOff
    <2>4. Contract!TakeBack(c) \/ Contract!LeaveBehind(c)
        BY <1>9, <2>3
           DEF Discard, TakeBack, Contract!TakeBack, Contract!LeaveBehind, Contract!Settle,
               Settle, Contract!RemoveAt, RemoveAt
    <2> QED
        BY <2>4 DEF Contract!Next
<1>20. CASE GiveUp(c)
    <2>1. stageOf(c) \in {"working"}
        BY <1>20 DEF GiveUp, Running, stageOf, stageOfPhase
    <2>2. stageOf(c)' = "closing"
        BY <1>20 DEF GiveUp, BreakOff, StepTo, stageOf, stageOfPhase
    <2>3. Contract!MoveTo(c, {"working"}, "closing")
        BY <1>20, <2>1, <2>2, StageMoves DEF GiveUp, BreakOff
    <2>4. Contract!Abandon(c)
        BY <1>20, <2>3 DEF GiveUp, Contract!Abandon
    <2> QED
        BY <2>4 DEF Contract!Next
<1>21. CASE ReportPanics(c)
    <2>1. CASE c = Cron
        BY <1>21, <2>1, RestartContract DEF ReportPanics, Panic, Contract!Next
    <2>2. CASE c # Cron
        <3>1. stageOf(c)' = "closing"
            BY <1>21, <2>2 DEF ReportPanics, Panic, StepTo, stageOf, stageOfPhase
        <3>2. ASSUME NEW from, stageOf(c) \in from PROVE Contract!MoveTo(c, from, "closing")
            BY <1>21, <2>2, <3>1, <3>2, StageMoves DEF ReportPanics, Panic
        <3>3. CASE step[c] = "run"
            <4>1. stageOf(c) \in {"working"}
                BY <1>21, <3>3 DEF ReportPanics, Running, stageOf, stageOfPhase
            <4>2. Contract!MoveTo(c, {"working"}, "closing")
                BY <3>2, <4>1
            <4>3. Contract!Abandon(c)
                BY <1>21, <2>2, <3>3, <4>2 DEF ReportPanics, Contract!Abandon
            <4> QED
                BY <4>3 DEF Contract!Next
        <3>4. CASE step[c] = "saved"
            <4>1. stageOf(c) \in {"saved"}
                BY <3>4 DEF stageOf, stageOfPhase
            <4>2. Contract!MoveTo(c, {"saved"}, "closing")
                BY <3>2, <4>1
            <4>3. Contract!LeaveBehind(c)
                BY <1>21, <2>2, <3>4, <4>2
                   DEF ReportPanics, Contract!LeaveBehind, Contract!Settle, Settle
            <4> QED
                BY <4>3 DEF Contract!Next
        <3> QED
            BY <1>21, <3>3, <3>4 DEF ReportPanics, Running
    <2> QED
        BY <2>1, <2>2
<1>22. CASE ExpireOne(c)
    <2>1. stageOf(c) = "kept" /\ UNCHANGED <<step, phase, orphans>>
        BY <1>22 DEF ExpireOne, Running, stageOf, stageOfPhase, callerVars
    <2>2. \A d \in Callers : stageOf(d)' = stageOf(d)
        BY <2>1 DEF stageOf, stageOfPhase
    <2>3. Contract!MoveTo(c, {"kept"}, "kept")
        BY <2>1, <2>2 DEF Contract!MoveTo
    <2>4. Contract!ExpireOne(c)
        BY <1>22, <2>1, <2>3 DEF ExpireOne, Contract!ExpireOne, Contract!RemoveAt, RemoveAt
    <2> QED
        BY <2>4 DEF Contract!Next
<1>10. CASE BackupEmpty(c)
    <2>1. stageOf(c) \in {"working", "kept", "expired"}
        BY <1>10 DEF BackupEmpty, Running, BreakOff, stageOf, stageOfPhase
    <2>2. stageOf(c)' = "closing"
        BY <1>10 DEF BackupEmpty, Running, BreakOff, StepTo, stageOf, stageOfPhase
    <2>3. Contract!MoveTo(c, {"working", "kept", "expired"}, "closing")
        BY <1>10, <2>1, <2>2, StageMoves DEF BackupEmpty, Running, BreakOff
    <2>4. Contract!GiveUp(c)
        BY <1>10, <2>3 DEF BackupEmpty, Contract!GiveUp
    <2> QED
        BY <2>4 DEF Contract!Next
<1>11. CASE Forget(c)
    <2>1. stageOf(c) \in {"kept"}
        BY <1>11 DEF Forget, Running, stageOf, stageOfPhase
    <2>2. stageOf(c)' = "expired"
        BY <1>11 DEF Forget, Running, GoOn, AfterForget, StepTo, stageOf, stageOfPhase
    <2>3. Contract!MoveTo(c, {"kept"}, "expired")
        BY <1>11, <2>1, <2>2, StageMoves DEF Forget, GoOn
    <2>4. Contract!Expire(c)
        BY <1>11, <2>3 DEF Forget, Contract!Expire, Contract!Newest, Newest
    <2> QED
        BY <2>4 DEF Contract!Next
<1>12. CASE ForgetPanics(c) \/ GetStatsPanics(c)
    <2>1. CASE c = Cron
        BY <1>12, <2>1, RestartContract DEF ForgetPanics, GetStatsPanics, Panic, Contract!Next
    <2>2. CASE c # Cron
        <3>1. stageOf(c) \in {"working", "kept", "expired"}
            BY <1>12 DEF ForgetPanics, GetStatsPanics, Running, stageOf, stageOfPhase
        <3>2. stageOf(c)' = "closing"
            BY <1>12, <2>2
               DEF ForgetPanics, GetStatsPanics, Panic, StepTo, stageOf, stageOfPhase
        <3>3. Contract!MoveTo(c, {"working", "kept", "expired"}, "closing")
            BY <1>12, <2>2, <3>1, <3>2, StageMoves DEF ForgetPanics, GetStatsPanics, Panic
        <3>4. Contract!GiveUp(c)
            BY <1>12, <2>2, <3>3 DEF ForgetPanics, GetStatsPanics, Contract!GiveUp
        <3> QED
            BY <3>4 DEF Contract!Next
    <2> QED
        BY <2>1, <2>2
<1>13. CASE Prune(c)
    <2>1. stageOf(c)' = stageOf(c)
        BY <1>13 DEF Prune, Running, GoOn, StepTo, stageOf, stageOfPhase
    <2> QED
        BY <1>13, <2>1, StageStays DEF Prune, Running, GoOn
<1>14. CASE GetStats(c)
    <2>1. stageOf(c)' = stageOf(c)
        BY <1>14 DEF GetStats, Running, GoOn, StepTo, stageOf, stageOfPhase
    <2> QED
        BY <1>14, <2>1, StageStays DEF GetStats, Running, GoOn
<1>16. CASE S3Stats(c)
    <2>1. stageOf(c)' = stageOf(c)
        BY <1>16 DEF S3Stats, Running, GoOn, StepTo, stageOf, stageOfPhase
    <2> QED
        BY <1>16, <2>1, StageStays DEF S3Stats, Running, GoOn
<1>17. CASE Wrapup(c)
    <2>1. stageOf(c) \in {"working", "kept", "expired"}
        BY <1>17 DEF Wrapup, Running, BreakOff, stageOf, stageOfPhase
    <2>2. stageOf(c)' = "closing"
        BY <1>17 DEF Wrapup, Running, BreakOff, StepTo, stageOf, stageOfPhase
    <2>3. Contract!MoveTo(c, {"working", "kept", "expired"}, "closing")
        BY <1>17, <2>1, <2>2, StageMoves DEF Wrapup, Running, BreakOff
    <2>4. Contract!GiveUp(c)
        BY <1>17, <2>3 DEF Wrapup, Contract!GiveUp
    <2> QED
        BY <2>4 DEF Contract!Next
<1>18. CASE Report(c)
    <2>1. stageOf(c)' = stageOf(c)
        BY <1>18 DEF Report, StepTo, stageOf, stageOfPhase
    <2> QED
        BY <1>18, <2>1, StageStays DEF Report
<1>19. CASE Unlock(c)
    <2>1. stageOf(c) \in {"closing"}
        BY <1>19 DEF Unlock, stageOf, stageOfPhase
    <2>2. stageOf(c)' = "idle"
        BY <1>19 DEF Unlock, StepTo, stageOf, stageOfPhase
    <2>3. Contract!MoveTo(c, {"closing"}, "idle")
        BY <1>19, <2>1, <2>2, StageMoves DEF Unlock
    <2>4. Contract!Finish(c)
        BY <1>19, <2>3 DEF Unlock, Contract!Finish
    <2> QED
        BY <2>4 DEF Contract!Next
<1> QED
    BY <1>1, <1>2, <1>3, <1>4, <1>5, <1>6, <1>7, <1>8, <1>9, <1>10, <1>11,
       <1>12, <1>13, <1>14, <1>16, <1>17, <1>18, <1>19, <1>20, <1>21, <1>22 DEF RunStep

LEMMA NextContract ==
    MutexInv /\ [Next]_vars => [Contract!Next]_(Contract!contractVars)
<1> SUFFICES ASSUME MutexInv, [Next]_vars
             PROVE  Contract!Next \/ UNCHANGED Contract!contractVars
    OBVIOUS
<1>0. ASSUME UNCHANGED <<step, phase>>
      PROVE  \A d \in Callers : stageOf(d)' = stageOf(d)
    BY <1>0 DEF stageOf, stageOfPhase, Holds, Holding, Steps
<1>1. CASE UNCHANGED <<step, phase, snapshots, orphans>>
    BY <1>0, <1>1 DEF Contract!contractVars
<1>2. ASSUME NEW c \in Callers, Trigger(c)
      PROVE  UNCHANGED Contract!contractVars
    <2>1. stageOf(c)' = stageOf(c)
        BY <1>2 DEF Trigger, StepTo, stageOf, stageOfPhase, Holds, Holding, Steps, MutexInv,
                    TypeInv, TypeOK
    <2> QED
        BY <1>2, <2>1, StageStays DEF Trigger, MutexInv, Steps, repoVars
<1>3. ASSUME NEW c \in Callers, RunStep(c)
      PROVE  Contract!Next \/ UNCHANGED Contract!contractVars
    BY <1>3, RunStepContract
<1>4. CASE OperatorForget
    <2>1. Contract!RemoveByHand
        BY <1>0, <1>4
           DEF OperatorForget, callerVars, Contract!RemoveByHand, Contract!RemoveAt, RemoveAt
    <2> QED
        BY <2>1 DEF Contract!Next
<1>5. CASE OrphanEnds
    <2>1. Contract!AbandonedEnds
        BY <1>0, <1>5
           DEF OrphanEnds, callerVars, Contract!AbandonedEnds, Contract!InsertAt, InsertAt
    <2> QED
        BY <2>1 DEF Contract!Next
<1>6. CASE Restart
    BY <1>6, RestartContract DEF Contract!Next
<1>7. ASSUME NEW b \in BOOLEAN, SetEnabled(b)
      PROVE  UNCHANGED Contract!contractVars
    BY <1>0, <1>7 DEF SetEnabled, callerVars, repoVars, Contract!contractVars
<1> QED
    BY <1>1, <1>2, <1>3, <1>4, <1>5, <1>6, <1>7
       DEF Next, vars, callerVars, repoVars, FinishStart, HousekeepingBecomesDue

(* The code's runs keep the contract about the repository, for every set   *)
(* of callers and every retention policy: panics, abandoned restic         *)
(* processes, half-done retention and removals by hand included.           *)
THEOREM Implements == Spec => KeepsContract
<1>1. Init => Contract!Init
    BY InitContract
<1>2. MutexInv /\ [Next]_vars => [Contract!Next]_(Contract!contractVars)
    BY NextContract
<1> QED
    BY <1>1, <1>2, MutexInvariant, PTL DEF Spec, KeepsContract, Contract!Spec
=============================================================================
