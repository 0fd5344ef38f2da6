---------------------------- MODULE RestoreProofs ----------------------------
(***************************************************************************)
(* Theorems about HookRun and Restore, for pipes and scripts of any size,  *)
(* any arguments and any snapshots.                                        *)
(***************************************************************************)
EXTENDS Restore, TLAPS

(* Lines in the pipe are the ones written and not yet read; when the       *)
(* scanner has stopped early, one more has been read and not logged.       *)
HookInv ==
    /\ HookTypeOK
    /\ unread + todo <= MaxLines
    /\ unread = Len(pipe) + (IF tooLong THEN 1 ELSE 0)
    /\ hook = "reading" => ~tooLong
    /\ hook = "waiting" => tooLong \/ (pipe = <<>> /\ Closed("stdout"))
    /\ hook \in {"idle"} \cup Returned =>
          Closed("stderr") /\ (tooLong \/ (pipe = <<>> /\ Closed("stdout")))

LEMMA NoLines == <<>> \in Seq({"line", "long"}) /\ Len(<<>>) = 0
    OBVIOUS

(* Before anything is written, and when the caller begins.                 *)
Fresh ==
    /\ pipe = <<>> /\ unread = 0 /\ tooLong = FALSE
    /\ background = {} /\ todo \in 0 .. MaxLines
    /\ \/ hook \in {"idle"} \cup Returned /\ script = "none"
       \/ hook = "reading" /\ script = "running"

LEMMA FreshHook == Fresh => HookInv
<1> SUFFICES ASSUME Fresh PROVE HookInv
    OBVIOUS
<1>1. pipe \in Seq({"line", "long"}) /\ Len(pipe) = 0
    BY NoLines DEF Fresh
<1>2. background \subseteq SUBSET Outputs /\ tooLong \in BOOLEAN
    BY DEF Fresh
<1>3. HookTypeOK
    BY <1>1, <1>2, PipeAssumption DEF Fresh, HookTypeOK, Returned
<1> QED
    BY <1>1, <1>3, PipeAssumption DEF Fresh, HookInv, Returned, Closed

LEMMA InitHook == HookInit => HookInv
<1>1. HookInit => Fresh
    BY PipeAssumption DEF HookInit, Fresh
<1> QED
    BY <1>1, FreshHook

LEMMA BeginHook == SkipHook \/ StartHook => HookInv'
<1>1. SkipHook => Fresh'
    BY PipeAssumption DEF SkipHook, Fresh
<1>2. StartHook => Fresh'
    BY PipeAssumption DEF StartHook, Fresh
<1> QED
    BY <1>1, <1>2, FreshHook, PTL

LEMMA PipeOperations ==
    ASSUME NEW p \in Seq({"line", "long"})
    PROVE  /\ Len(p) \in Nat
           /\ p # <<>> => /\ Tail(p) \in Seq({"line", "long"})
                          /\ Len(p) # 0 /\ Len(Tail(p)) = Len(p) - 1
           /\ \A l \in {"line", "long"} : /\ Append(p, l) \in Seq({"line", "long"})
                                          /\ Len(Append(p, l)) = Len(p) + 1
    OBVIOUS

LEMMA NextHook == HookInv /\ HookNext => HookInv'
<1> SUFFICES ASSUME HookInv, HookNext PROVE HookInv'
    OBVIOUS
<1> USE PipeAssumption DEF HookInv, HookTypeOK, Returned, Closed
<1>p. pipe \in Seq({"line", "long"})
    OBVIOUS
<1>1. CASE ReadLine
    BY <1>1, <1>p, PipeOperations DEF ReadLine
<1>2. CASE ReadTooLong
    BY <1>2, <1>p, PipeOperations DEF ReadTooLong
<1>3. CASE ReadEnd
    BY <1>3 DEF ReadEnd
<1>4. CASE Wait
    BY <1>4 DEF Wait
<1>5. CASE WriteLine
    <2>1. PICK l \in {"line", "long"} : pipe' = Append(pipe, l)
        BY <1>5 DEF WriteLine
    <2> QED
        BY <1>5, <1>p, <2>1, PipeOperations DEF WriteLine
<1>6. CASE Fork
    BY <1>6 DEF Fork
<1>7. CASE Exit
    BY <1>7 DEF Exit
<1>8. CASE ChildExits
    BY <1>8 DEF ChildExits
<1> QED
    BY <1>1, <1>2, <1>3, <1>4, <1>5, <1>6, <1>7, <1>8 DEF HookNext, HookStep, ScriptStep

-----------------------------------------------------------------------------
(* A restic that has ended well has written all of one snapshot, and only  *)
(* its success, and the one of the script, leads on to PostRestore.        *)
RestoreInv ==
    /\ HookInv /\ RestoreTypeOK
    /\ restic = "none" => sink = "none"
    /\ restic = "ok" => source # 0 /\ dumped = Chunks
    /\ stage \in {"posthook", "exit0"} => restic = "ok" /\ sink \in {"none", "ok"}

LEMMA InitRestore == RestoreInit => RestoreInv
    BY InitHook, SizeAssumption
       DEF RestoreInit, RestoreInv, RestoreTypeOK, HookInv, Ids, Processes

LEMMA NextRestore == RestoreInv /\ [RestoreNext]_restoreVars => RestoreInv'
<1> SUFFICES ASSUME RestoreInv, [RestoreNext]_restoreVars PROVE RestoreInv'
    OBVIOUS
<1> USE SizeAssumption DEF RestoreInv, RestoreTypeOK, Processes
<1>1. CASE Initialize
    BY <1>1 DEF Initialize, hookVars, resticVars, HookInv, HookTypeOK, Closed
<1>2. CASE RunHook
    <2>1. HookInv'
        BY <1>2, BeginHook DEF RunHook
    <2> QED
        BY <1>2, <2>1 DEF RunHook, resticVars, HookInv
<1>3. CASE HookFailed
    BY <1>3 DEF HookFailed, hookVars, resticVars, HookInv, HookTypeOK, Closed
<1>4. CASE HookDone
    <2>1. HookInv'
        BY <1>4 DEF HookDone, HookInv, HookTypeOK, Closed, Returned
    <2> QED
        BY <1>4, <2>1 DEF HookDone, resticVars, HookInv
<1>5. CASE StartRestic
    <2>1. source' \in {0} \cup Ids
        BY <1>5 DEF StartRestic, Chosen
    <2> QED
        BY <1>5, <2>1 DEF StartRestic, hookVars, HookInv, HookTypeOK, Closed
<1>6. CASE ChainEnds
    BY <1>6 DEF ChainEnds, hookVars, resticVars, HookInv, HookTypeOK, Closed
<1>7. CASE RunningHook
    <2>1. HookInv'
        BY <1>7, NextHook DEF RunningHook
    <2> QED
        BY <1>7, <2>1 DEF RunningHook, resticVars, HookInv
<1>8. CASE External
    <2>1. HookInv'
        BY <1>8 DEF External, hookVars, HookInv, HookTypeOK, Closed
    <2>2. CASE Dump
        BY <1>8, <2>1, <2>2 DEF External, Dump, HookInv
    <2>3. CASE DumpEnds
        BY <1>8, <2>1, <2>3 DEF External, DumpEnds, HookInv
    <2>4. CASE SinkEnds
        BY <1>8, <2>1, <2>4 DEF External, SinkEnds, HookInv
    <2> QED
        BY <1>8, <2>2, <2>3, <2>4 DEF External
<1>9. CASE RepositoryChanges
    BY <1>9 DEF RepositoryChanges, hookVars, resticVars, HookInv, HookTypeOK, Closed
<1>10. CASE UNCHANGED restoreVars
    BY <1>10 DEF restoreVars, hookVars, resticVars, HookInv, HookTypeOK, Closed
<1> QED
    BY <1>1, <1>2, <1>3, <1>4, <1>5, <1>6, <1>7, <1>8, <1>9, <1>10 DEF RestoreNext

LEMMA Invariant == RestoreSpec => []RestoreInv
    BY InitRestore, NextRestore, PTL DEF RestoreSpec

(* Every variable of a restore keeps its type. *)
THEOREM RestoreTypes == RestoreSpec => []RestoreTypeOK
<1>1. RestoreInv => RestoreTypeOK
    BY DEF RestoreInv
<1> QED
    BY <1>1, Invariant, PTL

(* When Run returns, the script has ended, nobody holds its standard error *)
(* any more, and its standard output was logged to the end, unless a line  *)
(* was too long.                                                           *)
THEOREM HooksAreOver == RestoreSpec => []HookIsOver
<1>1. RestoreInv => HookIsOver
    BY DEF RestoreInv, HookInv, HookTypeOK, HookIsOver, Returned
<1> QED
    BY <1>1, Invariant, PTL

(* PostRestore never runs on less than a complete snapshot. *)
THEOREM OnlyComplete == RestoreSpec => []PostRestoreOnlyComplete
<1>1. RestoreInv => PostRestoreOnlyComplete
    BY DEF RestoreInv, PostRestoreOnlyComplete
<1> QED
    BY <1>1, Invariant, PTL
=============================================================================
