------------------------- MODULE ResticBackupProofs -------------------------
(***************************************************************************)
(* Proofs about ResticBackup, for every number of calls, with and without  *)
(* scripts, whatever the script and restic do.                             *)
(***************************************************************************)
EXTENDS ResticBackup, TLAPS

-----------------------------------------------------------------------------
(* Types *)

LEMMA InitTypes == Init => TypeOK
    BY DEF Init, TypeOK, Mains, Returned, Waiters, Dumps, Alive, Exited

(* Types without the last conjunct, which is about calls without a script. *)
Typed ==
    /\ main \in [Calls -> Mains]
    /\ waiter \in [Calls -> Waiters]
    /\ dump \in [Calls -> Dumps]
    /\ restic \in [Calls -> {"none"} \cup Alive \cup Exited]
    /\ writeEnd \in [Calls -> BOOLEAN]
    /\ readEnd \in [Calls -> BOOLEAN]
    /\ out \in [Calls -> Seq({"odd", "summary"})]
    /\ id \in [Calls -> BOOLEAN]
    /\ snap \in [Calls -> {"none", "whole", "partial"}]
    /\ pipeError \in [Calls -> {"empty", "nil", "err"}]
    /\ pipeMsg \in [Calls -> {"empty", "text"}]
    /\ undone \in [Calls -> {"no", "ok", "failed"}]

Scriptless(c) == main[c] # "pipe" /\ waiter[c] = "none" /\ dump[c] = "none"

StepOf(c) ==
    \/ Enter(c) \/ MainStep(c) \/ ReportPanics(c) \/ WaiterStep(c)
    \/ DumpEnds(c) \/ DumpBreaks(c) \/ CollectReader(c) \/ ResticStep(c)

LEMMA NextTypes == TypeOK /\ [Next]_vars => TypeOK'
<1> SUFFICES ASSUME TypeOK, [Next]_vars PROVE TypeOK'
    OBVIOUS
<1>0. Typed /\ \A c \in Calls \ Piped : Scriptless(c)
    BY DEF TypeOK, Typed, Scriptless
<1> USE DEF procVars, pipeVars, chanVars
<1>1. ASSUME NEW c \in Calls, Enter(c) PROVE Typed'
    BY <1>1, <1>0 DEF Set, Enter, Typed, Mains
<1>2. ASSUME NEW c \in Calls, StartPipe(c) PROVE Typed'
    <2>1. /\ main' = Set(main, c, "start") \/ main' = Set(main, c, "error")
          /\ writeEnd' = Set(writeEnd, c, TRUE) /\ readEnd' = Set(readEnd, c, TRUE)
          /\ UNCHANGED <<restic, out, id, snap, chanVars, undone>>
        BY <1>2, Zenon DEF StartPipe
    <2>2. /\ dump' = dump \/ dump' = Set(dump, c, "running")
          /\ waiter' = waiter \/ waiter' = Set(waiter, c, "waiting")
        BY <1>2, Zenon DEF StartPipe
    <2>3. main' \in [Calls -> Mains]
        BY <2>1, <1>0 DEF Set, Typed, Mains, Returned
    <2>4. writeEnd' \in [Calls -> BOOLEAN] /\ readEnd' \in [Calls -> BOOLEAN]
        BY <2>1, <1>0 DEF Set, Typed
    <2>5. dump' \in [Calls -> Dumps] /\ waiter' \in [Calls -> Waiters]
        BY <2>2, <1>0 DEF Set, Typed, Dumps, Waiters
    <2> QED
        BY <1>0, <2>1, <2>3, <2>4, <2>5, Zenon DEF Typed
<1>3. ASSUME NEW c \in Calls, StartRestic(c) PROVE Typed'
    BY <1>3, <1>0 DEF Set, StartRestic, Typed, Mains, Alive, Returned
<1>4. ASSUME NEW c \in Calls, ScanLine(c) PROVE Typed'
    <2>1. Tail(out[c]) \in Seq({"odd", "summary"})
        BY <1>4, <1>0 DEF ScanLine, Typed
    <2>2. out' \in [Calls -> Seq({"odd", "summary"})]
        BY <1>4, <1>0, <2>1 DEF Set, ScanLine, Typed
    <2>3. main' \in [Calls -> Mains] /\ id' \in [Calls -> BOOLEAN]
        BY <1>4, <1>0 DEF Set, ScanLine, Typed, Mains, Returned
    <2> QED
        BY <1>4, <1>0, <2>2, <2>3, Zenon DEF ScanLine, Typed
<1>5. ASSUME NEW c \in Calls, ScanEnd(c) \/ ReportPanics(c) \/ WaitRestic(c)
      PROVE  Typed'
    <2>1. CASE ScanEnd(c)
        BY <2>1, <1>0 DEF Set, ScanEnd, Typed, Mains, Returned
    <2>2. CASE ReportPanics(c)
        BY <2>2, <1>0 DEF Set, ReportPanics, Typed, Mains, Returned
    <2>3. CASE WaitRestic(c)
        BY <2>3, <1>0 DEF Set, WaitRestic, Typed, Mains, Returned
    <2> QED
        BY <1>5, <2>1, <2>2, <2>3, Zenon
<1>6. ASSUME NEW c \in Calls, Undo(c) PROVE Typed'
    BY <1>6, <1>0 DEF Set, Undo, Typed, Mains, Returned
<1>7. ASSUME NEW c \in Calls, TakePipeError(c) \/ TakePipeMsg(c) PROVE Typed'
    <2>1. CASE TakePipeError(c)
        BY <2>1, <1>0 DEF Set, TakePipeError, Typed, Mains, Returned
    <2>2. CASE TakePipeMsg(c)
        BY <2>2, <1>0 DEF Set, TakePipeMsg, Typed, Mains, Returned
    <2> QED
        BY <1>7, <2>1, <2>2, Zenon
<1>8. ASSUME NEW c \in Calls, WaiterStep(c) PROVE Typed'
    <2>1. CASE ScriptExited(c)
        BY <2>1, <1>0 DEF Set, ScriptExited, Typed, Waiters
    <2>2. CASE SendMessage(c)
        BY <2>2, <1>0 DEF Set, SendMessage, Typed, Waiters
    <2>3. CASE CloseWriter(c)
        BY <2>3, <1>0 DEF Set, CloseWriter, Typed, Waiters
    <2>4. CASE SendError(c)
        BY <2>4, <1>0 DEF Set, SendError, Typed, Waiters
    <2> QED
        BY <1>8, <2>1, <2>2, <2>3, <2>4, Zenon DEF WaiterStep
<1>9. ASSUME NEW c \in Calls, DumpEnds(c) \/ DumpBreaks(c) \/ CollectReader(c)
      PROVE  Typed'
    <2>1. CASE DumpEnds(c)
        BY <2>1, <1>0 DEF Set, DumpEnds, Typed, Dumps
    <2>2. CASE DumpBreaks(c)
        BY <2>2, <1>0 DEF Set, DumpBreaks, Typed, Dumps
    <2>3. CASE CollectReader(c)
        BY <2>3, <1>0 DEF Set, CollectReader, Typed
    <2> QED
        BY <1>9, <2>1, <2>2, <2>3, Zenon
<1>10. ASSUME NEW c \in Calls, ResticSaves(c) \/ ResticExits(c) PROVE Typed'
    <2>1. CASE ResticSaves(c)
        BY <2>1, <1>0 DEF Set, ResticSaves, Typed, Alive, Exited
    <2>2. CASE ResticExits(c)
        BY <2>2, <1>0 DEF Set, ResticExits, Typed, Alive, Exited
    <2> QED
        BY <1>10, <2>1, <2>2, Zenon
<1>11. ASSUME NEW c \in Calls, ResticPrints(c) PROVE Typed'
    <2>1. /\ Append(out[c], "summary") \in Seq({"odd", "summary"})
          /\ <<"odd">> \in Seq({"odd", "summary"})
        BY <1>0 DEF Typed
    <2>2. out' \in [Calls -> Seq({"odd", "summary"})]
        BY <1>11, <1>0, <2>1 DEF Set, ResticPrints, Typed
    <2>3. restic' = Set(restic, c, "told") \/ restic' = restic
        BY <1>11, Zenon DEF ResticPrints
    <2>4. restic' \in [Calls -> {"none"} \cup Alive \cup Exited]
        BY <1>0, <2>3 DEF Set, Typed, Alive
    <2> QED
        BY <1>11, <1>0, <2>2, <2>4, Zenon DEF ResticPrints, Typed
<1>12. ASSUME UNCHANGED vars PROVE Typed'
    BY <1>12, <1>0, Zenon DEF vars, Typed
<1>13. Typed'
    BY <1>1, <1>2, <1>3, <1>4, <1>5, <1>6, <1>7, <1>8, <1>9, <1>10, <1>11, <1>12, Zenon
       DEF Next, MainStep, ResticStep
<1>14. ASSUME NEW c \in Calls, StepOf(c), NEW d \in Calls \ Piped
       PROVE  Scriptless(d)'
    <2>1. CASE Enter(c) \/ MainStep(c) \/ ReportPanics(c)
        BY <2>1, <1>14, <1>0 DEF Set, Scriptless, Typed, Enter, MainStep, StartPipe,
           StartRestic, ScanLine, ScanEnd, ReportPanics, WaitRestic, Undo, TakePipeError, TakePipeMsg
    <2>2. CASE WaiterStep(c)
        BY <2>2, <1>14, <1>0 DEF Set, Scriptless, Typed, WaiterStep, ScriptExited,
           SendMessage, CloseWriter, SendError
    <2>3. CASE DumpEnds(c) \/ DumpBreaks(c) \/ CollectReader(c)
        BY <2>3, <1>14, <1>0 DEF Set, Scriptless, Typed, DumpEnds, DumpBreaks,
           CollectReader
    <2>4. CASE ResticStep(c)
        BY <2>4, <1>14, <1>0 DEF Scriptless, ResticStep, ResticSaves, ResticPrints,
           ResticExits
    <2> QED
        BY <1>14, <2>1, <2>2, <2>3, <2>4 DEF StepOf
<1>15. ASSUME NEW d \in Calls \ Piped, UNCHANGED vars PROVE Scriptless(d)'
    BY <1>15, <1>0 DEF Scriptless, vars
<1>16. \A d \in Calls \ Piped : Scriptless(d)'
    BY <1>14, <1>15 DEF Next, StepOf
<1> QED
    BY <1>13, <1>16, Zenon DEF TypeOK, Typed, Scriptless

(* Every variable keeps its type, and a call without a script starts       *)
(* neither a script nor a goroutine.                                       *)
THEOREM TypeCorrect == Spec => []TypeOK
    BY InitTypes, NextTypes, PTL DEF Spec

-----------------------------------------------------------------------------
(* What is known of a call at every point *)

Early   == {"idle", "pipe", "start"}
Waited  == {"wait", "undo", "pipeError", "emptyPipeError", "undoPipe", "pipeMsg",
            "ok", "empty"}

(* restic is there from cmd.Start on and gone when the scan has ended. *)
ProcessInv(c) ==
    /\ main[c] \in Early => restic[c] = "none" /\ ~id[c] /\ undone[c] = "no"
    /\ main[c] \in Waited => restic[c] \in Exited
    /\ main[c] = "error" => restic[c] \in Exited \cup {"none"}
    /\ undone[c] # "no" => restic[c] \in Exited
    /\ undone[c] = "ok" => snap[c] = "none"

(* What restic prints is read before its end is seen. *)
SummaryInv(c) ==
    /\ main[c] = "scan" /\ restic[c] \in {"told", "ok"} => id[c] \/ out[c] # <<>>
    /\ main[c] \in {"wait", "pipeError", "ok"} /\ restic[c] = "ok" => id[c]

(* nil arrives only from a script that has done its work, or from none. *)
ScriptInv(c) ==
    /\ main[c] = "pipe" => pipeError[c] = "empty"
    /\ main[c] \in {"idle", "pipe"} => waiter[c] = "none"
    /\ waiter[c] \in {"message", "close", "report", "done"} => dump[c] \in {"done", "failed"}
    /\ pipeError[c] = "nil" => dump[c] \in {"none", "done"}

(* A snapshot lacks something only if restic or the script has failed. *)
SnapInv(c) ==
    /\ restic[c] = "ok" /\ undone[c] = "no" => snap[c] = "whole" \/ dump[c] = "failed"
    /\ main[c] \in {"wait", "pipeError", "emptyPipeError", "undo", "undoPipe", "scan"}
           => undone[c] = "no"
    /\ main[c] = "pipeError" => restic[c] = "ok"
    /\ main[c] = "ok" => /\ restic[c] = "ok" /\ undone[c] = "no"
                         /\ dump[c] \in {"none", "done"}
    /\ main[c] \in {"pipeMsg", "error"} /\ id[c] => undone[c] # "no"

CallInv(c) == ProcessInv(c) /\ SummaryInv(c) /\ ScriptInv(c) /\ SnapInv(c)

(* The calls follow one another. *)
SerialInv ==
    \A c, d \in Calls :
        main[c] \notin Returned \cup {"idle"} /\ main[d] \notin Returned \cup {"idle"} => c = d

Inv == SerialInv /\ \A c \in Calls : CallInv(c)

LEMMA InitInv == Init => Inv
    BY DEF Init, Inv, SerialInv, CallInv, ProcessInv, SummaryInv, ScriptInv, SnapInv,
           Early, Waited, Returned, Exited

(* A step of one call leaves what is known of the others alone. *)
SameCall(d) ==
    /\ main'[d] = main[d] /\ waiter'[d] = waiter[d] /\ dump'[d] = dump[d]
    /\ restic'[d] = restic[d] /\ out'[d] = out[d] /\ id'[d] = id[d]
    /\ snap'[d] = snap[d] /\ pipeError'[d] = pipeError[d] /\ undone'[d] = undone[d]
    /\ pipeMsg'[d] = pipeMsg[d] /\ writeEnd'[d] = writeEnd[d]

LEMMA OthersUnchanged ==
    ASSUME TypeOK, NEW c \in Calls, StepOf(c), NEW d \in Calls, d # c
    PROVE  SameCall(d)
<1> USE DEF TypeOK, Set, SameCall, procVars, pipeVars, chanVars
<1>1. CASE Enter(c) \/ MainStep(c)
    BY <1>1 DEF Enter, MainStep, StartPipe, StartRestic, ScanLine, ScanEnd, WaitRestic,
                Undo, TakePipeError, TakePipeMsg
<1>5. CASE ReportPanics(c)
    BY <1>5 DEF ReportPanics
<1>2. CASE WaiterStep(c)
    BY <1>2 DEF WaiterStep, ScriptExited, SendMessage, CloseWriter, SendError
<1>3. CASE DumpEnds(c) \/ DumpBreaks(c) \/ CollectReader(c)
    BY <1>3 DEF DumpEnds, DumpBreaks, CollectReader
<1>4. CASE ResticStep(c)
    BY <1>4 DEF ResticStep, ResticSaves, ResticPrints, ResticExits
<1> QED
    BY <1>1, <1>2, <1>3, <1>4, <1>5 DEF StepOf

LEMMA OwnStep ==
    ASSUME TypeOK, NEW c \in Calls, CallInv(c), StepOf(c)
    PROVE  CallInv(c)'
<1> USE DEF TypeOK, Set, CallInv, ProcessInv, SummaryInv, ScriptInv, SnapInv,
            Early, Waited, Exited, Alive, Mains, Returned, Waiters, Dumps,
            procVars, pipeVars, chanVars
<1>1. CASE Enter(c)
    BY <1>1 DEF Enter
<1>2. CASE StartPipe(c)
    BY <1>2 DEF StartPipe
<1>3. CASE StartRestic(c)
    BY <1>3 DEF StartRestic
<1>4. CASE ScanLine(c)
    BY <1>4 DEF ScanLine
<1>5. CASE ScanEnd(c) \/ ReportPanics(c)
    BY <1>5 DEF ScanEnd, ReportPanics
<1>6. CASE WaitRestic(c)
    BY <1>6 DEF WaitRestic
<1>7. CASE Undo(c)
    BY <1>7 DEF Undo
<1>8. CASE TakePipeError(c)
    BY <1>8 DEF TakePipeError
<1>9. CASE TakePipeMsg(c)
    BY <1>9 DEF TakePipeMsg
<1>10. CASE WaiterStep(c)
    BY <1>10 DEF WaiterStep, ScriptExited, SendMessage, CloseWriter, SendError
<1>11. CASE DumpEnds(c) \/ DumpBreaks(c) \/ CollectReader(c)
    BY <1>11 DEF DumpEnds, DumpBreaks, CollectReader
<1>12. CASE ResticSaves(c)
    BY <1>12 DEF ResticSaves
<1>13. CASE ResticPrints(c)
    BY <1>13 DEF ResticPrints
<1>14. CASE ResticExits(c)
    BY <1>14 DEF ResticExits
<1> QED
    BY <1>1, <1>2, <1>3, <1>4, <1>5, <1>6, <1>7, <1>8, <1>9, <1>10, <1>11, <1>12,
       <1>13, <1>14, Zenon DEF StepOf, MainStep, ResticStep

(* A call leaves idle only when no other one is under way. *)
LEMMA NextSerial ==
    ASSUME TypeOK, SerialInv, NEW c \in Calls, StepOf(c)
    PROVE  SerialInv'
<1>1. \A d \in Calls : d # c => main'[d] = main[d]
    BY OthersUnchanged DEF SameCall
<1>2. CASE Enter(c)
    BY <1>1, <1>2 DEF Enter, SerialInv, Returned
<1>3. CASE ~Enter(c)
    <2>1. main[c] \in Returned \cup {"idle"} => main'[c] = main[c]
        BY <1>3 DEF StepOf, MainStep, StartPipe, StartRestic, ScanLine, ScanEnd,
            ReportPanics, WaitRestic, Undo, TakePipeError, TakePipeMsg, WaiterStep, ScriptExited,
            SendMessage, CloseWriter, SendError, DumpEnds, DumpBreaks, CollectReader,
            ResticStep, ResticSaves, ResticPrints, ResticExits, Returned
    <2> QED
        BY <1>1, <2>1 DEF SerialInv
<1> QED
    BY <1>2, <1>3

LEMMA NextInv == TypeOK /\ Inv /\ [Next]_vars => Inv'
<1> SUFFICES ASSUME TypeOK, Inv, [Next]_vars PROVE Inv'
    OBVIOUS
<1>1. CASE UNCHANGED vars
    BY <1>1 DEF vars, procVars, pipeVars, chanVars, Inv, SerialInv, CallInv, ProcessInv,
                SummaryInv, ScriptInv, SnapInv
<1>2. ASSUME NEW c \in Calls, StepOf(c) PROVE Inv'
    <2>1. SerialInv'
        BY <1>2, NextSerial DEF Inv
    <2>2. CallInv(c)'
        BY <1>2, OwnStep DEF Inv
    <2>3. ASSUME NEW d \in Calls, d # c PROVE CallInv(d)'
        <3>1. SameCall(d) /\ CallInv(d)
            BY <1>2, <2>3, OthersUnchanged DEF Inv
        <3> QED
            BY <3>1 DEF SameCall, CallInv, ProcessInv, SummaryInv, ScriptInv, SnapInv
    <2> QED
        BY <2>1, <2>2, <2>3 DEF Inv
<1> QED
    BY <1>1, <1>2 DEF Next, StepOf

LEMMA Invariant == Spec => [](TypeOK /\ Inv)
    BY InitTypes, NextTypes, InitInv, NextInv, PTL DEF Spec

-----------------------------------------------------------------------------
(* The results *)

(* Success means a complete snapshot, although restic takes the death of   *)
(* the script for the end of its input.                                    *)
THEOREM Complete == Spec => []SuccessIsComplete
<1>1. Inv => SuccessIsComplete
    BY DEF Inv, CallInv, SummaryInv, SnapInv, SuccessIsComplete
<1> QED
    BY <1>1, Invariant, PTL

(* A failed call takes back the snapshot it has heard of. *)
THEOREM TakenBack == Spec => []FailureIsTakenBack
<1>1. TypeOK /\ Inv => FailureIsTakenBack
    BY DEF TypeOK, Inv, CallInv, ProcessInv, SnapInv, FailureIsTakenBack
<1> QED
    BY <1>1, Invariant, PTL

(* Calls that are not abandoned never have two restic processes alive. *)
THEOREM Orphans == Spec => []OrphanOnlyOfAbandonedCall
<1>1. ASSUME TypeOK, Inv, NEW c \in Calls, NEW d \in Calls, BothAlive(c, d),
             main[c] \notin Abandoned, main[d] \notin Abandoned
      PROVE  c = d
    <2>1. main[c] = "scan" /\ main[d] = "scan"
        BY <1>1 DEF TypeOK, Inv, CallInv, ProcessInv, BothAlive, Alive, Exited, Early,
                    Waited, Mains, Returned, Abandoned
    <2> QED
        BY <2>1, <1>1 DEF Inv, SerialInv, Returned
<1>2. TypeOK /\ Inv => OrphanOnlyOfAbandonedCall
    BY <1>1 DEF OrphanOnlyOfAbandonedCall
<1> QED
    BY <1>2, Invariant, PTL

-----------------------------------------------------------------------------
(* Who waits for whom *)

(* The goroutine exists from the start of a script on; it holds the write  *)
(* end until the script has ended, and restic has the end of its input     *)
(* only after that.                                                        *)
GoroutineInv(c) ==
    /\ waiter[c] \in {"waiting", "message", "close"} <=> writeEnd[c] /\ waiter[c] # "none"
    /\ c \in Piped /\ main[c] \notin {"idle", "pipe", "error"} => waiter[c] # "none"
    /\ restic[c] # "none" /\ c \in Piped => waiter[c] # "none"
    /\ restic[c] \in {"saved", "told", "ok"} => ~writeEnd[c]
    /\ restic[c] = "empty" => c \notin Piped
    /\ main[c] = "emptyPipeError" => restic[c] = "empty"
    /\ c \notin Piped => waiter[c] = "none" /\ ~writeEnd[c]

(* The goroutine puts the message into its channel before the result, each *)
(* of them once, and the caller takes them out in the other order.         *)
ChannelInv(c) ==
    /\ main[c] \in {"idle", "pipe"} => pipeError[c] = "empty"
    /\ c \in Piped /\ pipeError[c] # "empty" => waiter[c] = "done"
    /\ main[c] \in {"start", "scan", "wait", "undo", "pipeError", "emptyPipeError"} =>
          pipeError[c] # "empty" \/ (c \in Piped /\ waiter[c] # "done")
    /\ pipeError[c] = "err" \/ main[c] \in {"undoPipe", "pipeMsg"} =>
          dump[c] = "failed" /\ waiter[c] = "done"
    /\ waiter[c] = "message" => dump[c] = "failed"
    /\ waiter[c] \in {"none", "waiting", "message"} => pipeMsg[c] = "empty"
    /\ waiter[c] \in {"close", "report", "done"} /\ dump[c] = "failed" /\ main[c] # "error" =>
          pipeMsg[c] # "empty"

WaitInv(c) == GoroutineInv(c) /\ ChannelInv(c)

LEMMA InitWait == Init => \A c \in Calls : WaitInv(c)
<1> SUFFICES ASSUME Init, NEW c \in Calls PROVE WaitInv(c)
    OBVIOUS
<1>1. /\ main[c] = "idle" /\ waiter[c] = "none" /\ dump[c] = "none" /\ restic[c] = "none"
      /\ ~writeEnd[c] /\ pipeError[c] = "empty" /\ pipeMsg[c] = "empty"
    BY DEF Init
<1> QED
    BY <1>1 DEF WaitInv, GoroutineInv, ChannelInv

LEMMA OwnWait ==
    ASSUME TypeOK, NEW c \in Calls, CallInv(c), WaitInv(c), StepOf(c)
    PROVE  WaitInv(c)'
<1>1. /\ waiter[c] \in Waiters /\ main[c] \in Mains /\ dump[c] \in Dumps
      /\ restic[c] \in {"none"} \cup Alive \cup Exited
      /\ pipeError[c] \in {"empty", "nil", "err"} /\ pipeMsg[c] \in {"empty", "text"}
      /\ writeEnd[c] \in BOOLEAN
    BY DEF TypeOK
<1> USE DEF TypeOK, Set, WaitInv, GoroutineInv, ChannelInv, Mains, Waiters, Dumps, Alive, Exited,
            Returned, procVars, pipeVars, chanVars
<1>2. CASE Enter(c)
    BY <1>1, <1>2 DEF Enter, CallInv, ScriptInv, ProcessInv, Early
<1>3. CASE StartPipe(c)
    BY <1>1, <1>3 DEF StartPipe, CallInv, ScriptInv, ProcessInv, Early
<1>4. CASE StartRestic(c)
    BY <1>1, <1>4 DEF StartRestic, CallInv, ProcessInv, Early
<1>5. CASE ScanLine(c)
    BY <1>1, <1>5 DEF ScanLine
<1>6. CASE ScanEnd(c) \/ ReportPanics(c)
    BY <1>1, <1>6 DEF ScanEnd, ReportPanics
<1>7. CASE WaitRestic(c)
    BY <1>1, <1>7 DEF WaitRestic, CallInv, ProcessInv, Waited
<1>8. CASE Undo(c)
    BY <1>1, <1>8 DEF Undo
<1>9. CASE TakePipeError(c)
    BY <1>1, <1>9 DEF TakePipeError
<1>10. CASE TakePipeMsg(c)
    BY <1>1, <1>10 DEF TakePipeMsg
<1>11. CASE ScriptExited(c)
    BY <1>1, <1>11 DEF ScriptExited
<1>12. CASE SendMessage(c)
    BY <1>1, <1>12 DEF SendMessage
<1>13. CASE CloseWriter(c)
    BY <1>1, <1>13 DEF CloseWriter
<1>14. CASE SendError(c)
    BY <1>1, <1>14 DEF SendError, CallInv, ScriptInv
<1>15. CASE DumpEnds(c) \/ DumpBreaks(c) \/ CollectReader(c)
    BY <1>1, <1>15 DEF DumpEnds, DumpBreaks, CollectReader, CallInv, ScriptInv
<1>16. CASE ResticSaves(c)
    BY <1>1, <1>16 DEF ResticSaves
<1>17. CASE ResticPrints(c)
    BY <1>1, <1>17 DEF ResticPrints
<1>18. CASE ResticExits(c)
    BY <1>1, <1>18 DEF ResticExits
<1> QED
    BY <1>2, <1>3, <1>4, <1>5, <1>6, <1>7, <1>8, <1>9, <1>10, <1>11, <1>12, <1>13, <1>14,
       <1>15, <1>16, <1>17, <1>18, Zenon DEF StepOf, MainStep, WaiterStep, ResticStep

LEMMA NextWait == TypeOK /\ Inv /\ (\A c \in Calls : WaitInv(c)) /\ [Next]_vars
                      => (\A c \in Calls : WaitInv(c))'
<1> SUFFICES ASSUME TypeOK, Inv, \A c \in Calls : WaitInv(c), [Next]_vars, NEW d \in Calls
             PROVE  WaitInv(d)'
    BY Zenon
<1>1. CASE UNCHANGED vars
    BY <1>1 DEF vars, procVars, pipeVars, chanVars, WaitInv, GoroutineInv, ChannelInv
<1>2. ASSUME NEW c \in Calls, StepOf(c) PROVE WaitInv(d)'
    <2>1. CASE c = d
        BY <1>2, <2>1, OwnWait, Zenon DEF Inv
    <2>2. CASE c # d
        BY <1>2, <2>2, OthersUnchanged DEF SameCall, WaitInv, GoroutineInv, ChannelInv
    <2> QED
        BY <2>1, <2>2
<1> QED
    BY <1>1, <1>2 DEF Next, StepOf

(* The receives find what they wait for, the sends find room, and restic   *)
(* sees the end of its input: nobody in Backup waits in vain.              *)
THEOREM NobodyStuck == Spec => []NobodyWaitsInVain
<1> DEFINE W == \A c \in Calls : WaitInv(c)
<1>1. TypeOK /\ Inv /\ W => NobodyWaitsInVain
    <2> SUFFICES ASSUME TypeOK, Inv, W, NEW c \in Calls
                 PROVE  /\ waiter[c] = "message" => pipeMsg[c] = "empty"
                        /\ waiter[c] = "report" => pipeError[c] = "empty"
                        /\ main[c] \in {"pipeError", "emptyPipeError"} =>
                              pipeError[c] # "empty" \/ waiter[c] = "report"
                        /\ main[c] = "pipeMsg" => pipeMsg[c] # "empty"
                        /\ main[c] = "scan" /\ restic[c] = "running" /\ writeEnd[c] =>
                              waiter[c] \in {"waiting", "message", "close"}
        BY DEF NobodyWaitsInVain
    <2>1. WaitInv(c) /\ (main[c] = "pipeError" => restic[c] = "ok") /\ waiter[c] \in Waiters
        BY DEF TypeOK, Inv, CallInv, SnapInv
    <2> QED
        BY <2>1 DEF WaitInv, GoroutineInv, ChannelInv, Waiters
<1>2. Init => W
    BY InitWait
<1>3. TypeOK /\ Inv /\ W /\ [Next]_vars => W'
    BY NextWait
<1> HIDE DEF W
<1> QED
    BY <1>1, <1>2, <1>3, Invariant, PTL DEF Spec

-----------------------------------------------------------------------------
(* Refinement of BackupCall *)

(* There is no snapshot before restic has saved one, nor when there was    *)
(* nothing to save.                                                        *)
UnsavedInv ==
    \A c \in Calls :
        /\ restic[c] \in {"none", "running", "empty"} => snap[c] = "none"
        /\ main[c] \in {"emptyPipeError", "empty"} => restic[c] = "empty"

LEMMA InitUnsaved == Init => UnsavedInv
    BY DEF Init, UnsavedInv

LEMMA NextUnsaved == TypeOK /\ Inv /\ UnsavedInv /\ [Next]_vars => UnsavedInv'
<1> SUFFICES ASSUME TypeOK, Inv, UnsavedInv, [Next]_vars PROVE UnsavedInv'
    OBVIOUS
<1>1. CASE UNCHANGED vars
    BY <1>1 DEF vars, procVars, UnsavedInv
<1>2. ASSUME NEW c \in Calls, StepOf(c), NEW d \in Calls
      PROVE  /\ restic'[d] \in {"none", "running", "empty"} => snap'[d] = "none"
             /\ main'[d] \in {"emptyPipeError", "empty"} => restic'[d] = "empty"
    <2>1. CASE d # c
        BY <1>2, <2>1, OthersUnchanged DEF SameCall, UnsavedInv
    <2>2. CASE d = c
        <3> USE <2>2 DEF TypeOK, UnsavedInv, Set, procVars, pipeVars, chanVars
        <3>1. CASE Enter(c) \/ StartPipe(c) \/ StartRestic(c)
            <4>1. main[c] = "start" => restic[c] = "none"
                BY DEF Inv, CallInv, ProcessInv, Early
            <4> QED
                BY <3>1, <4>1 DEF Enter, StartPipe, StartRestic
        <3>2. CASE ScanLine(c) \/ ScanEnd(c) \/ ReportPanics(c) \/ WaitRestic(c)
            BY <3>2 DEF ScanLine, ScanEnd, ReportPanics, WaitRestic
        <3>3. CASE Undo(c) \/ TakePipeMsg(c)
            BY <3>3 DEF Undo, TakePipeMsg
        <3>7. CASE TakePipeError(c)
            BY <3>7 DEF TakePipeError
        <3>4. CASE WaiterStep(c)
            BY <3>4 DEF WaiterStep, ScriptExited, SendMessage, CloseWriter, SendError
        <3>5. CASE DumpEnds(c) \/ DumpBreaks(c) \/ CollectReader(c)
            BY <3>5 DEF DumpEnds, DumpBreaks, CollectReader
        <3>6. CASE ResticStep(c)
            BY <3>6 DEF ResticStep, ResticSaves, ResticPrints, ResticExits, Alive
        <3> QED
            BY <1>2, <3>1, <3>2, <3>3, <3>4, <3>5, <3>6, <3>7, Zenon DEF StepOf, MainStep
    <2> QED
        BY <2>1, <2>2
<1> QED
    BY <1>1, <1>2 DEF Next, StepOf, UnsavedInv

LEMMA InitCall == Init => Call!Init
    BY DEF Init, Call!Init, resultOf, leftOf, Returned

(* Functions that differ at one point at most.                             *)
LEMMA DiffersAt ==
    ASSUME NEW S, NEW f, NEW g, f = [x \in S |-> f[x]], g = [x \in S |-> g[x]],
           NEW c \in S, \A d \in S : d # c => g[d] = f[d]
    PROVE  g = [f EXCEPT ![c] = g[c]]
    OBVIOUS

(* A step of c is seen at c alone.                                         *)
LEMMA SeenAt ==
    ASSUME TypeOK, NEW c \in Calls, StepOf(c)
    PROVE  /\ resultOf' = [resultOf EXCEPT ![c] = resultOf'[c]]
           /\ leftOf' = [leftOf EXCEPT ![c] = leftOf'[c]]
<1>1. \A d \in Calls : d # c => main'[d] = main[d] /\ snap'[d] = snap[d]
    BY OthersUnchanged DEF SameCall
<1>2. \A d \in Calls : d # c => resultOf'[d] = resultOf[d] /\ leftOf'[d] = leftOf[d]
    BY <1>1 DEF resultOf, leftOf
<1>3. resultOf = [d \in Calls |-> resultOf[d]] /\ resultOf' = [d \in Calls |-> resultOf'[d]]
    BY DEF resultOf
<1>4. leftOf = [d \in Calls |-> leftOf[d]] /\ leftOf' = [d \in Calls |-> leftOf'[d]]
    BY DEF leftOf
<1>5. resultOf' = [resultOf EXCEPT ![c] = resultOf'[c]]
    BY <1>2, <1>3, DiffersAt, Zenon
<1>6. leftOf' = [leftOf EXCEPT ![c] = leftOf'[c]]
    BY <1>2, <1>4, DiffersAt, Zenon
<1> QED
    BY <1>5, <1>6

LEMMA Unseen ==
    ASSUME TypeOK, NEW c \in Calls, StepOf(c), resultOf'[c] = resultOf[c], leftOf'[c] = leftOf[c]
    PROVE  UNCHANGED Call!callVars
<1>1. /\ resultOf' = [resultOf EXCEPT ![c] = resultOf[c]]
      /\ leftOf' = [leftOf EXCEPT ![c] = leftOf[c]]
    BY SeenAt, Zenon
<1>2. resultOf = [d \in Calls |-> resultOf[d]] /\ leftOf = [d \in Calls |-> leftOf[d]]
    BY DEF resultOf, leftOf
<1>3. resultOf' = resultOf /\ leftOf' = leftOf
    BY <1>1, <1>2
<1> QED
    BY <1>3 DEF Call!callVars

(* A call that was under way has returned with r.                          *)
LEMMA SeenReturn ==
    ASSUME TypeOK, NEW c \in Calls, StepOf(c), NEW r \in Returned,
           main[c] \notin Returned \cup {"idle"}, main'[c] = r
    PROVE  Call!Return(c, r, snap'[c])
<1>1. resultOf[c] = "busy" /\ resultOf'[c] = r /\ leftOf'[c] = snap'[c]
    BY DEF resultOf, leftOf, Returned
<1>2. /\ resultOf' = [resultOf EXCEPT ![c] = r]
      /\ leftOf' = [leftOf EXCEPT ![c] = snap'[c]]
    BY <1>1, SeenAt, Zenon
<1> QED
    BY <1>1, <1>2 DEF Call!Return

LEMMA StepMaps ==
    ASSUME TypeOK, TypeOK', Inv, Inv', UnsavedInv, UnsavedInv', NEW c \in Calls, StepOf(c)
    PROVE  Call!Next \/ UNCHANGED Call!callVars
<1>1. main[c] \in Mains /\ main'[c] \in Mains /\ snap'[c] \in Call!Snapshots
    BY DEF TypeOK, Call!Snapshots
<1>2. CASE main[c] = "idle"
    <2>1. CASE Enter(c)
        <3>1. main'[c] \in {"pipe", "start"}
            BY <2>1 DEF Enter, Set, TypeOK
        <3>2. resultOf[c] = "none" /\ resultOf'[c] = "busy" /\ leftOf'[c] = leftOf[c]
            BY <1>2, <3>1 DEF resultOf, leftOf, Returned
        <3>3. \A d \in Calls : resultOf[d] # "busy"
            BY <2>1 DEF Enter, resultOf, Returned
        <3>4. resultOf' = [resultOf EXCEPT ![c] = "busy"]
            BY <3>2, SeenAt, Zenon
        <3>5. leftOf' = leftOf
            <4>1. leftOf' = [leftOf EXCEPT ![c] = leftOf[c]]
                BY <3>2, SeenAt, Zenon
            <4> QED
                BY <4>1 DEF leftOf
        <3> QED
            BY <3>2, <3>3, <3>4, <3>5 DEF Call!Next, Call!Begin
    <2>2. CASE ~Enter(c)
        <3>1. main'[c] = main[c]
            BY <1>2, <2>2 DEF StepOf, MainStep, StartPipe, StartRestic, ScanLine, ScanEnd,
               ReportPanics, WaitRestic, Undo, TakePipeError, TakePipeMsg, WaiterStep, ScriptExited,
               SendMessage, CloseWriter, SendError, DumpEnds, DumpBreaks, CollectReader,
               ResticStep, ResticSaves, ResticPrints, ResticExits
        <3> QED
            BY <1>2, <3>1, Unseen DEF resultOf, leftOf, Returned
    <2> QED
        BY <2>1, <2>2
<1>3. CASE main[c] \notin Returned \cup {"idle"} /\ main'[c] \notin Returned
    <2>1. main'[c] # "idle"
        <3>1. CASE Enter(c) \/ MainStep(c) \/ ReportPanics(c)
            BY <1>3, <3>1 DEF Enter, MainStep, StartPipe, StartRestic, ScanLine, ScanEnd,
               ReportPanics, WaitRestic, Undo, TakePipeError, TakePipeMsg, Set, TypeOK
        <3>2. CASE ~(Enter(c) \/ MainStep(c) \/ ReportPanics(c))
            BY <1>3, <3>2 DEF StepOf, WaiterStep, ScriptExited, SendMessage, CloseWriter,
               SendError, DumpEnds, DumpBreaks, CollectReader, ResticStep, ResticSaves,
               ResticPrints, ResticExits
        <3> QED
            BY <3>1, <3>2
    <2> QED
        BY <1>3, <2>1, Unseen DEF resultOf, leftOf
<1>4. CASE main[c] \notin Returned \cup {"idle"} /\ main'[c] \in Returned
    <2>1. Call!Return(c, main'[c], snap'[c])
        BY <1>4, SeenReturn
    <2>2. CASE main'[c] = "ok"
        <3>1. snap'[c] = "whole"
            BY <2>2 DEF Inv, CallInv, SnapInv
        <3> QED
            BY <2>1, <2>2, <3>1 DEF Call!Succeed, Call!Next
    <2>3. CASE main'[c] = "empty"
        <3>1. snap'[c] = "none"
            BY <2>3 DEF UnsavedInv
        <3> QED
            BY <2>1, <2>3, <3>1 DEF Call!Empty, Call!Next
    <2>4. CASE main'[c] = "error"
        BY <1>1, <2>1, <2>4 DEF Call!Fail, Call!Next
    <2>5. CASE main'[c] \in {"odd", "panic"}
        BY <1>1, <2>1, <2>5 DEF Call!GiveUp, Call!Next
    <2> QED
        BY <1>4, <2>2, <2>3, <2>4, <2>5 DEF Returned
<1>5. CASE main[c] \in Returned
    <2>1. main'[c] = main[c]
        BY <1>5 DEF StepOf, Enter, MainStep, StartPipe, StartRestic, ScanLine, ScanEnd,
           ReportPanics, WaitRestic, Undo, TakePipeError, TakePipeMsg, WaiterStep, ScriptExited,
           SendMessage, CloseWriter, SendError, DumpEnds, DumpBreaks, CollectReader,
           ResticStep, ResticSaves, ResticPrints, ResticExits, Returned
    <2>2. CASE ResticSaves(c)
        <3>1. restic[c] = "running" /\ snap[c] = "none" /\ snap'[c] \in {"whole", "partial"}
            BY <2>2 DEF ResticSaves, Set, TypeOK, UnsavedInv
        <3>2. main[c] \in Abandoned
            BY <1>5, <3>1 DEF Inv, CallInv, ProcessInv, Waited, Exited, Returned, Abandoned
        <3>3. resultOf[c] \in Abandoned /\ resultOf'[c] = resultOf[c] /\ leftOf[c] = "none" /\ leftOf'[c] = snap'[c]
            BY <2>1, <3>1, <3>2 DEF resultOf, leftOf, Returned, Abandoned
        <3>4. leftOf' = [leftOf EXCEPT ![c] = snap'[c]]
            BY <3>3, SeenAt, Zenon
        <3>5. resultOf' = resultOf
            <4>1. resultOf' = [resultOf EXCEPT ![c] = resultOf[c]]
                BY <3>3, SeenAt, Zenon
            <4> QED
                BY <4>1 DEF resultOf
        <3>6. Call!LateSnapshot(c)
            BY <3>1, <3>3, <3>4, <3>5 DEF Call!LateSnapshot, Abandoned
        <3> QED
            BY <3>6 DEF Call!Next
    <2>3. CASE ~ResticSaves(c)
        <3>1. snap'[c] = snap[c]
            BY <1>5, <2>3 DEF StepOf, Enter, MainStep, StartPipe, StartRestic, ScanLine, ScanEnd,
               ReportPanics, WaitRestic, Undo, TakePipeError, TakePipeMsg, WaiterStep, ScriptExited,
               SendMessage, CloseWriter, SendError, DumpEnds, DumpBreaks, CollectReader,
               ResticStep, ResticPrints, ResticExits, Returned, procVars
        <3> QED
            BY <1>5, <2>1, <3>1, Unseen DEF resultOf, leftOf
    <2> QED
        BY <2>2, <2>3
<1> QED
    BY <1>1, <1>2, <1>3, <1>4, <1>5

(* The phase backup may take Restic.Backup for a call with an outcome:     *)
(* all its goroutines and processes do is a step of BackupCall or cannot   *)
(* be seen by the caller.                                                  *)
THEOREM ImplementsCall == Spec => KeepsCall
<1>1. Init => Call!Init
    BY InitCall
<1>2. TypeOK /\ TypeOK' /\ Inv /\ Inv' /\ UnsavedInv /\ UnsavedInv' /\ [Next]_vars
         => [Call!Next]_(Call!callVars)
    <2> SUFFICES ASSUME TypeOK, TypeOK', Inv, Inv', UnsavedInv, UnsavedInv', [Next]_vars
                 PROVE  Call!Next \/ UNCHANGED Call!callVars
        BY Zenon
    <2>1. CASE UNCHANGED vars
        BY <2>1 DEF vars, procVars, Call!callVars, resultOf, leftOf
    <2>2. ASSUME NEW c \in Calls, StepOf(c) PROVE Call!Next \/ UNCHANGED Call!callVars
        BY <2>2, StepMaps, Zenon
    <2> QED
        BY <2>1, <2>2, Zenon DEF Next, StepOf
<1>3. Init => UnsavedInv
    BY InitUnsaved
<1>4. TypeOK /\ Inv /\ UnsavedInv /\ [Next]_vars => UnsavedInv'
    BY NextUnsaved
<1>5. Spec => []UnsavedInv
    BY <1>3, <1>4, Invariant, PTL DEF Spec
<1> QED
    BY <1>1, <1>2, <1>5, Invariant, PTL DEF Spec, KeepsCall, Call!Spec

=============================================================================
