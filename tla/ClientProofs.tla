---------------------------- MODULE ClientProofs -----------------------------
(***************************************************************************)
(* Theorems about ApiOutput and Client, for any number of requests.  The   *)
(* invariants of the service are proved for ApiOutput, without clients;    *)
(* ClientImplements carries them over.  What the clients add is the        *)
(* agreement of result, sent, torn and cli (VerdictInv).                   *)
(***************************************************************************)
EXTENDS Client, TLAPS

USE DEF answer

(* Every step of the service, and every step with clients, is a step of    *)
(* ApiOutput or leaves it alone.                                           *)
LEMMA ClientMaps == ClientNext => [Next]_vars
<1>1. ASSUME NEW w \in Requests, ClientStep(w) \/ StreamTooLong(w)
      PROVE  UNCHANGED vars
    BY <1>1 DEF ClientStep, ServiceFound, ServiceNotFound, RequestFails,
       StreamTellsError, StreamEnds, StreamBreaks, StreamTooLong
<1>2. ASSUME NEW w \in Requests, Arrive(w) PROVE Next
    BY <1>2 DEF Arrive, Next
<1>3. ASSUME ServiceStep PROVE Next
    BY <1>3 DEF ServiceStep, Next
<1> QED
    BY <1>1, <1>2, <1>3 DEF ClientNext

THEOREM ClientImplements == ClientSpec => Spec
<1>1. ClientInit => Init
    BY DEF ClientInit
<1>2. [ClientNext]_clientVars => [Next]_vars
    BY ClientMaps DEF clientVars
<1> QED
    BY <1>1, <1>2, PTL DEF ClientSpec, Spec

-----------------------------------------------------------------------------
(* Types *)

LEMMA RunnersAreApart ==
    /\ \A w \in Requests : w # Cron /\ w \in Runners /\ w \in Funcs
    /\ \A p \in Runners : p # Cron => p \in Requests
    /\ Cron \in Runners /\ None \in Funcs /\ Nil \in Funcs
    BY NamesAssumption DEF Runners, Funcs

LEMMA InitTypes == Init => TypeOK
<1> SUFFICES ASSUME Init PROVE TypeOK
    OBVIOUS
<1>1. pc \in [Runners -> States] /\ pc[Cron] = "idle"
    BY RunnersAreApart DEF Init, States
<1>2. <<>> \in Seq(Requests)
    OBVIOUS
<1> QED
    BY <1>1, <1>2, RunnersAreApart DEF Init, TypeOK, Results

LEMMA MoveTypes ==
    ASSUME TypeOK, NEW p \in Runners, NEW s \in States, MoveTo(p, s),
           p = Cron => s \in {"idle", "call", "running", "restic"}
    PROVE  /\ pc' \in [Runners -> States]
           /\ pc'[Cron] \in {"idle", "call", "running", "restic"}
           /\ met' \in BOOLEAN
    BY RunnersAreApart DEF MoveTo, TypeOK

LEMMA RestartTypes == TypeOK /\ Restart => TypeOK'
<1> SUFFICES ASSUME TypeOK, Restart PROVE TypeOK'
    OBVIOUS
<1>1. pc' \in [Runners -> States]
    BY DEF Restart, TypeOK, States
<1>2. pc'[Cron] = "idle"
    BY RunnersAreApart DEF Restart
<1>3. result' \in [Requests -> Results]
    BY DEF Restart, TypeOK, Results
<1>4. <<>> \in Seq(Requests)
    OBVIOUS
<1>5. /\ output' \in Seq(Requests) /\ orig' \in [Requests -> Seq(Requests)]
      /\ flush' \in Funcs /\ flushFunc' \in Funcs
      /\ read' \in [Requests -> Funcs] /\ captured' \in [Runners -> Funcs]
      /\ met' \in BOOLEAN /\ sent' \subseteq Requests /\ torn' \subseteq Requests
    BY <1>4, RunnersAreApart DEF Restart, TypeOK
<1> QED
    BY <1>1, <1>2, <1>3, <1>5 DEF TypeOK

LEMMA RunTypes == ASSUME TypeOK, NEW p \in Runners, Run(p) PROVE TypeOK'
<1>1. ASSUME NEW r \in {"skipped", "rejected", "ok", "failed", "unreadable"}, Return(p, r)
      PROVE TypeOK'
    <2>1. PICK s \in {"idle", "verdict", "reset"} : MoveTo(p, s) /\ (p = Cron => s = "idle")
        BY <1>1 DEF Return
    <2>2. s \in States
        BY DEF States
    <2>3. result' \in [Requests -> Results]
        BY <1>1 DEF Return, TypeOK, Results
    <2>4. captured' \in [Runners -> Funcs]
        BY <1>1, RunnersAreApart DEF Return, TypeOK
    <2> QED
        BY <1>1, <2>1, <2>2, <2>3, <2>4, MoveTypes DEF Return, TypeOK, globals
<1>2. CASE Skip(p) \/ Reject(p) \/ Finish(p)
    BY <1>1, <1>2 DEF Skip, Reject, Finish
<1>3. CASE Lock(p)
    BY <1>3, MoveTypes DEF Lock, TypeOK, States, globals, locals
<1>4. CASE StartRestic(p)
    <2>1. captured' \in [Runners -> Funcs]
        BY <1>4 DEF StartRestic, TypeOK
    <2> QED
        BY <1>4, <2>1, MoveTypes DEF StartRestic, TypeOK, States, globals
<1> QED
    BY <1>2, <1>3, <1>4 DEF Run

LEMMA NextTypes == TypeOK /\ [Next]_vars => TypeOK'
<1> SUFFICES ASSUME TypeOK, [Next]_vars PROVE TypeOK'
    OBVIOUS
<1> USE RunnersAreApart, MoveTypes
<1>1. ASSUME NEW w \in Requests, TurnAway(w) PROVE TypeOK'
    BY <1>1 DEF TurnAway, TypeOK, States, Results, globals, locals
<1>2. ASSUME NEW w \in Requests, ReadOutput(w) PROVE TypeOK'
    BY <1>2 DEF ReadOutput, TypeOK, States, globals
<1>3. ASSUME NEW w \in Requests, Redirect(w) PROVE TypeOK'
    <2>1. orig[w] \in Seq(Requests)
        BY DEF TypeOK
    <2>2. Append(orig[w], w) \in Seq(Requests)
        BY <2>1
    <2> QED
        BY <1>3, <2>2 DEF Redirect, TypeOK, States, locals
<1>4. ASSUME NEW w \in Requests, SetFlush(w) PROVE TypeOK'
    BY <1>4 DEF SetFlush, TypeOK, States, locals
<1>5. ASSUME NEW w \in Requests, NEW s \in States, NEW t \in States, ReadFlush(w, s, t)
      PROVE TypeOK'
    BY <1>5 DEF ReadFlush, TypeOK, globals
<1>6. ASSUME NEW w \in Requests, NEW s \in States, NEW t \in States, SetFlushFunc(w, s, t)
      PROVE TypeOK'
    BY <1>6 DEF SetFlushFunc, TypeOK
<1>7. ASSUME NEW w \in Requests, Panic(w) PROVE TypeOK'
    BY <1>7 DEF Panic, TypeOK, States, Results, globals
<1>8. ASSUME NEW w \in Requests, WriteVerdict(w) PROVE TypeOK'
    BY <1>8 DEF WriteVerdict, TypeOK, States, globals, locals
<1>9. ASSUME NEW w \in Requests, NEW s \in States, NEW t \in States, ResetFlush(w, s, t)
      PROVE TypeOK'
    BY <1>9 DEF ResetFlush, TypeOK, locals
<1>10. ASSUME NEW w \in Requests, ClearFlushFunc(w) PROVE TypeOK'
    BY <1>10 DEF ClearFlushFunc, TypeOK, States, locals
<1>11. ASSUME NEW w \in Requests, RestoreOutput(w) PROVE TypeOK'
    <2>1. orig[w] \in Seq(Requests) /\ <<>> \in Seq(Requests)
        BY DEF TypeOK
    <2> QED
        BY <1>11, <2>1 DEF RestoreOutput, TypeOK, States
<1>12. ASSUME NEW w \in Requests, Prepare(w) PROVE TypeOK'
    BY <1>12, <1>3, <1>4, <1>5, <1>6 DEF Prepare, States
<1>13. ASSUME NEW w \in Requests, Deferred(w) PROVE TypeOK'
    BY <1>13, <1>5, <1>6, <1>8, <1>9, <1>10, <1>11 DEF Deferred, States
<1>14. CASE CronBegins
    BY <1>14 DEF CronBegins, TypeOK, States, globals, locals
<1>15. CASE UNCHANGED vars
    BY <1>15 DEF vars, TypeOK
<1> QED
    BY <1>1, <1>2, <1>7, <1>12, <1>13, <1>14, <1>15, RunTypes, RestartTypes DEF Next, Handle

THEOREM Types == Spec => []TypeOK
    BY InitTypes, NextTypes, PTL DEF Spec

(* A request's answer, the flush functions and the exit codes are never    *)
(* anything else, whatever the service and its clients do.                 *)
THEOREM ClientTypes == ClientSpec => []ClientTypeOK
<1>1. ClientInit => cli \in [Requests -> {"probe", "stream", "exit0", "exit1", "cut"}]
    BY DEF ClientInit
<1>2. cli \in [Requests -> {"probe", "stream", "exit0", "exit1", "cut"}] /\ [ClientNext]_clientVars
          => (cli \in [Requests -> {"probe", "stream", "exit0", "exit1", "cut"}])'
    BY DEF ClientNext, clientVars, ClientStep, ServiceFound, ServiceNotFound, RequestFails,
       StreamTellsError, StreamEnds, StreamBreaks, StreamTooLong, Arrive, Proceed
<1> QED
    BY <1>1, <1>2, ClientImplements, Types, PTL DEF ClientSpec, ClientTypeOK

-----------------------------------------------------------------------------
(* The flush functions.  The invariant adds that nil is never read.        *)

FlushInv ==
    /\ FlushFunctionsAreLive
    /\ flush # Nil /\ \A w \in Requests : read[w] # Nil

LEMMA InitFlush == Init => FlushInv
    BY NamesAssumption DEF Init, FlushInv, FlushFunctionsAreLive

(* A runner that moves between states in which its response is alive, and  *)
(* leaves the functions alone.                                             *)
Dead == {"new", "clear", "reset2", "reread", "refunc", "restore", "ended"}
LEMMA MoveFlush ==
    ASSUME TypeOK, FlushInv, NEW p \in Runners, NEW s, MoveTo(p, s),
           p = Cron \/ pc[p] \in Dead \/ s \notin Dead,
           pc[p] \notin {"reset2", "reread", "refunc"},
           UNCHANGED <<flush, flushFunc, read>>
    PROVE  FlushInv'
<1>1. ASSUME NEW q \in Runners, q # p PROVE pc'[q] = pc[q]
    BY <1>1 DEF MoveTo, TypeOK
<1>2. pc'[p] = s
    BY DEF MoveTo, TypeOK
<1> QED
    BY <1>1, <1>2, RunnersAreApart DEF FlushInv, FlushFunctionsAreLive, Dead

LEMMA RestartFlush == Restart => FlushInv'
    BY NamesAssumption DEF Restart, FlushInv, FlushFunctionsAreLive

LEMMA NextFlush == TypeOK /\ FlushInv /\ [Next]_vars => FlushInv'
<1> SUFFICES ASSUME TypeOK, FlushInv, [Next]_vars PROVE FlushInv'
    OBVIOUS
<1> USE RunnersAreApart, NamesAssumption
<1>1. ASSUME NEW w \in Requests, TurnAway(w) \/ ReadOutput(w) PROVE FlushInv'
    BY <1>1, MoveFlush DEF TurnAway, ReadOutput, globals, locals, Dead
<1>2. ASSUME NEW w \in Requests, Redirect(w) PROVE FlushInv'
    BY <1>2, MoveFlush DEF Redirect, locals, Dead
<1>3. ASSUME NEW w \in Requests, SetFlush(w) PROVE FlushInv'
    BY <1>3 DEF SetFlush, MoveTo, TypeOK, locals, FlushInv, FlushFunctionsAreLive
<1>4. ASSUME NEW w \in Requests,
             ReadFlush(w, "readflush", "setfunc") \/ ReadFlush(w, "reread", "refunc")
      PROVE FlushInv'
    <2>1. read'[w] # Nil /\ \A v \in Requests : read'[v] # Nil
        BY <1>4 DEF ReadFlush, TypeOK, FlushInv
    <2>2. /\ \A v \in Requests : v # w => pc'[v] = pc[v]
          /\ pc'[w] \in {"setfunc", "refunc"}
          /\ pc'[w] = "setfunc" => pc[w] = "readflush"
          /\ pc'[w] = "refunc" => pc[w] = "reread"
        BY <1>4 DEF ReadFlush, MoveTo, TypeOK
    <2>3. UNCHANGED <<flush, flushFunc>>
        BY <1>4 DEF ReadFlush, globals
    <2> QED
        BY <2>1, <2>2, <2>3 DEF FlushInv, FlushFunctionsAreLive
<1>5. ASSUME NEW w \in Requests,
             SetFlushFunc(w, "setfunc", "call") \/ SetFlushFunc(w, "refunc", "restore")
      PROVE FlushInv'
    <2>1. flushFunc' # Nil /\ UNCHANGED flush /\ \A v \in Requests : read'[v] # Nil
        BY <1>5 DEF SetFlushFunc, TypeOK, FlushInv
    <2>2. /\ \A v \in Requests : v # w => pc'[v] = pc[v]
          /\ pc[w] # "refunc" => pc'[w] = "call"
        BY <1>5 DEF SetFlushFunc, MoveTo, TypeOK
    <2> QED
        BY <2>1, <2>2 DEF FlushInv, FlushFunctionsAreLive
<1>6. ASSUME NEW p \in Runners, Run(p) PROVE FlushInv'
    <2>1. ASSUME NEW r, Return(p, r), pc[p] \in {"call", "running", "restic"} PROVE FlushInv'
        BY <2>1, MoveFlush DEF Return, globals, Dead
    <2>2. CASE Skip(p) \/ Reject(p) \/ Finish(p)
        BY <2>1, <2>2 DEF Skip, Reject, Finish
    <2>3. CASE Lock(p) \/ StartRestic(p)
        BY <2>3, MoveFlush DEF Lock, StartRestic, globals, locals, Dead
    <2> QED
        BY <1>6, <2>2, <2>3 DEF Run
<1>7. ASSUME NEW w \in Requests, Panic(w) \/ WriteVerdict(w) PROVE FlushInv'
    BY <1>7, MoveFlush DEF Panic, WriteVerdict, globals, locals, Dead
<1>8. ASSUME NEW w \in Requests,
             ResetFlush(w, "reset", "clear") \/ ResetFlush(w, "reset2", "reread")
      PROVE FlushInv'
    <2>1. flush' = None /\ UNCHANGED <<flushFunc, read>>
        BY <1>8 DEF ResetFlush, locals
    <2>2. /\ \A v \in Requests : v # w => pc'[v] = pc[v]
          /\ pc[w] = "reset2" => pc'[w] = "reread"
          /\ pc[w] \in {"reset", "reset2"}
        BY <1>8 DEF ResetFlush, MoveTo, TypeOK
    <2> QED
        BY <2>1, <2>2 DEF FlushInv, FlushFunctionsAreLive
<1>9. ASSUME NEW w \in Requests, ClearFlushFunc(w) PROVE FlushInv'
    <2>1. UNCHANGED <<flush, read>> /\ pc[w] = "clear"
        BY <1>9 DEF ClearFlushFunc, locals
    <2>2. (\A v \in Requests : v # w => pc'[v] = pc[v]) /\ pc'[w] = "reset2"
        BY <1>9 DEF ClearFlushFunc, MoveTo, TypeOK
    <2> QED
        BY <2>1, <2>2 DEF FlushInv, FlushFunctionsAreLive
<1>10. ASSUME NEW w \in Requests, RestoreOutput(w) PROVE FlushInv'
    BY <1>10, MoveFlush DEF RestoreOutput, Dead
<1>11. CASE CronBegins
    BY <1>11, MoveFlush DEF CronBegins, globals, locals, Dead
<1>12. CASE UNCHANGED vars
    BY <1>12 DEF vars, FlushInv, FlushFunctionsAreLive
<1>13. ASSUME NEW w \in Requests, Handle(w) PROVE FlushInv'
    BY <1>13, <1>2, <1>3, <1>4, <1>5, <1>6, <1>7, <1>8, <1>9, <1>10
       DEF Handle, Prepare, Deferred
<1> QED
    BY <1>1, <1>6, <1>11, <1>12, <1>13, RestartFlush DEF Next

(* flush and restic.FlushFunc are fit to be called, as far as the code     *)
(* takes care of it, however many requests overlap.                        *)
THEOREM FlushLive == ClientSpec => []FlushFunctionsAreLive
<1>1. Spec => []FlushInv
    BY InitFlush, NextFlush, InitTypes, NextTypes, PTL DEF Spec
<1>2. FlushInv => FlushFunctionsAreLive
    BY DEF FlushInv
<1> QED
    BY <1>1, <1>2, ClientImplements, PTL

-----------------------------------------------------------------------------
(* The verdict.  Life(w) is what a step of the service may do to the state *)
(* of request w that its client learns of.                                 *)

Early == {"new", "redirect", "setflush", "readflush", "setfunc", "call", "running", "restic"}
Late == {"reset", "clear", "reset2", "reread", "refunc", "restore", "ended"}
Errors == {"rejected", "failed", "unreadable"}

Life(w) ==
    LET told == (w \in sent' <=> w \in sent) /\ (w \in torn' <=> w \in torn) IN
    \/ pc'[w] = pc[w] /\ result'[w] = result[w] /\ told
    \/ pc[w] \in {"call", "running", "restic"} /\ pc'[w] = "verdict" /\ result'[w] \in Errors /\ told
    \/ pc[w] \in Early \ {"new"} /\ pc'[w] \in Late /\ result'[w] \notin Errors \cup {"none"} /\ told
    \/ pc[w] = "verdict" /\ pc'[w] \in Late /\ result'[w] = result[w] /\ w \in sent' \cup torn'
    \/ pc[w] \in Early \ {"new"} /\ pc'[w] \in Early /\ result'[w] = result[w] /\ told
    \/ pc[w] \in Late \ {"ended"} /\ pc'[w] \in Late /\ result'[w] = result[w] /\ told
    \/ pc[w] \notin Idle /\ pc'[w] = "ended" /\ result'[w] = "aborted" /\ told

(* Handle leaves new and ended requests alone, TurnAway and ReadOutput are *)
(* for new ones.                                                           *)
Begins(w) ==
    /\ pc[w] = "new" /\ pc'[w] \in {"redirect", "ended"}
    /\ result'[w] \in {result[w], "forbidden"}
    /\ pc'[w] = "ended" => result'[w] = "forbidden"
    /\ pc'[w] = "redirect" => result'[w] = result[w]
    /\ (w \in sent' <=> w \in sent) /\ (w \in torn' <=> w \in torn)

LEMMA ArriveLife ==
    ASSUME TypeOK, NEW w \in Requests, NEW v \in Requests, TurnAway(v) \/ ReadOutput(v)
    PROVE  IF v = w THEN Begins(w) ELSE Life(w)
    BY RunnersAreApart DEF TurnAway, ReadOutput, MoveTo, TypeOK, Begins, Life, globals, locals

LEMMA RunLife ==
    ASSUME TypeOK, NEW w \in Requests, NEW p \in Runners, Run(p)
    PROVE  Life(w)
<1> USE RunnersAreApart
<1>1. ASSUME NEW r \in {"skipped", "rejected", "ok", "failed", "unreadable"}, Return(p, r),
             pc[p] \in {"call", "running", "restic"}
      PROVE  Life(w)
    <2>1. CASE p # w
        BY <1>1, <2>1 DEF Return, MoveTo, TypeOK, Life
    <2>2. CASE p = w /\ r \in Errors
        BY <1>1, <2>2 DEF Return, MoveTo, TypeOK, Life, Errors
    <2>3. CASE p = w /\ r \notin Errors
        BY <1>1, <2>3 DEF Return, MoveTo, TypeOK, Life, Errors, Early, Late
    <2> QED
        BY <2>1, <2>2, <2>3
<1>2. CASE Skip(p) \/ Reject(p) \/ Finish(p)
    BY <1>1, <1>2 DEF Skip, Reject, Finish
<1>3. CASE Lock(p) \/ StartRestic(p)
    BY <1>3 DEF Lock, StartRestic, MoveTo, TypeOK, Life, Early
<1> QED
    BY <1>2, <1>3 DEF Run

LEMMA HandleLife ==
    ASSUME TypeOK, NEW w \in Requests, NEW v \in Requests, Handle(v)
    PROVE  Life(w)
<1> USE RunnersAreApart
<1>1. ASSUME Prepare(v) PROVE Life(w)
    BY <1>1 DEF Prepare, Redirect, SetFlush, ReadFlush, SetFlushFunc, MoveTo, TypeOK, Life, Early
<1>2. ASSUME Panic(v) PROVE Life(w)
    BY <1>2 DEF Panic, MoveTo, TypeOK, Life, Early, Late, Errors
<1>3. ASSUME WriteVerdict(v) PROVE Life(w)
    BY <1>3 DEF WriteVerdict, MoveTo, TypeOK, Life, Late
<1>4. ASSUME ResetFlush(v, "reset", "clear") \/ ResetFlush(v, "reset2", "reread")
             \/ ClearFlushFunc(v)
      PROVE  Life(w)
    BY <1>4 DEF ResetFlush, ClearFlushFunc, MoveTo, TypeOK, Life, Late
<1>5. ASSUME ReadFlush(v, "reread", "refunc") \/ SetFlushFunc(v, "refunc", "restore")
             \/ RestoreOutput(v)
      PROVE  Life(w)
    BY <1>5 DEF ReadFlush, SetFlushFunc, RestoreOutput, MoveTo, TypeOK, Life, Late
<1> QED
    BY <1>1, <1>2, <1>3, <1>4, <1>5, RunLife DEF Handle, Deferred

LEMMA CronLife ==
    ASSUME TypeOK, NEW w \in Requests, CronBegins \/ Run(Cron) \/ Restart
    PROVE  Life(w)
<1> USE RunnersAreApart
<1>1. CASE CronBegins
    BY <1>1 DEF CronBegins, MoveTo, TypeOK, Life
<1>2. CASE Run(Cron)
    BY <1>2, RunLife
<1>3. CASE Restart
    BY <1>3 DEF Restart, Inside, TypeOK, Life
<1> QED
    BY <1>1, <1>2, <1>3

Settled(w) ==
    /\ pc[w] \in Early => result[w] = "none" /\ w \notin sent \cup torn
    /\ pc[w] = "verdict" => result[w] \in Errors /\ w \notin sent \cup torn
    /\ result[w] \in Errors => pc[w] = "verdict" \/ w \in sent \cup torn
    /\ w \in sent \cup torn => result[w] \in Errors \cup {"aborted"}

Closed(w) ==
    /\ cli[w] = "probe" => pc[w] = "new"
    /\ cli[w] \in {"exit0", "exit1"} => pc[w] \in {"new", "ended"}
    /\ cli[w] = "exit1" => result[w] \in {"none", "rejected", "failed", "aborted"}
    /\ cli[w] = "exit0" => result[w] \notin {"rejected", "failed"} \/ w \in torn

VerdictInv == \A w \in Requests : Settled(w) /\ Closed(w)

LEMMA InitVerdict == ClientInit => VerdictInv
    BY RunnersAreApart DEF ClientInit, Init, VerdictInv, Settled, Closed, Early, Errors

LEMMA LifeVerdict ==
    ASSUME NEW w \in Requests, Settled(w), Closed(w), Life(w), cli'[w] = cli[w]
    PROVE  Settled(w)' /\ Closed(w)'
<1>1. Settled(w)'
    BY DEF Settled, Life, Early, Late, Errors, Idle
<1>2. Closed(w)'
    BY DEF Closed, Life, Early, Late, Errors, Idle
<1> QED
    BY <1>1, <1>2

LEMMA NextVerdict == ClientTypeOK /\ VerdictInv /\ [ClientNext]_clientVars => VerdictInv'
<1> SUFFICES ASSUME ClientTypeOK, VerdictInv, [ClientNext]_clientVars, NEW w \in Requests
             PROVE  Settled(w)' /\ Closed(w)'
    BY DEF VerdictInv
<1> USE DEF ClientTypeOK
<1>1. Settled(w) /\ Closed(w)
    BY DEF VerdictInv
<1>2. ASSUME NEW v \in Requests, ClientStep(v) \/ StreamTooLong(v) PROVE Settled(w)' /\ Closed(w)'
    <2>1. UNCHANGED vars
        BY <1>2 DEF ClientStep, ServiceFound, ServiceNotFound, RequestFails,
           StreamTellsError, StreamEnds, StreamBreaks, StreamTooLong
    <2>2. Settled(w)'
        BY <1>1, <2>1 DEF Settled, vars
    <2>3. CASE v # w
        <3>1. cli'[w] = cli[w]
            BY <1>2, <2>3 DEF ClientStep, ServiceFound, ServiceNotFound, RequestFails,
               StreamTellsError, StreamEnds, StreamBreaks, StreamTooLong, Proceed
        <3> QED
            BY <1>1, <2>1, <2>2, <3>1 DEF Closed, vars
    <2>4. CASE v = w
        <3>1. CASE ServiceFound(w) \/ ServiceNotFound(w) \/ RequestFails(w)
            BY <1>1, <2>1, <3>1 DEF ServiceFound, ServiceNotFound, RequestFails, Proceed,
               Closed, Settled, Early, vars
        <3>2. CASE StreamTellsError(w) \/ StreamEnds(w) \/ StreamBreaks(w) \/ StreamTooLong(w)
            BY <1>1, <2>1, <3>2 DEF StreamTellsError, StreamEnds, StreamBreaks, StreamTooLong, Proceed,
               Closed, Settled, Errors, vars
        <3> QED
            BY <1>2, <2>2, <2>4, <3>1, <3>2 DEF ClientStep
    <2> QED
        BY <2>3, <2>4
<1>3. ASSUME NEW v \in Requests, Arrive(v) PROVE Settled(w)' /\ Closed(w)'
    <2>1. CASE v = w
        <3>1. Begins(w) /\ cli[w] = "stream" /\ cli'[w] = "stream"
            BY <1>3, <2>1, ArriveLife DEF Arrive
        <3> QED
            BY <1>1, <3>1 DEF Begins, Settled, Closed, Early, Errors
    <2>2. CASE v # w
        BY <1>1, <1>3, <2>2, ArriveLife, LifeVerdict DEF Arrive
    <2> QED
        BY <2>1, <2>2
<1>4. CASE ServiceStep /\ UNCHANGED cli
    BY <1>1, <1>4, HandleLife, CronLife, LifeVerdict DEF ServiceStep
<1>5. CASE UNCHANGED clientVars
    BY <1>1, <1>5 DEF clientVars, vars, Settled, Closed
<1> QED
    BY <1>2, <1>3, <1>4, <1>5 DEF ClientNext

(* The exit code of a client that reads to the end is about its own run,   *)
(* for any number of clients whose runs and logs overlap in any way,       *)
(* except where the line that tells of an error was torn.                  *)
THEOREM OwnVerdict == ClientSpec => []VerdictIsOwn
<1>1. VerdictInv => VerdictIsOwn
    BY DEF VerdictInv, Closed, VerdictIsOwn
<1> QED
    BY <1>1, InitVerdict, NextVerdict, ClientTypes, PTL DEF ClientSpec

-----------------------------------------------------------------------------
(* A runner that is alone: what the globals are, state by state.           *)

Clean ==
    /\ output = <<>> /\ flush = None /\ flushFunc = None
    /\ \A w \in Requests : read[w] = None

Redirected(w) ==
    /\ output = IF pc[w] = "redirect" THEN <<>> ELSE <<w>>
    /\ flush = IF pc[w] \in {"redirect", "setflush", "clear", "reset2", "reread", "refunc", "restore"}
               THEN None ELSE w
    /\ flushFunc = IF pc[w] \in {"redirect", "setflush", "readflush", "setfunc", "restore"} THEN None
                   ELSE IF pc[w] \in {"reset2", "reread", "refunc"} THEN Nil ELSE w
    /\ read[w] = IF pc[w] = "setfunc" THEN w ELSE None
    /\ \A v \in Requests : v # w => read[v] = None
    /\ pc[w] = "restic" => captured[w] = w

Busy(p) == pc[p] \notin Idle

CleanInv ==
    ~met =>
        /\ \A p, q \in Runners : Busy(p) /\ Busy(q) => p = q
        /\ \A w \in Requests : orig[w] = <<>>
        /\ (\A w \in Requests : ~Busy(w)) => Clean
        /\ Busy(Cron) /\ pc[Cron] = "restic" => captured[Cron] = None
        /\ \A w \in Requests : Busy(w) => Redirected(w)

LEMMA InitClean == Init => CleanInv
    BY RunnersAreApart DEF Init, CleanInv, Busy, Idle, Clean

(* A step of p that leaves met FALSE: nobody else is at work.              *)
LEMMA AloneAfter ==
    ASSUME TypeOK, CleanInv, NEW p \in Runners, NEW s, MoveTo(p, s), ~met',
           Busy(p) \/ s \notin Idle
    PROVE  /\ ~met /\ pc'[p] = s
           /\ \A q \in Runners : q # p => ~Busy(q) /\ pc'[q] = pc[q]
<1>1. ~met /\ pc'[p] = s /\ \A q \in Runners : q # p => pc'[q] = pc[q]
    BY DEF MoveTo, TypeOK
<1>2. CASE s \notin Idle
    <2>1. Inside \ {p} = {}
        BY <1>2 DEF MoveTo
    <2>2. \A q \in Runners : q # p => pc[q] \in Idle
        BY <2>1 DEF Inside
    <2> QED
        BY <1>1, <2>2 DEF Busy
<1>3. CASE Busy(p)
    BY <1>1, <1>3 DEF CleanInv
<1> QED
    BY <1>1, <1>2, <1>3

LEMMA RequestClean ==
    ASSUME TypeOK, CleanInv, NEW w \in Requests, NEW s, MoveTo(w, s),
           Busy(w) \/ s \notin Idle,
           ~met' => /\ \A v \in Requests : orig'[v] = <<>>
                    /\ IF s \in Idle THEN Clean' ELSE Redirected(w)'
    PROVE  CleanInv'
<1> SUFFICES ASSUME ~met' PROVE CleanInv'
    BY DEF CleanInv
<1>1. /\ pc'[w] = s
      /\ \A q \in Runners : q # w => pc'[q] \in Idle
    BY AloneAfter, RunnersAreApart DEF Busy
<1> QED
    BY <1>1, RunnersAreApart DEF CleanInv, Busy

LEMMA RestartClean == TypeOK /\ Restart => CleanInv'
<1> SUFFICES ASSUME TypeOK, Restart PROVE CleanInv'
    OBVIOUS
<1>1. \A p \in Runners : pc'[p] \in Idle
    BY RunnersAreApart DEF Restart, Inside, Idle
<1>2. Clean' /\ \A w \in Requests : orig'[w] = <<>>
    BY DEF Restart, Clean
<1> QED
    BY <1>1, <1>2, RunnersAreApart DEF CleanInv, Busy

LEMMA RequestRunClean ==
    ASSUME TypeOK, CleanInv, NEW w \in Requests, Run(w) \/ Panic(w)
    PROVE  CleanInv'
<1> USE RunnersAreApart
<1>1. Busy(w) /\ UNCHANGED <<globals, orig, read>>
    BY DEF Run, Skip, Reject, Finish, Return, Lock, StartRestic, Panic, globals, locals,
       Busy, Idle
<1>2. PICK s \in {"running", "restic", "verdict", "reset"} : MoveTo(w, s)
    BY DEF Run, Skip, Reject, Finish, Return, Lock, StartRestic, Panic
<1>3. /\ pc[w] \in {"call", "running", "restic"}
      /\ s = "restic" => captured'[w] = flushFunc
    <2>1. CASE Run(w)
        BY <1>2, <2>1 DEF Run, Skip, Reject, Finish, Return, Lock, StartRestic, MoveTo, TypeOK
    <2>2. CASE Panic(w)
        BY <1>2, <2>2 DEF Panic, MoveTo, TypeOK
    <2> QED
        BY <2>1, <2>2
<1>4. ASSUME ~met' PROVE (\A v \in Requests : orig'[v] = <<>>) /\ Redirected(w)'
    <2>1. /\ ~met /\ pc'[w] = s
        BY <1>1, <1>2, <1>4, AloneAfter
    <2>2. Redirected(w) /\ \A v \in Requests : orig[v] = <<>>
        BY <1>1, <2>1 DEF CleanInv
    <2> QED
        BY <1>1, <1>3, <2>1, <2>2 DEF Redirected, globals
<1> QED
    BY <1>1, <1>2, <1>4, RequestClean DEF Idle

LEMMA CronRunClean ==
    ASSUME TypeOK, CleanInv, CronBegins \/ Run(Cron)
    PROVE  CleanInv'
<1> USE RunnersAreApart
<1> SUFFICES ASSUME ~met' PROVE CleanInv'
    BY DEF CleanInv
<1>1. UNCHANGED <<globals, orig, read>>
    BY DEF CronBegins, Run, Skip, Reject, Finish, Return, Lock, StartRestic, globals, locals
<1>2. PICK s \in {"call", "idle", "running", "restic"} : MoveTo(Cron, s)
    BY DEF CronBegins, Run, Skip, Reject, Finish, Return, Lock, StartRestic
<1>3. /\ Busy(Cron) \/ s \notin Idle
      /\ s = "restic" => captured'[Cron] = flushFunc
    <2>1. CASE Run(Cron)
        BY <1>2, <2>1 DEF Run, Skip, Reject, Finish, Return, Lock, StartRestic, MoveTo, TypeOK,
           Busy, Idle
    <2>2. CASE CronBegins
        BY <1>2, <2>2 DEF CronBegins, MoveTo, TypeOK, Idle
    <2> QED
        BY <2>1, <2>2
<1>4. /\ ~met /\ pc'[Cron] = s
      /\ \A q \in Runners : q # Cron => ~Busy(q) /\ pc'[q] = pc[q]
    BY <1>2, <1>3, AloneAfter
<1>5. Clean /\ \A v \in Requests : orig[v] = <<>>
    BY <1>4 DEF CleanInv
<1>6. Clean'
    BY <1>1, <1>5 DEF Clean, globals
<1> QED
    BY <1>1, <1>3, <1>4, <1>5, <1>6 DEF CleanInv, Busy, Clean

LEMMA NextClean == TypeOK /\ CleanInv /\ [Next]_vars => CleanInv'
<1> SUFFICES ASSUME TypeOK, CleanInv, [Next]_vars PROVE CleanInv'
    OBVIOUS
<1> USE RunnersAreApart
(* The steps of a request inside runBackup *)
<1> DEFINE Step(w, s) == /\ MoveTo(w, s) /\ Busy(w)
                         /\ (~met' => /\ ~met /\ pc'[w] = s /\ Redirected(w)
                                     /\ \A v \in Requests : orig[v] = <<>>)
<1>1. ASSUME NEW w \in Requests, NEW s, MoveTo(w, s), Busy(w) PROVE Step(w, s)
    BY <1>1, AloneAfter DEF CleanInv
<1>2. ASSUME NEW w \in Requests, TurnAway(w) PROVE CleanInv'
    <2>1. \A p \in Runners : pc'[p] \in Idle <=> pc[p] \in Idle
        BY <1>2 DEF TurnAway, MoveTo, TypeOK, Idle
    <2>2. \A p \in Runners : pc[p] \notin Idle => pc'[p] = pc[p]
        BY <1>2 DEF TurnAway, MoveTo, TypeOK, Idle
    <2>3. UNCHANGED <<output, flush, flushFunc, orig, read, captured>> /\ (met => met')
        BY <1>2 DEF TurnAway, MoveTo, globals, locals
    <2> QED
        BY <2>1, <2>2, <2>3 DEF CleanInv, Busy, Clean, Redirected
<1>3. ASSUME NEW w \in Requests, ReadOutput(w) PROVE CleanInv'
    <2>1. MoveTo(w, "redirect") /\ pc[w] = "new"
        BY <1>3 DEF ReadOutput
    <2>2. ASSUME ~met' PROVE (\A v \in Requests : orig'[v] = <<>>) /\ Redirected(w)'
        <3>1. ~met /\ pc'[w] = "redirect" /\ \A q \in Runners : q # w => ~Busy(q)
            BY <2>1, <2>2, AloneAfter DEF Idle
        <3>2. Clean /\ \A v \in Requests : orig[v] = <<>>
            BY <2>1, <3>1 DEF CleanInv, Busy, Idle
        <3> QED
            BY <1>3, <3>1, <3>2 DEF ReadOutput, globals, Clean, Redirected, TypeOK
    <2> QED
        BY <2>1, <2>2, RequestClean DEF Idle
<1>4. ASSUME NEW w \in Requests, Redirect(w) PROVE CleanInv'
    <2>1. Step(w, "setflush")
        BY <1>1, <1>4 DEF Redirect, Busy, Idle
    <2>2. ~met' => (\A v \in Requests : orig'[v] = <<>>) /\ Redirected(w)'
        <3>1. Append(<<>>, w) = <<w>>
            OBVIOUS
        <3> QED
            BY <1>4, <2>1, <3>1 DEF Redirect, Redirected, locals
    <2> QED
        BY <2>1, <2>2, RequestClean DEF Idle
<1>5. ASSUME NEW w \in Requests, SetFlush(w) PROVE CleanInv'
    <2>1. Step(w, "readflush")
        BY <1>1, <1>5 DEF SetFlush, Busy, Idle
    <2>2. ~met' => (\A v \in Requests : orig'[v] = <<>>) /\ Redirected(w)'
        BY <1>5, <2>1 DEF SetFlush, Redirected, locals
    <2> QED
        BY <2>1, <2>2, RequestClean DEF Idle
<1>6. ASSUME NEW w \in Requests, NEW s, NEW t,
             <<s, t>> \in {<<"readflush", "setfunc">>, <<"reread", "refunc">>}, ReadFlush(w, s, t)
      PROVE  CleanInv'
    <2>1. Step(w, t)
        BY <1>1, <1>6 DEF ReadFlush, Busy, Idle
    <2>2. ~met' => (\A v \in Requests : orig'[v] = <<>>) /\ Redirected(w)'
        BY <1>6, <2>1 DEF ReadFlush, Redirected, globals, TypeOK
    <2> QED
        BY <1>6, <2>1, <2>2, RequestClean DEF Idle
<1>7. ASSUME NEW w \in Requests, NEW s, NEW t,
             <<s, t>> \in {<<"setfunc", "call">>, <<"refunc", "restore">>}, SetFlushFunc(w, s, t)
      PROVE  CleanInv'
    <2>1. Step(w, t)
        BY <1>1, <1>7 DEF SetFlushFunc, Busy, Idle
    <2>2. ~met' => (\A v \in Requests : orig'[v] = <<>>) /\ Redirected(w)'
        BY <1>7, <2>1 DEF SetFlushFunc, Redirected, TypeOK
    <2> QED
        BY <1>7, <2>1, <2>2, RequestClean DEF Idle
<1>8. ASSUME NEW w \in Requests, WriteVerdict(w) PROVE CleanInv'
    <2>1. Step(w, "reset")
        BY <1>1, <1>8 DEF WriteVerdict, Busy, Idle
    <2>2. ~met' => (\A v \in Requests : orig'[v] = <<>>) /\ Redirected(w)'
        BY <1>8, <2>1 DEF WriteVerdict, Redirected, globals, locals
    <2> QED
        BY <2>1, <2>2, RequestClean DEF Idle
<1>9. ASSUME NEW w \in Requests, NEW s, NEW t,
             <<s, t>> \in {<<"reset", "clear">>, <<"reset2", "reread">>}, ResetFlush(w, s, t)
      PROVE  CleanInv'
    <2>1. Step(w, t)
        BY <1>1, <1>9 DEF ResetFlush, Busy, Idle
    <2>2. ~met' => (\A v \in Requests : orig'[v] = <<>>) /\ Redirected(w)'
        BY <1>9, <2>1 DEF ResetFlush, Redirected, locals
    <2> QED
        BY <1>9, <2>1, <2>2, RequestClean DEF Idle
<1>10. ASSUME NEW w \in Requests, ClearFlushFunc(w) PROVE CleanInv'
    <2>1. Step(w, "reset2")
        BY <1>1, <1>10 DEF ClearFlushFunc, Busy, Idle
    <2>2. ~met' => (\A v \in Requests : orig'[v] = <<>>) /\ Redirected(w)'
        BY <1>10, <2>1 DEF ClearFlushFunc, Redirected, locals
    <2> QED
        BY <2>1, <2>2, RequestClean DEF Idle
<1>11. ASSUME NEW w \in Requests, RestoreOutput(w) PROVE CleanInv'
    <2>1. Step(w, "ended")
        BY <1>1, <1>11 DEF RestoreOutput, Busy, Idle
    <2>2. ~met' => (\A v \in Requests : orig'[v] = <<>>) /\ Clean'
        BY <1>11, <2>1 DEF RestoreOutput, Redirected, Clean, TypeOK
    <2> QED
        BY <2>1, <2>2, RequestClean DEF Idle
<1>12. ASSUME NEW w \in Requests, Handle(w) PROVE CleanInv'
    BY <1>12, <1>4, <1>5, <1>6, <1>7, <1>8, <1>9, <1>10, <1>11, RequestRunClean
       DEF Handle, Prepare, Deferred
<1>13. CASE UNCHANGED vars
    BY <1>13 DEF vars, CleanInv, Busy, Clean, Redirected
<1> QED
    BY <1>2, <1>3, <1>12, <1>13, CronRunClean, RestartClean DEF Next

(* As long as no two runners meet, log and flushes of a run go where they  *)
(* belong, and afterwards everything is as it was.                         *)
THEOREM Alone == ClientSpec => []AloneIsClean
<1>1. ASSUME TypeOK, CleanInv, ~met, Inside = {}
      PROVE  output = <<>> /\ flush = None /\ flushFunc = None
    BY <1>1, RunnersAreApart DEF CleanInv, Clean, Inside, Busy
<1>2. ASSUME TypeOK, CleanInv, ~met, NEW w \in Requests, w \in Locked
      PROVE  output = <<w>> /\ flush = w /\ (pc[w] = "restic" => captured[w] = w)
    BY <1>2, RunnersAreApart DEF CleanInv, Locked, Redirected, Busy, Idle
<1>3. ASSUME TypeOK, CleanInv, ~met, Cron \in Locked
      PROVE  output = <<>> /\ flush = None /\ (pc[Cron] = "restic" => captured[Cron] = None)
    <2>1. Busy(Cron)
        BY <1>3 DEF Locked, Busy, Idle
    <2> QED
        BY <1>3, <2>1, RunnersAreApart DEF CleanInv, Clean
<1>4. TypeOK /\ CleanInv => AloneIsClean
    BY <1>1, <1>2, <1>3, RunnersAreApart DEF AloneIsClean, Locked
<1> QED
    BY <1>4, InitTypes, NextTypes, InitClean, NextClean, ClientImplements, PTL DEF Spec
=============================================================================
