-------------------------- MODULE MaintenanceProofs --------------------------
(***************************************************************************)
(* Proofs about Maintenance, for every number of windows and every set of  *)
(* durations.                                                              *)
(***************************************************************************)
EXTENDS Maintenance, TLAPS

-----------------------------------------------------------------------------
(* Types *)

(* The promised instant is rounded down, by less than a second. *)
LEMMA TruncateProperties ==
    ASSUME NEW t \in Nat
    PROVE  Truncate(t) \in 0 .. t /\ t - Truncate(t) < TicksPerSecond
<1> DEFINE k == TicksPerSecond
<1>1. k \in Nat \ {0}
    BY ClockAssumption
<1>2. /\ t \div k \in Nat
      /\ t % k \in 0 .. (k - 1)
      /\ t = k * (t \div k) + (t % k)
    BY <1>1
<1>3. k * (t \div k) = (t \div k) * k
    BY <1>1, <1>2
<1>4. (t \div k) * k \in Nat
    BY <1>1, <1>2
<1>5. t = Truncate(t) + (t % k) /\ Truncate(t) \in Nat
    BY <1>2, <1>3, <1>4 DEF Truncate
<1> HIDE DEF k
<1>6. Truncate(t) \in 0 .. t /\ t - Truncate(t) < k
    BY <1>1, <1>2, <1>5
<1> QED
    BY <1>6 DEF k

LEMMA ZeroIsAnInstant == 0 \in 0 .. MaxTime
    BY ClockAssumption

LEMMA InitTypes == Init => TypeOK
<1> SUFFICES ASSUME Init PROVE TypeOK
    OBVIOUS
<1>1. /\ now \in 0 .. MaxTime /\ until \in 0 .. MaxTime
      /\ enableAt \in [Windows -> 0 .. MaxTime]
    BY ZeroIsAnInstant, Zenon DEF Init
<1>2. /\ enabled \in BOOLEAN /\ raced \in BOOLEAN
      /\ offBy \in {"none", "disable", "maintenance"}
    BY DEF Init
<1>3. win \in [Windows -> States]
    BY DEF Init, States
<1> QED
    BY <1>1, <1>2, <1>3 DEF TypeOK

LEMMA NextTypes == TypeOK /\ [Next]_vars => TypeOK'
<1> SUFFICES ASSUME TypeOK, [Next]_vars PROVE TypeOK'
    OBVIOUS
<1> USE DEF TypeOK, States, MoveTo
<1>1. ASSUME NEW w \in Windows, NEW d \in Durations, RequestMaintenance(w, d)
      PROVE  TypeOK'
    <2>1. now + d \in Nat /\ now + d <= MaxTime
        BY <1>1, DurationAssumption, ClockAssumption DEF RequestMaintenance
    <2>2. Truncate(now + d) \in 0 .. MaxTime
        BY <2>1, TruncateProperties, ClockAssumption
    <2> QED
        BY <1>1, <2>2 DEF RequestMaintenance
<1>2. ASSUME NEW w \in Windows, WindowStep(w) PROVE TypeOK'
    BY <1>2 DEF WindowStep, CancelPrevious, ReachSelect, Fire, Reenable
<1>3. CASE Enable
    BY <1>3, ClockAssumption DEF Enable
<1>4. CASE Disable
    BY <1>4 DEF Disable
<1>5. CASE Restart
    <2>1. until' \in 0 .. MaxTime
        BY <1>5, ZeroIsAnInstant, Zenon DEF Restart
    <2>2. win' \in [Windows -> States]
        BY <1>5 DEF Restart
    <2> QED
        BY <1>5, <2>1, <2>2 DEF Restart
<1>6. CASE Tick
    BY <1>6, ClockAssumption DEF Tick
<1>7. CASE UNCHANGED vars
    BY <1>7 DEF vars
<1> QED
    BY <1>1, <1>2, <1>3, <1>4, <1>5, <1>6, <1>7 DEF Next

(* Every variable keeps its type; no promised instant lies beyond the      *)
(* duration that was asked for.                                            *)
THEOREM TypeCorrect == Spec => []TypeOK
    BY InitTypes, NextTypes, PTL DEF Spec

-----------------------------------------------------------------------------
(* Somebody is left to turn backups on *)

LEMMA NextNoLost == TypeOK /\ NoLostReactivation /\ [Next]_vars => NoLostReactivation'
<1> SUFFICES ASSUME TypeOK, NoLostReactivation, [Next]_vars PROVE NoLostReactivation'
    OBVIOUS
<1> USE DEF TypeOK, NoLostReactivation, MoveTo
<1>1. ASSUME NEW w \in Windows, NEW d \in Durations, RequestMaintenance(w, d)
      PROVE  NoLostReactivation'
    BY <1>1 DEF RequestMaintenance
<1>2. ASSUME NEW w \in Windows, CancelPrevious(w) PROVE NoLostReactivation'
    <2>1. win'[w] = "starting"
        BY <1>2 DEF CancelPrevious
    <2> QED
        BY <2>1
<1>3. ASSUME NEW w \in Windows, ReachSelect(w) \/ Fire(w) PROVE NoLostReactivation'
    BY <1>3 DEF ReachSelect, Fire
<1>4. ASSUME NEW w \in Windows, Reenable(w) PROVE NoLostReactivation'
    BY <1>4 DEF Reenable
<1> QED
    BY <1>1, <1>2, <1>3, <1>4
       DEF Next, WindowStep, Enable, Disable, Restart, Tick, vars

(* However requests and the ends of windows race, a maintenance window     *)
(* that keeps backups off has a goroutine left that will turn them on.     *)
THEOREM NoLost == Spec => []NoLostReactivation
<1>1. Init => NoLostReactivation
    BY DEF Init, NoLostReactivation
<1> QED
    BY <1>1, InitTypes, NextTypes, NextNoLost, PTL DEF Spec

-----------------------------------------------------------------------------
(* Windows that do not race are honoured *)

Ready(w) == win[w] \in {"free", "waiting"}

(* Without a race at most one handler is about to call off an older window *)
(* and then that one waits in its select; otherwise the only goroutine is  *)
(* the newest window's, whose promise is the one in force.                 *)
OrderInv ==
    /\ \A w \in Windows : win[w] = "fired" => now >= enableAt[w]
    /\ ~raced =>
          /\ \A v, w \in Windows : win[v] \in Live /\ win[w] \in Live => v = w
          /\ \A v, w \in Windows : win[w] = "send" /\ v # w => Ready(v)
          /\ \A w \in Windows : win[w] = "send" => until <= enableAt[w]
          /\ \A w \in Windows :
                win[w] \in Live /\ (\A v \in Windows : win[v] # "send")
                    => until <= enableAt[w]

LEMMA InitOrder == Init => OrderInv
    BY DEF Init, OrderInv, Live, Ready

LEMMA NextOrder == TypeOK /\ OrderInv /\ [Next]_vars => OrderInv'
<1> SUFFICES ASSUME TypeOK, OrderInv, [Next]_vars PROVE OrderInv'
    OBVIOUS
<1> USE DEF TypeOK, OrderInv, Live, Ready, States, MoveTo
<1>1. ASSUME NEW w \in Windows, NEW d \in Durations, RequestMaintenance(w, d)
      PROVE  OrderInv'
    <2>1. TypeOK'
        BY NextTypes, Zenon
    <2>2. /\ until' = Truncate(now + d)
          /\ enableAt' = [enableAt EXCEPT ![w] = Truncate(now + d)]
          /\ win' = [win EXCEPT ![w] = "send"]
          /\ now' = now
        BY <1>1, Zenon DEF RequestMaintenance
    <2>3. ~raced' => ~raced /\ \A v \in Windows : Ready(v)
        BY <1>1 DEF RequestMaintenance
    <2>4. /\ enableAt' = [enableAt EXCEPT ![w] = until']
          /\ win' = [win EXCEPT ![w] = "send"]
          /\ now' = now
          /\ until' \in Int
          /\ ~raced' => ~raced /\ \A v \in Windows : Ready(v)
        BY <2>1, <2>2, <2>3
    <2>5. \A v \in Windows : v # w => /\ win'[v] = win[v]
                                      /\ enableAt'[v] = enableAt[v]
        BY <2>4
    <2>6. win'[w] = "send" /\ enableAt'[w] = until'
        BY <2>4
    <2> QED
        BY <2>4, <2>5, <2>6
<1>2. ASSUME NEW w \in Windows, CancelPrevious(w) PROVE OrderInv'
    <2>1. /\ win[w] = "send"
          /\ UNCHANGED <<now, enableAt, until, raced>>
        BY <1>2 DEF CancelPrevious
    <2>2. CASE \E v \in Windows : win[v] = "waiting"
        <3>1. PICK v \in Windows : /\ win[v] = "waiting"
                                   /\ win' = [win EXCEPT ![v] = "free", ![w] = "starting"]
            BY <1>2, <2>2 DEF CancelPrevious
        <3> QED
            BY <2>1, <3>1
    <2>3. CASE ~ \E v \in Windows : win[v] = "waiting"
        <3>1. win' = [win EXCEPT ![w] = "starting"]
            BY <1>2, <2>3 DEF CancelPrevious
        <3> QED
            BY <2>1, <2>3, <3>1
    <2> QED
        BY <2>2, <2>3
<1>3. ASSUME NEW w \in Windows, ReachSelect(w) PROVE OrderInv'
    BY <1>3 DEF ReachSelect
<1>4. ASSUME NEW w \in Windows, Fire(w) PROVE OrderInv'
    BY <1>4 DEF Fire
<1>5. ASSUME NEW w \in Windows, Reenable(w) PROVE OrderInv'
    <2>1. CASE raced
        BY <1>5, <2>1 DEF Reenable
    <2>2. CASE ~raced
        BY <1>5, <2>2 DEF Reenable
    <2> QED
        BY <2>1, <2>2
<1>6. CASE Enable
    BY <1>6 DEF Enable
<1>7. CASE Disable
    BY <1>7 DEF Disable
<1>8. CASE Restart
    BY <1>8 DEF Restart
<1>9. CASE Tick
    BY <1>9, ClockAssumption DEF Tick
<1>10. CASE UNCHANGED vars
    BY <1>10 DEF vars
<1> QED
    BY <1>1, <1>2, <1>3, <1>4, <1>5, <1>6, <1>7, <1>8, <1>9, <1>10
       DEF Next, WindowStep

LEMMA OrderInvariant == Spec => [](TypeOK /\ OrderInv)
    BY InitTypes, NextTypes, InitOrder, NextOrder, PTL DEF Spec

(* Requests that do not race leave one goroutine behind. *)
THEOREM OneTimer == Spec => []OneTimerUnlessRaced
<1>1. OrderInv => OneTimerUnlessRaced
    BY DEF OrderInv, OneTimerUnlessRaced
<1> QED
    BY <1>1, OrderInvariant, PTL

(* No goroutine turns backups on before the end of the newest window,      *)
(* unless set-up and end of two windows have met.                          *)
THEOREM NotEarly == Spec => NoEarlyReactivation
<1>1. ASSUME TypeOK, OrderInv, NEW w \in Windows, Reenable(w), ~raced
      PROVE  now >= until
    <2>1. /\ win[w] = "fired"
          /\ now >= enableAt[w]
          /\ until <= enableAt[w]
        BY <1>1 DEF Reenable, OrderInv, Live, Ready
    <2> QED
        BY <1>1, <2>1, ClockAssumption DEF TypeOK
<1>2. TypeOK /\ OrderInv /\ [Next]_vars =>
          [\A w \in Windows : Reenable(w) /\ ~raced => now >= until]_vars
    BY <1>1
<1> QED
    BY <1>2, OrderInvariant, PTL DEF Spec, NoEarlyReactivation
=============================================================================
