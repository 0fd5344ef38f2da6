----------------------------- MODULE Maintenance -----------------------------
(***************************************************************************)
(* The switch that says whether backups run, and the maintenance windows   *)
(* that turn it off for a while: the handler of /api/mcs-backup/... in     *)
(* cmd/mcs-backup/cmd_serve.go with the goroutine it leaves behind for     *)
(* every window, and the unbuffered channel cancelAutoEnable by which a    *)
(* newer window calls off an older one.                                    *)
(*                                                                         *)
(* Abstracted: durations that do not parse or are zero only get an error   *)
(* message as their answer and are left out, as are status requests,       *)
(* requests that fail to authenticate, and negative durations, which the   *)
(* command line never sends.                                               *)
(***************************************************************************)
EXTENDS Integers

CONSTANTS
    Windows,        \* the goroutines that may serve windows at the same time
    Durations,      \* durations that may be asked for, in clock ticks
    TicksPerSecond, \* resolution of the clock
    MaxTime         \* bound on the clock

ASSUME DurationAssumption == Durations \subseteq Nat \ {0}
ASSUME ClockAssumption == TicksPerSecond \in Nat \ {0} /\ MaxTime \in Nat

VARIABLES
    now,       \* time.Now(), in ticks
    enabled,   \* backupEnabled
    win,       \* win[w]: where handler and goroutine of a window stand
    enableAt,  \* enableAt[w]: the instant promised in the answer
    (* what the properties remember *)
    offBy,     \* the request that last turned backups off, "none" when on
    until,     \* end of the newest window, 0 when none is in force
    raced      \* the set-up of a window met another window's set-up or end

vars == <<now, enabled, win, enableAt, offBy, until, raced>>

(* "send": backups are off, the older goroutine is about to be called off; *)
(* "starting": the goroutine exists; "waiting": it has reached its select; *)
(* "fired": its timer has won.                                             *)
States == {"free", "send", "starting", "waiting", "fired"}
Live   == {"starting", "waiting", "fired"}

(* Mutation: the truncation is forgotten and rounds up. *)
TruncateMut(t) == ((t \div TicksPerSecond) + 1) * TicksPerSecond

(* Time.Truncate(time.Second) *)
Truncate(t) == (t \div TicksPerSecond) * TicksPerSecond

MoveTo(w, s) == win' = [win EXCEPT ![w] = s]

-----------------------------------------------------------------------------

Init ==
    /\ now = 0
    /\ enabled = TRUE
    /\ win = [w \in Windows |-> "free"]
    /\ enableAt = [w \in Windows |-> 0]
    /\ offBy = "none"
    /\ until = 0
    /\ raced = FALSE

(* POST .../maintenance/<d>, up to the select: nothing but the end of      *)
(* another window is meant to turn backups on again.                       *)
RequestMaintenance(w, d) ==
    /\ win[w] = "free"
    /\ now + d <= MaxTime
    /\ enabled' = FALSE
    /\ enableAt' = [enableAt EXCEPT ![w] = Truncate(now + d)]
    /\ MoveTo(w, "send")
    /\ offBy' = "maintenance"
    /\ until' = Truncate(now + d)
    /\ raced' = (raced \/ \E v \in Windows : win[v] \in {"send", "starting", "fired"})
    /\ UNCHANGED now

(* Mutation: a request that calls off a window starts none of its own. *)
CancelBothMut(w) ==
    /\ win[w] = "send"
    /\ IF \E v \in Windows : win[v] = "waiting"
       THEN \E v \in Windows : /\ win[v] = "waiting"
                               /\ win' = [win EXCEPT ![v] = "free", ![w] = "free"]
       ELSE MoveTo(w, "starting")
    /\ UNCHANGED <<now, enabled, enableAt, offBy, until, raced>>

(* Mutation: a goroutine that is called off does not return. *)
CancelFallThroughMut(w) ==
    /\ win[w] = "send"
    /\ IF \E v \in Windows : win[v] = "waiting"
       THEN \E v \in Windows : /\ win[v] = "waiting"
                               /\ win' = [win EXCEPT ![v] = "fired", ![w] = "starting"]
       ELSE MoveTo(w, "starting")
    /\ UNCHANGED <<now, enabled, enableAt, offBy, until, raced>>

(* The non-blocking send on cancelAutoEnable reaches one goroutine that    *)
(* stands in its select, if there is any; then the new goroutine starts.   *)
CancelPrevious(w) ==
    /\ win[w] = "send"
    /\ IF \E v \in Windows : win[v] = "waiting"
       THEN \E v \in Windows : /\ win[v] = "waiting"
                               /\ win' = [win EXCEPT ![v] = "free", ![w] = "starting"]
       ELSE MoveTo(w, "starting")
    /\ UNCHANGED <<now, enabled, enableAt, offBy, until, raced>>

ReachSelect(w) ==
    /\ win[w] = "starting"
    /\ MoveTo(w, "waiting")
    /\ UNCHANGED <<now, enabled, enableAt, offBy, until, raced>>

(* <-time.After(time.Until(enableAt)) *)
Fire(w) ==
    /\ win[w] = "waiting"
    /\ now >= enableAt[w]
    /\ MoveTo(w, "fired")
    /\ raced' = (raced \/ \E v \in Windows : win[v] = "send")
    /\ UNCHANGED <<now, enabled, enableAt, offBy, until>>

Reenable(w) ==
    /\ win[w] = "fired"
    /\ enabled' = TRUE
    /\ MoveTo(w, "free")
    /\ offBy' = "none"
    /\ raced' = (raced /\ \E v \in Windows \ {w} : win[v] # "free")
    /\ UNCHANGED <<now, enableAt, until>>

(* POST .../enable: the operator takes back any window. *)
Enable ==
    /\ enabled' = TRUE
    /\ offBy' = "none"
    /\ until' = 0
    /\ UNCHANGED <<now, win, enableAt, raced>>

(* POST .../disable *)
Disable ==
    /\ enabled' = FALSE
    /\ offBy' = "disable"
    /\ UNCHANGED <<now, win, enableAt, until, raced>>

(* The process is started again: backups are on. *)
Restart ==
    /\ enabled' = TRUE
    /\ win' = [w \in Windows |-> "free"]
    /\ offBy' = "none"
    /\ until' = 0
    /\ raced' = FALSE
    /\ UNCHANGED <<now, enableAt>>

Tick ==
    /\ now < MaxTime
    /\ now' = now + 1
    /\ UNCHANGED <<enabled, win, enableAt, offBy, until, raced>>

WindowStep(w) == CancelPrevious(w) \/ ReachSelect(w) \/ Fire(w) \/ Reenable(w)

Next ==
    \/ \E w \in Windows, d \in Durations : RequestMaintenance(w, d)
    \/ \E w \in Windows : WindowStep(w)
    \/ Enable \/ Disable \/ Restart
    \/ Tick

Spec == Init /\ [][Next]_vars

(* Time goes on, and the goroutines are scheduled. *)
FairSpec == Spec /\ WF_vars(Tick) /\ \A w \in Windows : WF_vars(WindowStep(w))

-----------------------------------------------------------------------------
(* Properties *)

TypeOK ==
    /\ now \in 0 .. MaxTime
    /\ enabled \in BOOLEAN
    /\ win \in [Windows -> States]
    /\ enableAt \in [Windows -> 0 .. MaxTime]
    /\ offBy \in {"none", "disable", "maintenance"}
    /\ until \in 0 .. MaxTime
    /\ raced \in BOOLEAN

(* While a window keeps backups off, somebody is left who will turn them   *)
(* on again, however many requests race with each other and with the ends  *)
(* of their windows: no cancellation cancels the last goroutine.           *)
NoLostReactivation ==
    ~enabled /\ offBy = "maintenance" => \E w \in Windows : win[w] # "free"

(* Windows that were asked for one after the other leave a single          *)
(* goroutine behind.                                                       *)
OneTimerUnlessRaced ==
    ~raced => \A v, w \in Windows : win[v] \in Live /\ win[w] \in Live => v = w

(* No goroutine turns backups on before the end of the newest window, as   *)
(* long as no two requests, and no request and the end of a window, meet.  *)
NoEarlyReactivation ==
    [][\A w \in Windows : Reenable(w) /\ ~raced => now >= until]_vars

(* "After the specified time, backup is automatically reactivated"         *)
(* (README.md): a window never ends in backups staying off.                *)
AutoReactivated ==
    ~enabled /\ offBy = "maintenance" ~> enabled \/ offBy = "disable"

(* "disable backups" (cmd_backup.go:22) holds until they are enabled.  It  *)
(* does not: the goroutine of an older window turns them on again.         *)
DisableSticks == [][\A w \in Windows : Reenable(w) => offBy # "disable"]_vars

(* "`--maintenance 1h` disables the backup for 1 hour" (README.md), for    *)
(* requests at any time.  It fails when the new window's send finds the    *)
(* old goroutine before or behind its select.                              *)
WindowHonoured == [][\A w \in Windows : Reenable(w) => now >= until]_vars
=============================================================================
