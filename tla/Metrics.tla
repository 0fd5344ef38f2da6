------------------------------ MODULE Metrics -------------------------------
(***************************************************************************)
(* Metrics.Apply of internal/metrics/metrics.go: the gauges of a datum are *)
(* set one by one, in any order, while Prometheus scrapes them; then its   *)
(* point is sent to InfluxDB, which may fail and is not tried again.  The  *)
(* data are those of runPhase and fullBackupRun (cmd/mcs-backup/phase.go,  *)
(* backup.go) with the definitions of cmd/mcs-backup/metrics.go; the run   *)
(* has two phases here, a restic backup that succeeds or fails and the S3  *)
(* statistics of S3Stats.                                                  *)
(*                                                                         *)
(* Abstracted: durations, timeouts, error texts and the data of restic;    *)
(* labels that are the same for all metrics.                               *)
(***************************************************************************)
EXTENDS S3Stats, Sequences

CONSTANTS
    None,         \* no point has been sent
    MaxMishaps    \* bound on points that get lost and on restarts

ASSUME MishapsAssumption == MaxMishaps \in Nat

VARIABLES
    step,     \* where the run stands
    phase,    \* the variable phase of fullBackupRun
    queue,    \* what is left of the pairs given to Apply
    set,      \* the fields of the first of them whose gauges are set
    gauges,   \* gauges[s]: the gauges of a series
    points,   \* points[s]: the newest point of a series in InfluxDB
    (* what the properties remember *)
    lost,     \* series whose newest datum did not, or will not, get there
    mishaps   \* how many points got lost and how many restarts there were

runVars == <<step, phase, queue, set, gauges, points, lost, mishaps>>
metricsVars == <<s3vars, runVars>>

(* A series is a provider with the value of its label: the phases of the   *)
(* provider status, running, and s3 with the bucket.  Status has a label   *)
(* `successful` for InfluxDB only, which repeats what a field says:        *)
(* points[s] is the newest point with either of its values.                *)
StatusSeries == {"backup", "s3stats", "overall"}
Series == StatusSeries \cup {"running", "s3"}

phaseToCode == [backup |-> 2, s3stats |-> 6, overall |-> 8]

Status(p, inProgress, success) == [InProgress |-> inProgress, Successful |-> success]
Stats(c) == [Objects |-> c.objects, BucketSize |-> c.bytes]

Pair(s, datum, publish) == [series |-> s, datum |-> datum, publish |-> publish]

Empty(s) ==
    IF s \in StatusSeries THEN Status(s, 0, 0)
    ELSE IF s = "s3" THEN Stats(Zero[Top]) ELSE [PhaseRunning |-> 0]

(* The fields of a point: inprogress_id has SkipInfluxdb. *)
PointOf(datum) == [f \in DOMAIN datum \ {"InProgress"} |-> datum[f]]

MetricsInit ==
    /\ S3Init
    /\ step = "idle" /\ phase = "backup"
    /\ queue = <<>> /\ set = {}
    /\ gauges = [s \in Series |-> Empty(s)]
    /\ points = [s \in Series |-> None]
    /\ lost = {} /\ mishaps = 0

-----------------------------------------------------------------------------
(* Apply *)

SetGauge ==
    /\ queue # <<>>
    /\ LET p == Head(queue) IN
       \E f \in DOMAIN p.datum \ set :
          /\ set' = set \cup {f}
          /\ gauges' = [gauges EXCEPT ![p.series][f] = p.datum[f]]
    /\ UNCHANGED <<s3vars, step, phase, queue, points, lost, mishaps>>

(* Mutation: the fields of one pair are kept for the next. *)
PublishMut ==
    /\ queue # <<>>
    /\ LET p == Head(queue) IN
       /\ DOMAIN p.datum \subseteq set
       /\ IF p.publish THEN points' = [points EXCEPT ![p.series] = PointOf(p.datum)]
                       ELSE UNCHANGED points
    /\ queue' = Tail(queue)
    /\ UNCHANGED <<s3vars, step, phase, set, gauges, lost, mishaps>>

(* An error of WritePoint is logged. *)
Publish ==
    /\ queue # <<>>
    /\ LET p == Head(queue) IN
       /\ set = DOMAIN p.datum
       /\ \/ ~p.publish /\ UNCHANGED <<points, lost, mishaps>>
          \/ /\ p.publish
             /\ points' = [points EXCEPT ![p.series] = PointOf(p.datum)]
             /\ lost' = lost \ {p.series}
             /\ UNCHANGED mishaps
          \/ /\ p.publish /\ mishaps < MaxMishaps
             /\ lost' = lost \cup {p.series} /\ mishaps' = mishaps + 1
             /\ UNCHANGED points
    /\ queue' = Tail(queue) /\ set' = {}
    /\ UNCHANGED <<s3vars, step, phase, gauges>>

-----------------------------------------------------------------------------
(* fullBackupRun and runPhase *)

Apply(s, pairs) ==
    /\ queue = <<>>
    /\ step' = s
    /\ queue' = pairs
    /\ UNCHANGED <<set, gauges, points, lost, mishaps>>

(* Mutation: a phase is announced by phase_running alone. *)
BeginPhaseMut(p) ==
    /\ Apply("begin", <<Pair("running", [PhaseRunning |-> phaseToCode[p]], TRUE)>>)
    /\ phase' = p
    /\ UNCHANGED s3vars

BeginPhase(p) ==
    /\ Apply("begin", <<Pair(p, Status(p, 1, 0), FALSE),
                        Pair("running", [PhaseRunning |-> phaseToCode[p]], TRUE)>>)
    /\ phase' = p
    /\ UNCHANGED s3vars

BeginRun == step = "idle" /\ BeginPhase("backup")
NextPhase == step = "succeeded" /\ phase = "backup" /\ BeginPhase("s3stats")

(* The function of the phase is called. *)
Call ==
    /\ step = "begin" /\ queue = <<>>
    /\ step' = "work"
    /\ IF phase = "s3stats" THEN BeginStats ELSE UNCHANGED s3vars
    /\ UNCHANGED <<phase, queue, set, gauges, points, lost, mishaps>>

Collect == step = "work" /\ phase = "s3stats" /\ StatsStep /\ UNCHANGED runVars

(* Mutation: the error of a phase is not published. *)
PhaseFailsMut ==
    /\ step = "work" /\ (phase = "s3stats" => at = "error")
    /\ Apply("failed", <<Pair(phase, Status(phase, 0, 0), FALSE)>>)
    /\ UNCHANGED <<s3vars, phase>>

PhaseFails ==
    /\ step = "work" /\ (phase = "s3stats" => at = "error")
    /\ Apply("failed", <<Pair(phase, Status(phase, 0, 0), TRUE)>>)
    /\ UNCHANGED <<s3vars, phase>>

(* The report of restic's progress panics (ResticBackup) in a request: the *)
(* handler ends, and of the run nothing more is applied.  The gauges keep  *)
(* the announcement of the phase, which is not published.                  *)
PhasePanics ==
    /\ step = "work" /\ phase = "backup"
    /\ step' = "idle" /\ lost' = lost \cup {phase}
    /\ UNCHANGED <<s3vars, phase, queue, set, gauges, points, mishaps>>

PhaseSucceeds ==
    /\ step = "work" /\ (phase = "s3stats" => at = "done")
    /\ Apply("succeeded",
             <<Pair(phase, Status(phase, 0, phaseToCode[phase]), TRUE)>>
             \o (IF phase = "s3stats" THEN <<Pair("s3", Stats(counts[Top]), TRUE)>> ELSE <<>>))
    /\ IF phase = "s3stats" THEN TakeStats ELSE UNCHANGED s3vars
    /\ UNCHANGED phase

(* The run is over; for the two series one point each. *)
Report ==
    /\ step = "failed" \/ (step = "succeeded" /\ phase = "s3stats")
    /\ Apply("idle",
             <<Pair("running", [PhaseRunning |-> 0], TRUE),
               Pair("overall",
                    Status("overall", 0, IF step = "failed" THEN 0 ELSE phaseToCode["overall"]),
                    TRUE)>>)
    /\ UNCHANGED <<s3vars, phase>>

(* The process is started again: gauges begin anew, InfluxDB remembers. *)
Restart ==
    /\ mishaps < MaxMishaps /\ mishaps' = mishaps + 1
    /\ step' = "idle" /\ queue' = <<>> /\ set' = {}
    /\ gauges' = [s \in Series |-> Empty(s)]
    /\ lost' = Series
    /\ S3Restart
    /\ UNCHANGED <<phase, points>>

MetricsNext ==
    \/ SetGauge \/ Publish
    \/ BeginRun \/ NextPhase \/ Call \/ Collect
    \/ PhaseFails \/ PhasePanics \/ PhaseSucceeds \/ Report
    \/ Restart
    \/ BucketChanges /\ UNCHANGED runVars

MetricsSpec == MetricsInit /\ [][MetricsNext]_metricsVars

-----------------------------------------------------------------------------
(* Properties *)

(* What the gauges of a series may be. *)
DataOf(s) ==
    IF s \in StatusSeries THEN [InProgress : Nat, Successful : Nat]
    ELSE IF s = "s3" THEN [Objects : Nat, BucketSize : Nat] ELSE [PhaseRunning : Nat]

MetricsTypeOK ==
    /\ S3TypeOK
    /\ step \in {"idle", "begin", "work", "succeeded", "failed"}
    /\ phase \in {"backup", "s3stats"}
    /\ Len(queue) <= 2
    /\ \A i \in 1 .. Len(queue) :
          queue[i].series \in Series /\ queue[i].datum \in DataOf(queue[i].series)
    /\ queue = <<>> => set = {}
    /\ DOMAIN gauges = Series /\ \A s \in Series : gauges[s] \in DataOf(s)
    /\ DOMAIN points = Series
    /\ lost \subseteq Series /\ mishaps \in 0 .. MaxMishaps

Pending(s) == \E i \in 1 .. Len(queue) : queue[i].series = s

(* Whenever Prometheus scrapes: success of the phase s3stats means that    *)
(* the last collection was complete and that its numbers are in the        *)
(* gauges, or are the next to be set; until they are, the numbers beside   *)
(* the success may still be the old ones.  A new collection never runs,    *)
(* let alone fails, under the old success.                                 *)
SuccessMeansFresh ==
    gauges["s3stats"].Successful # 0 /\ ~Pending("s3stats") =>
        at = "taken" /\ (Pending("s3") \/ gauges["s3"] = Stats(counts[Top]))

(* When no run is at work, InfluxDB and Prometheus tell the same of each   *)
(* series, unless its newest point got lost, the process has been started  *)
(* since, or the last run ended in a panic before it had anything to       *)
(* publish for the phase it had announced.  In all other ways out of a run *)
(* what was set without being published is followed by what is.            *)
InfluxAgrees ==
    step = "idle" /\ queue = <<>> =>
        \A s \in Series \ lost : points[s] # None => points[s] = PointOf(gauges[s])
=============================================================================
