---------------------------- MODULE HealthChecker ----------------------------
(***************************************************************************)
(* HealthChecker of src/monitoring/health_checker.py, the heartbeats it    *)
(* reads (StreamConsumer, TickDataCollector) and the ServiceHealth it      *)
(* keeps.  A unit of time is the interval between two rounds of checks (15 *)
(* seconds).  In a round the probed systems (Redis, ClickHouse, the KIS    *)
(* API) are checked concurrently and the pipeline's services one after the *)
(* other; a change of status is told by an alert, and whoever awaits its   *)
(* delivery holds up the checks behind it.  Latencies, metrics and texts   *)
(* are left out.                                                           *)
(***************************************************************************)
EXTENDS Naturals, Sequences

CONSTANTS
    Services,       \* the pipeline's services, in the order of their checks
    Probed,         \* systems that are asked directly
    BeatEvery,      \* HEARTBEAT_INTERVAL (30 s)
    FreshFor,       \* age from which a heartbeat is stale (60 s)
    DownAfter,      \* DOWN_THRESHOLD
    MaxMisses       \* bound: calls to Redis that fail

Beating == {Services[i] : i \in DOMAIN Services}
Watched == Beating \cup Probed

ASSUME HealthAssumption ==
    /\ Services \in Seq(Beating) /\ Beating \cap Probed = {}
    /\ \A i, j \in DOMAIN Services : Services[i] = Services[j] => i = j
    /\ BeatEvery \in Nat \ {0} /\ FreshFor \in Nat /\ BeatEvery < FreshFor
    /\ DownAfter \in Nat \ {0, 1} /\ MaxMisses \in Nat

VARIABLES
    working,        \* environment: systems that work; services that turn over
    silent,         \* time since each service's last heartbeat
    health,         \* health.status
    fails,          \* health.consecutive_failures, not counted past DownAfter
    todo,           \* checks that the current round has not finished
    telling,        \* checks of them that await an alert's delivery
    slow,           \* those of them that have awaited it for a unit of time
    pause,          \* whether CHECK_INTERVAL has to pass before the next round
    late,           \* history: services in whose silence a wait was too long
    misses          \* history: calls to Redis that failed

healthVars == <<working, silent, health, fails, todo, telling, slow, pause, late, misses>>

(* A round takes a unit of time for the pause and at most one for each of  *)
(* the alerts that the services one after the other send.                  *)
RoundTime == 1 + Len(Services)
DetectionTime == FreshFor + DownAfter * RoundTime

HealthTypeOK ==
    /\ working \subseteq Watched
    /\ silent \in [Beating -> 0..DetectionTime]
    /\ health \in [Watched -> {"HEALTHY", "DEGRADED", "DOWN"}]
    /\ fails \in [Watched -> 0..DownAfter]
    /\ todo \subseteq Watched /\ telling \subseteq todo /\ slow \subseteq telling
    /\ pause \in BOOLEAN /\ late \subseteq Beating /\ misses \in 0..MaxMisses

(* The services have just started, and published a heartbeat at once.      *)
HealthInit ==
    /\ working = Watched
    /\ silent = [s \in Beating |-> 0]
    /\ health = [s \in Watched |-> "HEALTHY"]
    /\ fails = [s \in Watched |-> 0]
    /\ todo = {} /\ telling = {} /\ slow = {} /\ pause = FALSE
    /\ late = {} /\ misses = 0

-----------------------------------------------------------------------------
(* Heartbeats                                                              *)

(* _publish_heartbeat(), called whenever a consumer's loop turns over, and *)
(* by the tick collector on every tick.                                    *)
PublishHeartbeat(s) ==
    /\ s \in working /\ silent[s] >= BeatEvery
    /\ silent' = [silent EXCEPT ![s] = 0] /\ late' = late \ {s}
    /\ UNCHANGED <<working, health, fails, todo, telling, slow, pause, misses>>

(* A service dies, hangs, or sees no ticks; a probed system breaks down.   *)
StopsWorking(s) ==
    /\ s \in working /\ working' = working \ {s}
    /\ UNCHANGED <<silent, health, fails, todo, telling, slow, pause, late, misses>>

(* It goes on, or a new process has started, which publishes its first     *)
(* heartbeat at once.                                                      *)
WorksAgain(s) ==
    /\ s \notin working /\ working' = working \cup {s}
    /\ \/ UNCHANGED <<silent, late>>
       \/ /\ silent' = [b \in Beating |-> IF b = s THEN 0 ELSE silent[b]]
          /\ late' = late \ {s}
    /\ UNCHANGED <<health, fails, todo, telling, slow, pause, misses>>

-----------------------------------------------------------------------------
(* Checks                                                                  *)

(* check_all(): everything is checked anew.                                *)
StartRound ==
    /\ todo = {} /\ ~pause
    /\ todo' = Watched
    /\ UNCHANGED <<working, silent, health, fails, telling, slow, pause, late, misses>>

(* check_pipeline_services() has come to s; the others have no order.      *)
Turn(s) ==
    /\ s \in todo \ telling
    /\ \A i, j \in DOMAIN Services :
          (Services[j] = s /\ i < j) => Services[i] \notin todo

(* What the check finds: the key of a heartbeat that expired, a stale one  *)
(* and a Redis that does not answer are all failures.                      *)
Found(s) ==
    IF s \in Probed THEN s \in working ELSE silent[s] < FreshFor

(* The rest of the check once health.status is known.                      *)
Finish(s, newStatus) ==
    /\ health' = [health EXCEPT ![s] = newStatus]
    /\ IF newStatus # health[s]
       THEN telling' = telling \cup {s} /\ UNCHANGED <<todo, pause>>
       ELSE todo' = todo \ {s} /\ pause' = (todo = {s}) /\ UNCHANGED telling

(* _record_success()                                                       *)
RecordSuccess(s) ==
    /\ Turn(s) /\ Found(s)
    /\ fails' = [fails EXCEPT ![s] = 0]
    /\ Finish(s, "HEALTHY")
    /\ UNCHANGED <<working, silent, slow, late, misses>>

(* One failure more than the threshold.                                    *)
RecordFailureLate(s) ==
    /\ Turn(s)
    /\ \/ ~Found(s) /\ UNCHANGED misses
       \/ /\ s \in Beating /\ misses < MaxMisses /\ misses' = misses + 1
    /\ fails' = [fails EXCEPT ![s] = IF @ < DownAfter THEN @ + 1 ELSE @]
    /\ Finish(s, IF fails[s] >= DownAfter THEN "DOWN" ELSE "DEGRADED")
    /\ UNCHANGED <<working, silent, slow, late>>

(* _record_failure()                                                       *)
RecordFailure(s) ==
    /\ Turn(s)
    /\ \/ ~Found(s) /\ UNCHANGED misses
       \/ /\ s \in Beating /\ misses < MaxMisses /\ misses' = misses + 1
    /\ fails' = [fails EXCEPT ![s] = IF @ < DownAfter THEN @ + 1 ELSE @]
    /\ Finish(s, IF fails'[s] >= DownAfter THEN "DOWN" ELSE "DEGRADED")
    /\ UNCHANGED <<working, silent, slow, late>>

(* send_immediate() returns, the alert sent or to be sent again.           *)
AlertTold(s) ==
    /\ s \in telling
    /\ telling' = telling \ {s} /\ slow' = slow \ {s}
    /\ todo' = todo \ {s} /\ pause' = (todo = {s})
    /\ UNCHANGED <<working, silent, health, fails, late, misses>>

-----------------------------------------------------------------------------
(* Time passes while the loop sleeps and during a round.  A unit is enough *)
(* for the delivery of an alert and for the answers to a check, unless     *)
(* they never come: send_immediate() hangs for good once the audit buffer  *)
(* is full (alert_service.py:316-324), and redis.get() has no time-out     *)
(* (TIMEOUT_PIPELINE is not used).  A due heartbeat is not put off.  Beyond*)
(* staleness a silence with too long a wait is not measured.               *)
TimePasses ==
    /\ \A s \in Beating : s \in working => silent[s] < BeatEvery
    /\ \/ todo = {} /\ pause /\ pause' = FALSE /\ UNCHANGED <<slow, late>>
       \/ /\ todo # {} /\ slow' = telling /\ UNCHANGED pause
          /\ late' = IF slow = {} /\ ~(\E s \in todo : Turn(s)) THEN late ELSE Beating
    /\ silent' = [s \in Beating |->
                    LET most == IF s \in late' THEN FreshFor ELSE DetectionTime
                    IN  IF silent[s] < most THEN silent[s] + 1 ELSE most]
    /\ UNCHANGED <<working, health, fails, todo, telling, misses>>

Check(s) == RecordSuccess(s) \/ RecordFailure(s) \/ AlertTold(s)

HealthNext ==
    \/ \E s \in Beating : PublishHeartbeat(s)
    \/ \E s \in Watched : StopsWorking(s) \/ WorksAgain(s) \/ Check(s)
    \/ StartRound \/ TimePasses

(* The loops of what works turn over and time passes.  No check has to     *)
(* end: whether an alert is delivered or Redis answers is not up to it.    *)
HealthFairness ==
    /\ \A s \in Beating : WF_healthVars(PublishHeartbeat(s))
    /\ WF_healthVars(StartRound) /\ WF_healthVars(TimePasses)

HealthSpec == HealthInit /\ [][HealthNext]_healthVars /\ HealthFairness

-----------------------------------------------------------------------------
(* Properties                                                              *)

(* A service that has published no heartbeat for the detection time is     *)
(* known to be down, however many alerts about others the rounds had to    *)
(* deliver meanwhile, unless a delivery or an answer took more than a unit *)
(* during its silence.  One that never returns ends the detection for all: *)
(* the loop awaits it (health_checker.py:365, :384, :287) with no time-out.*)
DetectedInTime ==
    \A s \in Beating \ late : silent[s] = DetectionTime => health[s] = "DOWN"

(* If no round hangs, everything is said to be healthy in the end once it  *)
(* works for good: no failure is remembered and no recovery missed while   *)
(* an alert is awaited.  That rounds end is supposed here, as the code     *)
(* does not see to it.                                                     *)
Recognised ==
    []<>(todo = {}) /\ <>[](working = Watched) =>
        <>[](\A s \in Watched : health[s] = "HEALTHY")

(* With it, the counts and rounds of checks keep their shape: no check is  *)
(* lost or done twice in a round while alerts are awaited.                 *)
HealthSound == HealthTypeOK /\ DetectedInTime
=============================================================================
