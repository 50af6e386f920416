----------------------------- MODULE Backpressure -----------------------------
(***************************************************************************)
(* BackpressureMonitor of src/common/backpressure.py over the consumer     *)
(* groups of one stream: the lag it reads, the throttling it advises to    *)
(* the producer of the stream, and the alerts it spaces.                   *)
(*                                                                         *)
(* The lag is the summary of XPENDING: what a group was given and has not  *)
(* acknowledged.  Each group is a query of its own, and the stream goes on *)
(* between two of them.  A query may fail, and counts as a lag of 0 then.  *)
(***************************************************************************)
EXTENDS Integers, FiniteSets

CONSTANTS
    Groups,
    WarningLag, CriticalLag, EmergencyLag,  \* LagThresholds (1000, 5000, 8000)
    AlertCooldown,  \* alert_cooldown
    MaxProduced,    \* bound: entries of the stream
    MaxAcks,        \* bound: acknowledgements
    MaxQueries,     \* bound: queries of the monitor
    LastMoment      \* bound: the clock

ASSUME BackpressureAssumption ==
    /\ IsFiniteSet(Groups)
    /\ {WarningLag, CriticalLag, EmergencyLag} \subseteq Nat \ {0}
    /\ WarningLag < CriticalLag /\ CriticalLag < EmergencyLag
    /\ AlertCooldown \in Nat \ {0} /\ {MaxProduced, MaxAcks, MaxQueries, LastMoment} \subseteq Nat

VARIABLES
    moment,         \* time.time()
    read,           \* entries given to each group
    acked,          \* entries each group acknowledged
    acks,           \* history: acknowledgements of all groups
    queries,        \* history: how often the monitor asked for a lag
    lagCache,       \* _lag_cache: pending_count, or Uncached
    lastAlert,      \* _last_alerts: the moment, or Never
    call,           \* the producer's call: its kind, the groups still to ask, the
                    \* greatest lag so far (max_lag)
    warned,         \* history: the moment and level of each alert, by group
    heard,          \* history: the groups that answered the call
    least, greatest \* history: the bounds of each group's lag during the call

callVars == <<call, heard, least, greatest>>
backpressureVars == <<moment, read, acked, acks, queries, lagCache, lastAlert, warned, callVars>>

Uncached == -1
Never == -1
NoCall == [kind |-> "none", left |-> {}, most |-> 0]
NoLag == [g \in Groups |-> 0]
Levels == {"normal", "warning", "critical", "emergency"}

PressureInit ==
    /\ moment = 0 /\ queries = 0 /\ acks = 0
    /\ read = [g \in Groups |-> 0] /\ acked = [g \in Groups |-> 0]
    /\ lagCache = [g \in Groups |-> Uncached] /\ lastAlert = [g \in Groups |-> Never]
    /\ warned = [g \in Groups |-> {}]
    /\ call = NoCall /\ heard = {} /\ least = NoLag /\ greatest = NoLag

-----------------------------------------------------------------------------
(* The stream and its consumers                                            *)

Pending(g) == read[g] - acked[g]

(* What a step makes of the bounds of the call that is being answered.     *)
Watch(g) ==
    IF call.kind = "none" THEN UNCHANGED <<least, greatest>>
    ELSE /\ least' = [least EXCEPT ![g] = IF Pending(g)' < @ THEN Pending(g)' ELSE @]
         /\ greatest' = [greatest EXCEPT ![g] = IF Pending(g)' > @ THEN Pending(g)' ELSE @]

ReadEntry(g) ==
    /\ read[g] < MaxProduced /\ read' = [read EXCEPT ![g] = @ + 1]
    /\ UNCHANGED <<acked, acks>> /\ Watch(g)
    /\ UNCHANGED <<moment, queries, lagCache, lastAlert, warned, call, heard>>
AckEntry(g) ==
    /\ acked[g] < read[g] /\ acked' = [acked EXCEPT ![g] = @ + 1]
    /\ acks < MaxAcks /\ acks' = acks + 1
    /\ UNCHANGED read /\ Watch(g)
    /\ UNCHANGED <<moment, queries, lagCache, lastAlert, warned, call, heard>>
MomentPasses ==
    /\ moment < LastMoment /\ moment' = moment + 1
    /\ UNCHANGED <<read, acked, acks, queries, lagCache, lastAlert, warned, callVars>>

-----------------------------------------------------------------------------
(* The monitor                                                             *)

Query == queries < MaxQueries /\ queries' = queries + 1

(* get_lag(), which may get no answer; the cache takes no lag of 0.        *)
LagOf(g, answered) == IF answered THEN Pending(g) ELSE 0
Cached(g, lag) == [lagCache EXCEPT ![g] = IF lag > 0 THEN lag ELSE @]

(* check_lag()                                                             *)
LevelOf(lag) ==
    IF lag >= EmergencyLag THEN "emergency"
    ELSE IF lag >= CriticalLag THEN "critical"
    ELSE IF lag >= WarningLag THEN "warning" ELSE "normal"

(* What check_all_lags() does of each group, with _send_alert(): one       *)
(* cooldown for both levels that alert, which begins before the alert is   *)
(* sent; it begins although no alert is ever sent: TelegramNotifier has no *)
(* send_alert().                                                           *)
CheckLag(g, answered) ==
    LET lag == LagOf(g, answered)
        due == /\ LevelOf(lag) \in {"critical", "emergency"}
               /\ lastAlert[g] = Never \/ moment - lastAlert[g] >= AlertCooldown
    IN  /\ Query /\ lagCache' = Cached(g, lag)
        /\ lastAlert' = [lastAlert EXCEPT ![g] = IF due THEN moment ELSE @]
        /\ warned' = [warned EXCEPT ![g] = @ \cup (IF due THEN {<<moment, LevelOf(lag)>>} ELSE {})]
        /\ UNCHANGED <<moment, read, acked, acks, callVars>>

(* should_throttle() or get_throttle_delay() begins with the groups of the *)
(* stream, or with none if it cannot get them.                             *)
AskAdvice(kind, groups) ==
    /\ call.kind = "none"
    /\ call' = [kind |-> kind, left |-> groups, most |-> 0]
    /\ heard' = {}
    /\ least' = [g \in Groups |-> Pending(g)] /\ greatest' = least'
    /\ UNCHANGED <<moment, read, acked, acks, queries, lagCache, lastAlert, warned>>

(* Both ask one group after the other, should_throttle() up to the first   *)
(* that is behind.                                                         *)
AskGroup(g, answered) ==
    LET lag == LagOf(g, answered)
    IN  /\ g \in call.left
        /\ call' = [call EXCEPT
               !.left = IF call.kind = "throttle" /\ lag >= EmergencyLag THEN {} ELSE @ \ {g},
               !.most = IF lag > @ THEN lag ELSE @]
        /\ heard' = IF answered THEN heard \cup {g} ELSE heard
        /\ Query /\ lagCache' = Cached(g, lag)
        /\ UNCHANGED <<moment, read, acked, acks, lastAlert, warned, least, greatest>>

(* The delay grows from a hundredth at the warning to the whole.           *)
ThrottleDelay(lag) ==
    IF lag < WarningLag THEN 0
    ELSE IF lag >= EmergencyLag THEN 100
    ELSE 1 + ((99 * (lag - WarningLag)) \div (EmergencyLag - WarningLag))

(* What a call that has asked its groups returns.                          *)
Throttle == call.most >= EmergencyLag
Delay == ThrottleDelay(call.most)

Advise ==
    /\ call.kind # "none" /\ call.left = {}
    /\ call' = NoCall /\ heard' = {} /\ least' = NoLag /\ greatest' = NoLag
    /\ UNCHANGED <<moment, read, acked, acks, queries, lagCache, lastAlert, warned>>

PressureNext ==
    \/ MomentPasses
    \/ \E g \in Groups : ReadEntry(g) \/ AckEntry(g)
    \/ \E g \in Groups, answered \in BOOLEAN : CheckLag(g, answered) \/ AskGroup(g, answered)
    \/ \E kind \in {"throttle", "delay"}, groups \in {Groups, {}} : AskAdvice(kind, groups)
    \/ Advise

PressureSpec == PressureInit /\ [][PressureNext]_backpressureVars

-----------------------------------------------------------------------------
(* Properties                                                              *)

(* Each call's advice is one for lags that the groups have had while it    *)
(* was asking them, whatever is read and acknowledged between two queries: *)
(* no throttling and no longest delay unless some group was as far behind  *)
(* at some time, and neither withheld if a group that answered was so all  *)
(* the time.  A group that does not answer counts as one that is not       *)
(* behind; what a group has not been given never counts, however much the  *)
(* producer is ahead.  The two calls need not agree with each other.       *)
AdviceOfTheCall ==
    LET everOver(lag) == \E g \in heard : greatest[g] >= lag
        alwaysOver(lag) == \E g \in heard : least[g] >= lag
    IN  /\ call.left = {} /\ call.kind = "throttle" =>
             /\ alwaysOver(EmergencyLag) => Throttle
             /\ Throttle => everOver(EmergencyLag)
        /\ call.left = {} /\ call.kind = "delay" =>
             /\ alwaysOver(EmergencyLag) => Delay = 100
             /\ Delay = 100 => everOver(EmergencyLag)
             /\ alwaysOver(WarningLag) => Delay > 0
             /\ Delay > 0 => everOver(WarningLag)
        /\ \A g \in Groups : greatest[g] \leq read[g]

(* The lag shown of a group was its lag once; it is never shown as zero.   *)
(* A group that has caught up is shown with the last lag it had: the       *)
(* "Refresh cache" of get_lag_info() refreshes what is behind only.        *)
CacheWithin ==
    \A g \in Groups : lagCache[g] # Uncached => lagCache[g] \in 1..read[g]

(* The alerts that check_all_lags() attempts of a group are a cooldown     *)
(* apart, whatever their levels: an emergency waits for the cooldown that  *)
(* a critical lag has begun.  Each is of a lag that the group may have     *)
(* had.  (None arrives: see CheckLag.)                                     *)
AlertsApart ==
    \A g \in Groups : \A a, b \in warned[g] :
       /\ a # b => a[1] - b[1] >= AlertCooldown \/ b[1] - a[1] >= AlertCooldown
       /\ a[2] = "emergency" => read[g] >= EmergencyLag

PressureSound == AdviceOfTheCall /\ CacheWithin /\ AlertsApart
===============================================================================
