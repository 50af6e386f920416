---------------------------- MODULE AnomalyDetector ----------------------------
(***************************************************************************)
(* AnomalyDetector of src/monitoring/anomaly_detector.py, for one symbol   *)
(* and one strategy.  Each record of a price, a signal or a trade may      *)
(* raise an anomaly of its kind, unless one is active; the detection loop  *)
(* drops those that have passed.                                           *)
(*                                                                         *)
(* An anomaly is active before its alert is sent, so that the records that *)
(* come while it is sent find it there: a record is one step.  Prices are  *)
(* given by their returns, a z-score by twice its value.                   *)
(***************************************************************************)
EXTENDS Integers, FiniteSets, Sequences, Functions

CONSTANTS
    Returns,        \* from one price to the next
    PriceWindow,    \* PRICE_WINDOW, less one: returns kept
    SignalWindow,   \* SIGNAL_WINDOW
    MinPrices,      \* returns that a z-score needs (9)
    MinSignals,     \* signals that a ratio needs (10)
    VolatilityHalves,   \* twice VOLATILITY_ZSCORE_THRESHOLD
    FrequencyThreshold, \* SIGNAL_FREQUENCY_THRESHOLD
    RecentFor,      \* the recent signals: 300 seconds
    LossStreak,     \* LOSS_STREAK_THRESHOLD
    CriticalStreak, \* losses in a row that are critical (8)
    LastInstant,    \* bound: the clock
    MaxRecords      \* bound: records since the first start

ASSUME AnomalyAssumption ==
    /\ Returns \subseteq Int
    /\ {PriceWindow, SignalWindow, MinPrices, MinSignals, VolatilityHalves, RecentFor,
        FrequencyThreshold, LossStreak} \subseteq Nat \ {0}
    /\ CriticalStreak \in Nat /\ CriticalStreak > LossStreak
    /\ MinSignals \leq SignalWindow
    /\ {LastInstant, MaxRecords} \subseteq Nat

VARIABLES
    instant,        \* time.time()
    watching,       \* _running
    seenReturns,    \* _price_history
    seenSignals,    \* _signal_history
    lossStreak,     \* _loss_streak
    anomalies,      \* _active_anomalies: severity by kind, or "none"
    keptStreak,     \* anomaly:loss_streak in Redis, or Unkept
    records,        \* history: records so far
    sentAlerts,     \* history: alerts by kind
    resolvedAlerts, \* history: anomalies dropped by kind
    restoredStreak  \* history: the longest streak with which this process started watching

anomalyVars == <<instant, watching, seenReturns, seenSignals, lossStreak, anomalies, keptStreak,
                 records, sentAlerts, resolvedAlerts, restoredStreak>>

Kinds == {"price_volatility", "signal_frequency", "loss_streak"}
Unkept == -1

AnomalyInit ==
    /\ instant = 0 /\ watching = FALSE /\ records = 0
    /\ seenReturns = <<>> /\ seenSignals = <<>> /\ lossStreak = 0
    /\ anomalies = [k \in Kinds |-> "none"]
    /\ keptStreak = Unkept /\ restoredStreak = 0
    /\ sentAlerts = [k \in Kinds |-> 0] /\ resolvedAlerts = [k \in Kinds |-> 0]

Windowed(s, x, n) == LET all == Append(s, x) IN IF Len(all) > n THEN Tail(all) ELSE all
WindowSum(s) == FoldFunction(+, 0, s)

-----------------------------------------------------------------------------
(* What is measured                                                        *)

(* _calculate_volatility_zscore(): whether twice |z| of the last return is *)
(* more than num/den; there is no z without a deviation.                   *)
ZBeyond(s, num, den) ==
    LET n == Len(s)
        deviation == n * s[n] - WindowSum(s)
        spread == n * WindowSum([i \in DOMAIN s |-> s[i] * s[i]]) - WindowSum(s) * WindowSum(s)
    IN  /\ n >= MinPrices /\ spread > 0
        /\ 4 * den * den * deviation * deviation > num * num * spread

(* _calculate_signal_frequency_ratio(): as a fraction, 1 when there are    *)
(* too few signals or all of one instant.                                  *)
FrequencyRatio(s) ==
    LET lasted == s[Len(s)] - s[1]
        recent == Cardinality({i \in DOMAIN s : instant - s[i] < RecentFor})
    IN  IF Len(s) < MinSignals \/ lasted = 0 THEN <<1, 1>>
        ELSE <<recent * lasted, Len(s) * RecentFor>>

-----------------------------------------------------------------------------
(* Records                                                                 *)

(* _create_..._anomaly(): nothing if one of the kind is active.            *)
Raise(kind, found, severity) ==
    LET raised == found /\ anomalies[kind] = "none"
    IN  /\ anomalies' = [anomalies EXCEPT ![kind] = IF raised THEN severity ELSE @]
        /\ sentAlerts' = [sentAlerts EXCEPT ![kind] = IF raised THEN @ + 1 ELSE @]

CountRecord == records < MaxRecords /\ records' = records + 1

RecordPrice(r) ==
    LET s == Windowed(seenReturns, r, PriceWindow)
    IN  /\ CountRecord /\ seenReturns' = s
        /\ Raise("price_volatility", ZBeyond(s, VolatilityHalves, 1),
                 IF ZBeyond(s, 6, 1) THEN "critical" ELSE "high")
        /\ UNCHANGED <<instant, watching, seenSignals, lossStreak, keptStreak, resolvedAlerts,
                       restoredStreak>>

RecordSignal ==
    LET s == Windowed(seenSignals, instant, SignalWindow)
        ratio == FrequencyRatio(s)
    IN  /\ CountRecord /\ seenSignals' = s
        /\ Raise("signal_frequency", ratio[1] > FrequencyThreshold * ratio[2],
                 IF ratio[1] > 5 * ratio[2] THEN "high" ELSE "medium")
        /\ UNCHANGED <<instant, watching, seenReturns, lossStreak, keptStreak, resolvedAlerts,
                       restoredStreak>>

RecordTradeResult(lost) ==
    LET count == IF lost THEN lossStreak + 1 ELSE 0
    IN  /\ CountRecord /\ lossStreak' = count
        /\ Raise("loss_streak", count >= LossStreak,
                 IF count >= CriticalStreak THEN "critical" ELSE "high")
        /\ UNCHANGED <<instant, watching, seenReturns, seenSignals, keptStreak, resolvedAlerts,
                       restoredStreak>>

-----------------------------------------------------------------------------
(* The loop, and the life of the detector                                  *)

(* Each kind has a threshold of its own to pass: four fifths of what       *)
(* raised it, for the streak all of it.                                    *)
Passed(kind) ==
    CASE kind = "price_volatility" ->
           seenReturns = <<>> \/ ~ZBeyond(seenReturns, 4 * VolatilityHalves, 5)
      [] kind = "signal_frequency" ->
           LET ratio == IF seenSignals = <<>> THEN <<1, 1>> ELSE FrequencyRatio(seenSignals)
           IN  5 * ratio[1] < 4 * FrequencyThreshold * ratio[2]
      [] kind = "loss_streak" -> lossStreak < LossStreak

ClearResolved ==
    LET over == {k \in Kinds : anomalies[k] # "none" /\ Passed(k)}
    IN  /\ watching
        /\ anomalies' = [k \in Kinds |-> IF k \in over THEN "none" ELSE anomalies[k]]
        /\ resolvedAlerts' = [k \in Kinds |-> resolvedAlerts[k] + (IF k \in over THEN 1 ELSE 0)]
        /\ UNCHANGED <<instant, watching, seenReturns, seenSignals, lossStreak, keptStreak,
                       records, sentAlerts, restoredStreak>>

(* start(): a streak that is kept replaces the one in memory.              *)
StartDetector ==
    /\ ~watching /\ watching' = TRUE
    /\ lossStreak' = IF keptStreak # Unkept THEN keptStreak ELSE lossStreak
    /\ restoredStreak' = IF lossStreak' > restoredStreak THEN lossStreak' ELSE restoredStreak
    /\ UNCHANGED <<instant, seenReturns, seenSignals, anomalies, keptStreak, records,
                   sentAlerts, resolvedAlerts>>

(* stop() keeps the streak, if Redis takes it.                             *)
StopDetector ==
    /\ watching /\ watching' = FALSE
    /\ keptStreak' \in {lossStreak, keptStreak}
    /\ UNCHANGED <<instant, seenReturns, seenSignals, lossStreak, anomalies, records,
                   sentAlerts, resolvedAlerts, restoredStreak>>

(* A crash, or the end of the process; what is kept expires after a day.   *)
RestartDetector ==
    /\ watching' = FALSE /\ keptStreak' \in {keptStreak, Unkept}
    /\ seenReturns' = <<>> /\ seenSignals' = <<>> /\ lossStreak' = 0
    /\ anomalies' = [k \in Kinds |-> "none"]
    /\ sentAlerts' = [k \in Kinds |-> 0] /\ resolvedAlerts' = [k \in Kinds |-> 0]
    /\ restoredStreak' = 0
    /\ UNCHANGED <<instant, records>>

ClockTicks ==
    /\ instant < LastInstant /\ instant' = instant + 1
    /\ UNCHANGED <<watching, seenReturns, seenSignals, lossStreak, anomalies, keptStreak,
                   records, sentAlerts, resolvedAlerts, restoredStreak>>

AnomalyNext ==
    \/ \E r \in Returns : RecordPrice(r)
    \/ RecordSignal \/ \E lost \in BOOLEAN : RecordTradeResult(lost)
    \/ ClearResolved \/ StartDetector \/ StopDetector \/ RestartDetector \/ ClockTicks

-----------------------------------------------------------------------------
(* Properties                                                              *)

(* Between two alerts of a kind the anomaly has passed: there is one for   *)
(* each that has passed, and one for that which has not.                   *)
OneAlertEach ==
    \A k \in Kinds :
       sentAlerts[k] = resolvedAlerts[k] + (IF anomalies[k] = "none" THEN 0 ELSE 1)

(* A streak of losses becomes critical only for a detector that started in *)
(* the middle of one: while it watches, the streak has been reported as    *)
(* high before, and is not reported again.                                 *)
CriticalOnlyRestored ==
    anomalies["loss_streak"] = "critical" => restoredStreak >= CriticalStreak - 1

(* However fast signals come, once all that are remembered are recent the  *)
(* ratio is below one: a burst that fills the window is no anomaly, and    *)
(* the one that its beginning raised passes while it lasts.                *)
FullBurstUnseen ==
    seenSignals # <<>> =>
      LET ratio == FrequencyRatio(seenSignals)
      IN  instant - seenSignals[1] < RecentFor => ratio[1] \leq ratio[2]

(* What is over its threshold is active: no pass of the loop drops what    *)
(* the next record would raise again, and no record is overlooked.         *)
NoFlapping ==
    /\ seenReturns # <<>> /\ ZBeyond(seenReturns, VolatilityHalves, 1)
           => ~Passed("price_volatility") /\ anomalies["price_volatility"] # "none"
    /\ lossStreak >= LossStreak /\ restoredStreak = 0 => anomalies["loss_streak"] # "none"

AnomaliesSound == OneAlertEach /\ CriticalOnlyRestored /\ FullBurstUnseen /\ NoFlapping
===============================================================================
