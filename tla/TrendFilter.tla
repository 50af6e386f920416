------------------------------ MODULE TrendFilter ------------------------------
(***************************************************************************)
(* TrendEngine of src/strategy/trend/trend_engine.py with EnsembleFilter   *)
(* and ProbabilityCalibrator of src/strategy/trend/ensemble_filter.py: how *)
(* forecasts of several horizons and the indicators become one position.   *)
(*                                                                         *)
(* Outside: the indicators of a bar, and what the position manager says of *)
(* a position or of an entry (TrendPosition has its rules).  Prices are    *)
(* left out; probabilities are in percent.                                 *)
(***************************************************************************)
EXTENDS Integers, FiniteSets, Sequences, FiniteSetsExt, Functions

CONSTANTS
    Forecasts,      \* horizon_probs: functions of Horizons
    Lone,           \* probabilities when only one model predicts
    Markets,        \* what the indicators may say
    DlThreshold,    \* dl_threshold
    WindowSize,     \* window_size of the calibrator (200)
    MinSamples,     \* min_samples (60)
    MaxChecks       \* bound: checks between two resets

Horizons == {1, 3, 10}  \* 5 is recorded, and never looked at

ASSUME TrendFilterAssumption ==
    /\ \A f \in Forecasts : \A h \in Horizons : f[h] \in 0..100
    /\ Lone \subseteq 0..100 /\ DlThreshold \in 50..100
    /\ WindowSize \in Nat \ {0} /\ MinSamples \in 1..WindowSize
    /\ MaxChecks \in Nat

VARIABLES
    history,        \* _history of the calibrator
    side,           \* position_side
    filterStats,    \* _stats of the filter
    engineStats,    \* _stats of the engine
    skipped,        \* history: entries the filter refused without counting them
    entered         \* history: the h10 that opened the position, while no other has come, or Unknown

filterVars == <<history, side, filterStats, engineStats, skipped, entered>>

Unknown == -1

SampleSum(s) == FoldFunction(+, 0, s)

-----------------------------------------------------------------------------
(* ProbabilityCalibrator                                                   *)

Recorded(forecast) ==
    [h \in Horizons |->
       LET all == Append(history[h], forecast[h])
       IN  IF Len(all) > WindowSize THEN Tail(all) ELSE all]

(* n times the distance to the mean, n times n times the variance.         *)
Deviation(s, p) == Len(s) * p - SampleSum(s)
Spread(s) == Len(s) * SampleSum([i \in DOMAIN s |-> s[i] * s[i]]) - SampleSum(s) * SampleSum(s)

(* A z-score of as many samples as there are.                              *)
CalibratedEarly(s) == 100 * Spread(s) >= Len(s) * Len(s)

(* get_zscore() is not None: enough samples, deviating by 0.001 or more.   *)
Calibrated(s) == Len(s) >= MinSamples /\ 100 * Spread(s) >= Len(s) * Len(s)

(* The z-score of p is above q/2, with q not negative; below its negative. *)
ZAbove(s, p, q) == Deviation(s, p) > 0 /\ 4 * Deviation(s, p) * Deviation(s, p) > q * q * Spread(s)
ZBelow(s, p, q) == Deviation(s, p) < 0 /\ 4 * Deviation(s, p) * Deviation(s, p) > q * q * Spread(s)

-----------------------------------------------------------------------------
(* EnsembleFilter: which side it opens, and the counters it raises         *)

Verdict(opens, counted) == [opens |-> opens, counted |-> counted]

(* The moving averages before the cloud.                                   *)
Trend(market, sign) ==
    IF market.ma # sign THEN {"rejected_ma"}
    ELSE IF market.cloud # sign THEN {"rejected_ichimoku"} ELSE {}

(* _check_long(), _check_short(): what speaks against a side.              *)
Against(p, market, sign) ==
    IF p \leq DlThreshold THEN {"rejected_dl"} ELSE Trend(market, sign)

(* check_entry(): a refused long has been counted when a short is tried,   *)
(* so that two counters, or one by two, are raised.                        *)
SingleVerdict(p, market) ==
    LET long == Against(p, market, 1)
        short == Against(100 - p, market, -1)
        of(reasons, n) == [c \in reasons |-> n]
    IN  CASE ~market.ready -> Verdict("NONE", [c \in {"rejected_not_ready"} |-> 1])
          [] market.ready /\ long = {} -> Verdict("LONG", [c \in {"long_signals"} |-> 1])
          [] market.ready /\ long # {} /\ short = {} ->
               Verdict("SHORT", [c \in long \cup {"short_signals"} |-> 1])
          [] OTHER ->
               Verdict("NONE", [c \in long \cup short |-> IF long = short THEN 2 ELSE 1])

(* _check_calibrated(): h10 gives the side, h1 or h3 confirms it, more     *)
(* easily for a short.                                                     *)
CalibratedVerdict(f, seen, market) ==
    LET sign == IF ZAbove(seen[10], f[10], 2) /\ \E h \in {1, 3} : ZAbove(seen[h], f[h], 1)
                THEN 1
                ELSE IF ZBelow(seen[10], f[10], 2) /\ \E h \in {1, 3} : ZBelow(seen[h], f[h], 0)
                THEN -1 ELSE 0
        against == Trend(market, sign)
    IN  IF sign = 0 THEN Verdict("NONE", [c \in {"rejected_dl"} |-> 1])
        ELSE IF against # {} THEN Verdict("NONE", [c \in against |-> 1])
        ELSE IF sign = 1 THEN Verdict("LONG", [c \in {"long_signals", "calibrated_signals"} |-> 1])
        ELSE Verdict("SHORT", [c \in {"short_signals", "calibrated_signals"} |-> 1])

(* check_entry_multi_horizon(); without enough samples there is no entry,  *)
(* and no absolute threshold is looked at.                                 *)
MultiVerdict(f, seen, market) ==
    CASE ~market.ready -> Verdict("NONE", [c \in {"rejected_not_ready"} |-> 1])
      [] market.ready /\ market.volatile -> Verdict("NONE", <<>>)
      [] market.ready /\ ~market.volatile /\ (\A h \in Horizons : Calibrated(seen[h])) ->
           CalibratedVerdict(f, seen, market)
      [] OTHER -> Verdict("NONE", [c \in {"uncalibrated_signals", "rejected_dl"} |-> 1])

-----------------------------------------------------------------------------
(* TrendEngine                                                             *)

Counters == {"total_checks", "long_signals", "short_signals", "rejected_dl", "rejected_ma",
             "rejected_ichimoku", "rejected_not_ready", "calibrated_signals",
             "uncalibrated_signals"}

TrendInit ==
    /\ history = [h \in Horizons |-> <<>>] /\ side = "NONE"
    /\ filterStats = [c \in Counters |-> 0]
    /\ engineStats = [total_checks |-> 0, entries |-> 0, exits |-> 0]
    /\ skipped = 0 /\ entered = Unknown

(* One more check of the engine, with one more of the counter c, if any.   *)
Checked(c) ==
    /\ engineStats.total_checks < MaxChecks
    /\ engineStats' = [d \in DOMAIN engineStats |->
           engineStats[d] + (IF d \in {"total_checks", c} THEN 1 ELSE 0)]

Hold == Checked("none") /\ UNCHANGED <<side, filterStats, skipped>>

(* _create_exit_signal()                                                   *)
CreateExit ==
    /\ side # "NONE" /\ Checked("exits")
    /\ side' = "NONE" /\ entered' = Unknown
    /\ UNCHANGED <<filterStats, skipped>>

(* The filter is asked; the manager may refuse what it says, in a cooldown *)
(* (_create_entry_signal()).                                               *)
TryEntry(verdict, h10) ==
    /\ side = "NONE"
    /\ filterStats' = [c \in Counters |->
           filterStats[c] + (IF c = "total_checks" THEN 1
                             ELSE IF c \in DOMAIN verdict.counted THEN verdict.counted[c] ELSE 0)]
    /\ skipped' = skipped + (IF DOMAIN verdict.counted = {} THEN 1 ELSE 0)
    /\ \/ /\ verdict.opens # "NONE"
          /\ side' = verdict.opens /\ entered' = h10 /\ Checked("entries")
       \/ Checked("none") /\ UNCHANGED <<side, entered>>

(* check(): one probability, which the calibrator does not see.  With a    *)
(* position the manager is asked, until the indicators are ready no one.   *)
CheckEntry(p, market) ==
    /\ IF side # "NONE" THEN CreateExit \/ (Hold /\ UNCHANGED entered)
       ELSE IF ~market.ready THEN Hold /\ UNCHANGED entered
       ELSE TryEntry(SingleVerdict(p, market), Unknown)
    /\ UNCHANGED history

(* h10 has turned against the position.                                    *)
Reversed(f, seen) ==
    /\ Calibrated(seen[10])
    /\ \/ side = "LONG" /\ ZBelow(seen[10], f[10], 2)
       \/ side = "SHORT" /\ ZAbove(seen[10], f[10], 2)

(* check_multi_horizon()                                                   *)
CheckMultiHorizon(f, market) ==
    LET seen == Recorded(f)
    IN  /\ history' = seen
        /\ IF side # "NONE"
           THEN \/ CreateExit
                \/ /\ ~Reversed(f, seen) /\ Hold
                   /\ entered' = IF f[10] = entered THEN entered ELSE Unknown
           ELSE IF ~market.ready THEN Hold /\ UNCHANGED entered
           ELSE TryEntry(MultiVerdict(f, seen, market), f[10])

(* Before the first bar there are no indicators at all.                    *)
CheckWithoutBars ==
    /\ filterStats.total_checks = 0
    /\ side = "NONE" /\ Hold /\ UNCHANGED entered
    /\ \/ UNCHANGED history
       \/ \E f \in Forecasts : history' = Recorded(f)

ResetEngine ==
    /\ history' = [h \in Horizons |-> <<>>] /\ side' = "NONE"
    /\ filterStats' = [c \in Counters |-> 0]
    /\ engineStats' = [total_checks |-> 0, entries |-> 0, exits |-> 0]
    /\ skipped' = 0 /\ entered' = Unknown

TrendNext ==
    \/ CheckWithoutBars \/ ResetEngine
    \/ \E m \in Markets : \/ \E p \in Lone : CheckEntry(p, m)
                          \/ \E f \in Forecasts : CheckMultiHorizon(f, m)

-----------------------------------------------------------------------------
(* Properties                                                              *)

Rejections ==
    filterStats.rejected_dl + filterStats.rejected_ma + filterStats.rejected_ichimoku
EntrySignals == filterStats.long_signals + filterStats.short_signals

(* The engine is in a position exactly while it has opened one more than   *)
(* it has closed; and it opens none that the filter did not signal.        *)
PositionCounted ==
    /\ engineStats.entries = engineStats.exits + (IF side = "NONE" THEN 0 ELSE 1)
    /\ engineStats.entries \leq EntrySignals

(* What the filter has counted bounds how often it was asked, although a   *)
(* check of one probability may count two rejections, and a volatile       *)
(* market none; no check that the engine lets through finds the indicators *)
(* not ready.                                                              *)
ChecksCounted ==
    /\ filterStats.total_checks \leq skipped + EntrySignals + Rejections
    /\ skipped + EntrySignals + Rejections \leq 2 * filterStats.total_checks
    /\ filterStats.calibrated_signals \leq EntrySignals
    /\ filterStats.uncalibrated_signals \leq filterStats.rejected_dl
    /\ filterStats.rejected_not_ready = 0
    /\ filterStats.total_checks \leq engineStats.total_checks

(* No position is opened by forecasts of several horizons before each      *)
(* horizon that has a say has its samples.  That is what the comment in    *)
(* _check_uncalibrated() says, "be very conservative - no signals", and    *)
(* the method does; its docstring and that of check_entry_multi_horizon()  *)
(* say that warm-up "falls back to absolute thresholds", which would open  *)
(* positions then.  (They also give z-scores of 1.5 and 1.0 to enter by;   *)
(* the filter is built with 1.0, and 0.5 or 0.0 to confirm.)               *)
EntersCalibrated ==
    entered # Unknown => \A h \in Horizons : Len(history[h]) >= MinSamples

(* A forecast that opened a position does not reverse it while it comes    *)
(* again and again, though it moves the mean that it is measured by and    *)
(* what was known of the time before is forgotten: no half of a window     *)
(* lies beyond one standard deviation.                                     *)
SteadyForecastHolds ==
    entered # Unknown =>
      \A f \in Forecasts : f[10] = entered => ~Reversed(f, Recorded(f))

TrendFilterSound ==
    PositionCounted /\ ChecksCounted /\ EntersCalibrated /\ SteadyForecastHolds
===============================================================================
