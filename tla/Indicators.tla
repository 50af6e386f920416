------------------------------ MODULE Indicators ------------------------------
(***************************************************************************)
(* What two components keep of the bars: TechnicalCalculator of            *)
(* src/strategy/trend/technical_indicators.py (averages, cloud, ATR) and   *)
(* RegimeDetector of src/strategy/regime_detector.py (ATR, regime).  Both  *)
(* have bounded windows and are fed the same bars here, from which each    *)
(* makes its own true ranges.                                              *)
(*                                                                         *)
(* An average is given by its sum, a middle by twice its value.  How       *)
(* volatile the returns are is left open: a percentile comes with the bar. *)
(***************************************************************************)
EXTENDS Integers, FiniteSets, Sequences, FiniteSetsExt, Functions

CONSTANTS
    FedBars,        \* bars: high, low, close, volume
    MaxFed,         \* bound: bars fed
    MaFast,         \* ma_fast_period (20)
    MaSlow,         \* ma_slow_period (60)
    AtrPeriod,      \* atr_period of both (14)
    Tenkan, Kijun, SenkouB,     \* TENKAN_PERIOD, KIJUN_PERIOD, SENKOU_B_PERIOD (9, 26, 52)
    Spare,          \* bars kept beyond the longest period (10)
    DetectorKeeps,  \* bars that the detector keeps (100)
    RankKeeps,      \* hv_lookback: ATRs the detector keeps (60)
    RankAfter,      \* ATRs that a percentile needs (10)
    SurgeAfter,     \* bars that a volume surge needs (20)
    Percentiles,    \* of the historical volatility, in percent
    Smoothing       \* regime_smoothing (3)

ASSUME IndicatorsAssumption ==
    /\ {MaxFed, MaFast, MaSlow, AtrPeriod, Tenkan, Kijun, SenkouB, DetectorKeeps, RankKeeps,
        RankAfter, SurgeAfter, Smoothing} \subseteq Nat \ {0}
    /\ MaFast \leq MaSlow /\ AtrPeriod < MaSlow
    /\ Tenkan \leq Kijun /\ Kijun \leq SenkouB
    /\ AtrPeriod < DetectorKeeps /\ SurgeAfter \leq DetectorKeeps /\ SurgeAfter > 1
    /\ Smoothing \leq 10   \* the raw regimes the detector keeps
    /\ Spare \in Nat
    /\ FedBars \subseteq [high : Nat, low : Nat, close : Nat, volume : Nat]
    /\ \A b \in FedBars : b.low \leq b.close /\ b.close \leq b.high

VARIABLES
    fed,        \* history: all bars since the start or the last reset
    window,     \* price_history
    ranges,     \* _atr_values
    detector,   \* what the detector keeps: bars, atrs, raw regimes and the confirmed one
    raws        \* history: all raw regimes

indicatorVars == <<fed, window, ranges, detector, raws>>

Kept(s, n) == IF Len(s) \leq n THEN s ELSE SubSeq(s, Len(s) - n + 1, Len(s))
Append1(s, x, n) == Kept(Append(s, x), n)   \* deque(maxlen = n)
Sum(s) == FoldFunction(+, 0, s)
Distance(x, y) == IF x < y THEN y - x ELSE x - y

LongestPeriod == Max({MaSlow, SenkouB})

-----------------------------------------------------------------------------
(* TechnicalCalculator                                                     *)

TrueRange(b, previous) ==
    Max({b.high - b.low, Distance(b.high, previous), Distance(b.low, previous)})

ClosePrices(bars) == [i \in DOMAIN bars |-> bars[i].close]
Spans(bars) == [i \in DOMAIN bars |-> bars[i].high - bars[i].low]
Highest(bars) == Max({bars[i].high : i \in DOMAIN bars})
Lowest(bars) == Min({bars[i].low : i \in DOMAIN bars})

IsReady == Len(window) >= MaSlow

(* _calc_sma(): `period` times the average, 0 if there are too few bars.   *)
Sma(bars, period) == IF Len(bars) < period THEN 0 ELSE Sum(ClosePrices(Kept(bars, period)))

(* _calc_ichimoku(): twice a line, four times span A and twice span B.     *)
Line(bars, period) ==
    IF Len(bars) < period THEN 2 * bars[Len(bars)].close
    ELSE Highest(Kept(bars, period)) + Lowest(Kept(bars, period))
SpanA(bars) == Line(bars, Tenkan) + Line(bars, Kijun)
SpanB(bars) == Line(bars, SenkouB)

(* _calc_atr(): as a sum and the number of ranges it is the average of.    *)
Atr ==
    IF Len(ranges) = AtrPeriod THEN [sum |-> Sum(ranges), of |-> AtrPeriod]
    ELSE LET recent == Kept(window, 14)
         IN  [sum |-> Sum(Spans(recent)), of |-> Len(recent)]

(* update(); the close before is that of the last bar of the window.       *)
UpdateTechnical(b) ==
    /\ window' = Append1(window, b, LongestPeriod + Spare)
    /\ ranges' = IF window = <<>> THEN ranges
                 ELSE Append1(ranges, TrueRange(b, window[Len(window)].close), AtrPeriod)

-----------------------------------------------------------------------------
(* RegimeDetector                                                          *)

NewDetector == [bars |-> <<>>, atrs |-> <<>>, regimes |-> <<>>, confirmed |-> "MEDIUM"]

(* calculate_atr(): AtrPeriod times the average, 0 if there are too few.   *)
DetectorAtr(bars) ==
    IF Len(bars) < AtrPeriod + 1 THEN 0
    ELSE Sum([k \in 1..AtrPeriod |->
               LET i == Len(bars) - AtrPeriod + k IN TrueRange(bars[i], bars[i - 1].close)])

(* get_atr_percentile(), in percent                                        *)
AtrPercentile(atrs) ==
    IF Len(atrs) < RankAfter THEN 50
    ELSE (100 * Cardinality({i \in DOMAIN atrs : atrs[i] < atrs[Len(atrs)]})) \div Len(atrs)

VolumeSurge(bars) ==
    /\ Len(bars) >= SurgeAfter
    /\ LET before == SubSeq(bars, Len(bars) - SurgeAfter + 1, Len(bars) - 1)
       IN  bars[Len(bars)].volume * (SurgeAfter - 1)
               > 2 * Sum([i \in DOMAIN before |-> before[i].volume])

RangeExpansion(bars) ==
    /\ Len(bars) >= 2 /\ DetectorAtr(bars) > 0
    /\ LET last == bars[Len(bars)]
       IN  2 * AtrPeriod * (last.high - last.low) > 3 * DetectorAtr(bars)

(* _detect_regime()                                                        *)
Regime(bars, atrs, hv) ==
    LET score == (AtrPercentile(atrs) + hv) \div 2
                   + (IF VolumeSurge(bars) THEN 20 ELSE 0)
                   + (IF RangeExpansion(bars) THEN 15 ELSE 0)
    IN  IF score < 30 THEN "LOW" ELSE IF score > 70 THEN "HIGH" ELSE "MEDIUM"

(* _update_confirmed_regime()                                              *)
Steady(regimes) ==
    /\ Len(regimes) >= Smoothing
    /\ \A r \in Range(Kept(regimes, Smoothing)) : r = regimes[Len(regimes)]

UpdateDetector(b, hv) ==
    LET bars == Append1(detector.bars, b, DetectorKeeps)
        atrs == IF DetectorAtr(bars) > 0 THEN Append1(detector.atrs, DetectorAtr(bars), RankKeeps)
                ELSE detector.atrs
        regime == Regime(bars, atrs, hv)
        regimes == Append1(detector.regimes, regime, 10)
    IN  /\ detector' = [bars |-> bars, atrs |-> atrs, regimes |-> regimes,
                        confirmed |-> IF Steady(regimes) THEN regime ELSE detector.confirmed]
        /\ raws' = Append(raws, regime)

-----------------------------------------------------------------------------
IndicatorsInit ==
    /\ fed = <<>> /\ window = <<>> /\ ranges = <<>>
    /\ detector = NewDetector /\ raws = <<>>

NewBar ==
    /\ Len(fed) < MaxFed
    /\ \E b \in FedBars, hv \in Percentiles :
          fed' = Append(fed, b) /\ UpdateTechnical(b) /\ UpdateDetector(b, hv)

(* reset() of both                                                         *)
ResetIndicators ==
    /\ fed' = <<>> /\ window' = <<>> /\ ranges' = <<>>
    /\ detector' = NewDetector /\ raws' = <<>>

IndicatorsNext == NewBar \/ ResetIndicators

-----------------------------------------------------------------------------
(* Properties                                                              *)

(* What is computed of the windows is what all bars would give: no window  *)
(* is too short for the periods asked of it.                               *)
WindowsSuffice ==
    fed # <<>> =>
      /\ IsReady <=> Len(fed) >= MaSlow
      /\ \A period \in {MaFast, MaSlow} : Sma(window, period) = Sma(fed, period)
      /\ SpanA(window) = SpanA(fed) /\ SpanB(window) = SpanB(fed)
      /\ DetectorAtr(detector.bars) = DetectorAtr(fed)

(* The two average true ranges, one kept bar by bar and one computed anew, *)
(* are the same once there is one, and so whenever the calculator says it  *)
(* is ready; before that the calculator gives an average of plain spans,   *)
(* which no gap widens.                                                    *)
OneAtr ==
    fed # <<>> =>
      IF DetectorAtr(detector.bars) > 0
      THEN Atr = [sum |-> DetectorAtr(detector.bars), of |-> AtrPeriod]
      ELSE IsReady => Atr.sum = 0

(* The cloud lies between the extremes of the bars it is made of.          *)
CloudInside ==
    fed # <<>> =>
      LET bars == Kept(fed, LongestPeriod)
      IN  /\ SpanA(window) \in 4 * Lowest(bars)..4 * Highest(bars)
          /\ SpanB(window) \in 2 * Lowest(bars)..2 * Highest(bars)

(* The confirmed regime is the last one that held for Smoothing bars in a  *)
(* row, MEDIUM before there was one.                                       *)
RegimeConfirmed ==
    LET steady == {i \in Smoothing..Len(raws) : \A j \in i - Smoothing + 1..i : raws[j] = raws[i]}
    IN  detector.confirmed = IF steady = {} THEN "MEDIUM" ELSE raws[Max(steady)]

(* The four together: both components see the market the bars describe.    *)
IndicatorsSound == WindowsSuffice /\ OneAtr /\ CloudInside /\ RegimeConfirmed
===============================================================================
