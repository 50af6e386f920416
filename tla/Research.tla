------------------------------- MODULE Research -------------------------------
(***************************************************************************)
(* What the offline scripts of docker-training make of a series of bars:   *)
(* the two ways to take contract rolls out of it (scripts/adjust_rolls.py, *)
(* adjust_futures_data.py), the labels of the three training scripts and   *)
(* the rows they split it into.  A script reads a whole file; the series   *)
(* here grows bar by bar, so that every prefix is looked at.               *)
(*                                                                         *)
(* Prices are ticks, ratios pairs of integers.  The barrier of a label is  *)
(* a distance in ticks: how far k standard deviations are is left open.    *)
(***************************************************************************)
EXTENDS Integers, Sequences, FiniteSets

CONSTANTS
    BarShapes,      \* bars: open, high, low, close, and whether hours passed before
    MaxSeries,      \* bound: bars of a series
    RollPercent,    \* gap_threshold of adjust_rolls, in percent
    RollPoints,     \* min_gap_abs
    GapPoints,      \* gap_threshold of adjust_futures_data
    NormalGap,      \* max_normal_gap of verify_continuity
    Barriers,       \* distances of a barrier
    Horizon,        \* max_horizon, horizon
    SeqLen          \* seq_len

ASSUME ResearchAssumption ==
    /\ BarShapes \subseteq [open : Nat, high : Nat, low : Nat, close : Nat, pause : BOOLEAN]
    /\ \A b \in BarShapes : b.low \leq b.close /\ b.close \leq b.high /\ b.low > 0
    /\ Horizon \in Nat \ {0} /\ SeqLen \in Nat \ {0}
    /\ NormalGap \in Nat /\ GapPoints \in Nat
    /\ Barriers \subseteq Nat

VARIABLE series

researchVars == <<series>>

Gap(x, y) == IF x < y THEN y - x ELSE x - y
Rows == DOMAIN series
Close(i) == series[i].close

-----------------------------------------------------------------------------
(* adjust_rolls.py                                                         *)

RollPoint(i) ==
    /\ i > 1
    /\ 100 * Gap(Close(i), Close(i - 1)) >= RollPercent * Close(i - 1)
    /\ Gap(Close(i), Close(i - 1)) >= RollPoints

RollIndices == {i \in Rows : RollPoint(i)}

Divisor[p \in Nat \X Nat] == IF p[2] = 0 THEN p[1] ELSE Divisor[<<p[2], p[1] % p[2]>>]

Ratio(x, y) == [over |-> x \div Divisor[<<x, y>>], under |-> y \div Divisor[<<x, y>>]]
Times(p, q) == Ratio(p.over * q.over, p.under * q.under)
Over(p, q) == Ratio(p.over * q.under, p.under * q.over)

(* The bar of the roll is scaled with those before it.                     *)
ScaledThrough(adjusted, i) ==
    LET ratio == Over(adjusted[i], adjusted[i - 1])
    IN  [j \in Rows |-> IF j \leq i THEN Times(adjusted[j], ratio) ELSE adjusted[j]]

(* A roll's ratio is taken from the data adjusted so far: later rolls have *)
(* scaled both of its bars.                                                *)
ScaledBefore(adjusted, i) ==
    LET ratio == Over(adjusted[i], adjusted[i - 1])
    IN  [j \in Rows |-> IF j < i THEN Times(adjusted[j], ratio) ELSE adjusted[j]]

(* apply_ratio_adjustment(): from the latest roll to the earliest; here    *)
(* down to the rolls from bar i on.                                        *)
RatioAdjustedFrom[i \in 1..Len(series) + 1] ==
    IF i > Len(series) THEN [j \in Rows |-> Ratio(Close(j), 1)]
    ELSE IF i \in RollIndices THEN ScaledBefore(RatioAdjustedFrom[i + 1], i)
    ELSE RatioAdjustedFrom[i + 1]

RatioAdjusted == RatioAdjustedFrom[1]

-----------------------------------------------------------------------------
(* adjust_futures_data.py                                                  *)

SessionGap(i) == series[i].open - Close(i - 1)

RolloverGaps == {i \in Rows : i > 1 /\ series[i].pause /\ Gap(series[i].open, Close(i - 1)) > GapPoints}

ShiftedBefore(adjusted, i) ==
    [j \in Rows |-> IF j < i THEN adjusted[j] + SessionGap(i) ELSE adjusted[j]]

(* backward_adjust(): what is added to all prices of each bar, from the    *)
(* latest gap to the earliest; the gaps are those of the data as they      *)
(* were.                                                                   *)
ShiftsFrom[i \in 1..Len(series) + 1] ==
    IF i > Len(series) THEN [j \in Rows |-> 0]
    ELSE IF i \in RolloverGaps THEN ShiftedBefore(ShiftsFrom[i + 1], i)
    ELSE ShiftsFrom[i + 1]

Shifts == ShiftsFrom[1]

(* verify_continuity()                                                     *)
RemainingGaps ==
    {i \in Rows : /\ i > 1 /\ series[i].pause
                  /\ Gap(series[i].open + Shifts[i], Close(i - 1) + Shifts[i - 1]) > NormalGap}

-----------------------------------------------------------------------------
(* Labels: 0 is Hold, 1 Buy or Up, 2 Sell or Down, -1 no label             *)

Within(i) == {j \in Rows : i < j /\ j \leq i + Horizon}
Upper(i, d) == {j \in Within(i) : series[j].high >= Close(i) + d}
Lower(i, d) == {j \in Within(i) : series[j].low \leq Close(i) - d}
First(S) == CHOOSE j \in S : \A k \in S : j \leq k

(* create_triple_barrier_labels()                                          *)
TripleBarrier(i, d) ==
    LET up == Upper(i, d)
        down == Lower(i, d)
    IN  IF i > Len(series) - Horizon THEN -1
        ELSE IF up = {} /\ down = {} THEN 0
        ELSE IF down = {} THEN 1
        ELSE IF up = {} THEN 2
        ELSE IF First(up) < First(down) THEN 1
        ELSE IF First(down) < First(up) THEN 2
        ELSE IF Close(First(up)) > Close(i) THEN 1 ELSE 2

(* create_labels() of train_lstm.py; bars without a future are dropped.    *)
Direction(i, d) ==
    IF i + Horizon > Len(series) THEN -1
    ELSE IF Close(i + Horizon) - Close(i) >= d THEN 1
    ELSE IF Close(i + Horizon) - Close(i) \leq -d THEN 2 ELSE 0

-----------------------------------------------------------------------------
(* The split of n rows, and the rows whose label ends a sample, from 1.    *)
SplitAt(n) == (n * 8) \div 10

BarrierSamples(first, last) == {i - 1 : i \in first + SeqLen..last}
SeriesSamples(first, last) ==
    {first + k + SeqLen - 1 : k \in 0..last - first + 1 - SeqLen - 1}

-----------------------------------------------------------------------------
ResearchInit == series = <<>>

Record ==
    /\ Len(series) < MaxSeries
    /\ \E b \in BarShapes : series' = Append(series, b)

ResearchSpec == ResearchInit /\ [][Record]_researchVars

-----------------------------------------------------------------------------
(* Properties                                                              *)

(* "This preserves returns": taking the rolls out leaves every other       *)
(* return what it was and closes the gap at each roll, although the ratio  *)
(* of a roll is taken from prices that later rolls have scaled.            *)
ReturnsKept ==
    LET a == RatioAdjusted
    IN  \A i \in Rows \ {1} :
           Over(a[i], a[i - 1])
               = IF RollPoint(i) THEN Ratio(1, 1) ELSE Ratio(Close(i), Close(i - 1))

(* "Then multiply all SUBSEQUENT prices by the inverse ratio to bring the  *)
(* new contract's prices in line with the old contract": what precedes the *)
(* first roll keeps its prices.  It does not: that is what is scaled.      *)
SubsequentScaled ==
    \A i \in Rows : (\A r \in RollIndices : i < r) => RatioAdjusted[i] = Ratio(Close(i), 1)

(* The additive way closes the gaps it finds and leaves all other changes  *)
(* what they were; only gaps between the two thresholds remain.            *)
GapsClosed ==
    /\ \A i \in Rows \ {1} :
          Shifts[i] - Shifts[i - 1] = (IF i \in RolloverGaps THEN -SessionGap(i) ELSE 0)
    /\ \A i \in RemainingGaps : Gap(series[i].open, Close(i - 1)) \in NormalGap + 1..GapPoints

(* A label is what a trade opened at the close would have met first, and a *)
(* bar that spans both barriers counts for the side it closed on.  A Buy   *)
(* needs a higher high, a Sell a lower low, and no bar has a label unless  *)
(* its whole horizon is known.                                             *)
LabelsOfFirstTouch ==
    \A d \in Barriers : \A i \in Rows :
        LET touched == {j \in Within(i) : \/ series[j].high >= Close(i) + d
                                          \/ series[j].low \leq Close(i) - d}
            t == First(touched)
        IN  IF Cardinality(Within(i)) < Horizon THEN TripleBarrier(i, d) = -1
            ELSE CASE touched = {} -> TripleBarrier(i, d) = 0
                   [] touched # {} /\ Close(t) > Close(i) + d -> TripleBarrier(i, d) = 1
                   [] touched # {} /\ Close(t) < Close(i) - d -> TripleBarrier(i, d) = 2
                   [] OTHER -> TripleBarrier(i, d) \in {1, 2}

(* Where the close is beyond a barrier at the horizon, the direction of    *)
(* train_lstm and the triple barrier differ only if the other barrier was  *)
(* touched on the way.                                                     *)
LabelsAgree ==
    \A d \in Barriers : \A i \in Rows :
        /\ Direction(i, d) = 1 /\ Lower(i, d) = {} => TripleBarrier(i, d) = 1
        /\ Direction(i, d) = 2 /\ Upper(i, d) = {} => TripleBarrier(i, d) = 2
        /\ (Direction(i, d) = -1) = (TripleBarrier(i, d) = -1)

(* Both kinds of data sets hold the same samples, none of which reaches    *)
(* across the split with its features.  With their labels, the last        *)
(* Horizon - 1 rows of the training samples do.                            *)
SplitSeparates ==
    LET n == Len(series)
        s == SplitAt(n)
        train == BarrierSamples(1, s)
        val == BarrierSamples(s + 1, n)
    IN  /\ train = SeriesSamples(1, s) /\ val = SeriesSamples(s + 1, n)
        /\ \A e \in train : 1 \leq e - SeqLen + 1 /\ e < s
        /\ \A e \in val : s < e - SeqLen + 1 /\ e < n
        /\ Cardinality({e \in train : e + Horizon > s}) \leq Horizon - 1

(* The five together: data that are adjusted, labelled and split mean what *)
(* the scripts say.                                                        *)
ResearchSound ==
    ReturnsKept /\ GapsClosed /\ LabelsOfFirstTouch /\ LabelsAgree /\ SplitSeparates
=============================================================================
