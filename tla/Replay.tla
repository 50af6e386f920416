-------------------------------- MODULE Replay --------------------------------
(***************************************************************************)
(* The two backtests of docker-training: backtest_triple_barrier.py of the *)
(* classifier and backtest.py of the regressors.  Both walk the bars once: *)
(* a signal at the close of a bar is filled at the open of the next one.   *)
(*                                                                         *)
(* A price is in ticks.  Bars are drawn as the walk gets to them; what the *)
(* models predict is left open.                                            *)
(***************************************************************************)
EXTENDS Integers, Sequences, Functions

CONSTANTS
    BarPrices,      \* opens and closes
    ReplayBars,     \* bound: bars after the first sequence
    StopTicks,      \* stop_loss_ticks
    TakeTicks,      \* take_profit_ticks
    MaxHold,        \* max_hold_bars
    SideCost,       \* commission_per_side
    Confidence,     \* confidence_threshold, in percent
    EntryQuarters,  \* entry_threshold, in quarters of a tick
    Probabilities,  \* p_buy and p_sell, in percent
    Predictions     \* of the model of each horizon, in ticks

ASSUME ReplayAssumption ==
    /\ {StopTicks, TakeTicks, MaxHold, ReplayBars} \subseteq Nat \ {0}
    /\ {SideCost, EntryQuarters} \subseteq Nat
    /\ BarPrices \subseteq Nat

VARIABLES
    script,         \* the backtest that runs
    closes,         \* of the bars walked so far, and of the next
    holding,        \* position: direction, entry_price, entry_idx
    deals,          \* trades
    equity,         \* equity_curve
    ended           \* whether the data are at an end

replayVars == <<script, closes, holding, deals, equity, ended>>

NotHolding == [side |-> 0, price |-> 0, at |-> 0]

Bar == Len(closes)
Now == closes[Bar]

-----------------------------------------------------------------------------
(* The signal of the classifier, of its probabilities.                     *)
ClassSignal(p) ==
    IF p.buy > Confidence /\ p.buy > p.sell THEN 1
    ELSE IF p.sell > Confidence /\ p.sell > p.buy THEN -1 ELSE 0

(* The mean of the predictions weighted with 1/horizon, here of the models *)
(* of horizons 1 and 3: 1 and 1/3 are three quarters and one of their sum. *)
EnsembleQuarters(p) == 3 * p[1] + p[3]

EnsembleSignal(p) ==
    IF EnsembleQuarters(p) > EntryQuarters THEN 1
    ELSE IF EnsembleQuarters(p) < -EntryQuarters THEN -1 ELSE 0

-----------------------------------------------------------------------------
Unrealized == (Now - holding.price) * holding.side

(* Why a position is closed at this bar, in the order the code asks.       *)
ExitReason(signal) ==
    IF Unrealized \leq -StopTicks THEN "stop_loss"
    ELSE IF Unrealized >= TakeTicks THEN "take_profit"
    ELSE IF Bar - holding.at >= MaxHold THEN "max_hold"
    ELSE IF signal = -holding.side THEN "signal_reversal"
    ELSE "none"

Deal(price, reason) ==
    [side |-> holding.side, entry |-> holding.price, exit |-> price,
     from |-> holding.at, to |-> Bar, reason |-> reason,
     pnl |-> (price - holding.price) * holding.side - 2 * SideCost]

DealsPnl(trades) == SumFunction([i \in DOMAIN trades |-> trades[i].pnl])

(* One bar of run(): an exit and then, at the same price, perhaps an entry. *)
Walk(signal, open, close) ==
    LET leaves == holding.side # 0 /\ ExitReason(signal) # "none"
    IN  /\ ~ended /\ Bar < ReplayBars
        /\ deals' = IF leaves THEN Append(deals, Deal(open, ExitReason(signal))) ELSE deals
        /\ holding' = IF holding.side # 0 /\ ~leaves THEN holding
                   ELSE IF signal = 0 THEN NotHolding
                   ELSE [side |-> signal, price |-> open, at |-> Bar]
        /\ equity' = Append(equity, DealsPnl(deals'))
        /\ closes' = Append(closes, close)
        /\ UNCHANGED <<script, ended>>

ClassifierBar ==
    /\ script = "classifier"
    /\ \E p \in [buy : Probabilities, sell : Probabilities], open, close \in BarPrices :
          p.buy + p.sell \leq 100 /\ Walk(ClassSignal(p), open, close)

RegressorBar ==
    /\ script = "regressor"
    /\ \E p \in [{1, 3} -> Predictions], open, close \in BarPrices :
          Walk(EnsembleSignal(p), open, close)

(* After the loop what is held is sold at the last close; equity_curve     *)
(* stays as it is.                                                         *)
EndOfData ==
    /\ ~ended /\ ended' = TRUE
    /\ deals' = IF holding.side # 0 THEN Append(deals, Deal(Now, "end_of_data")) ELSE deals
    /\ holding' = NotHolding
    /\ UNCHANGED <<script, closes, equity>>

ReplayInit ==
    /\ script \in {"classifier", "regressor"}
    /\ \E p \in BarPrices : closes = <<p>>
    /\ holding = NotHolding /\ deals = <<>> /\ equity = <<>> /\ ended = FALSE

ReplayNext == ClassifierBar \/ RegressorBar \/ EndOfData

-----------------------------------------------------------------------------
(* _compute_metrics()                                                      *)

MaxDrawdown(curve) ==
    LET falls == {p \in (DOMAIN curve) \X DOMAIN curve : p[1] \leq p[2]}
        drops == {curve[p[1]] - curve[p[2]] : p \in falls}
    IN  IF curve = <<>> THEN 0 ELSE CHOOSE d \in drops : \A e \in drops : e \leq d

-----------------------------------------------------------------------------
(* Properties                                                              *)

(* No two trades overlap, and none is held for longer than MaxHold bars.   *)
OneAtATime ==
    /\ \A i \in DOMAIN deals : deals[i].from < deals[i].to /\ deals[i].to - deals[i].from \leq MaxHold
    /\ \A i \in 2..Len(deals) : deals[i - 1].to \leq deals[i].from
    /\ holding.side # 0 => \A i \in DOMAIN deals : deals[i].to \leq holding.at

(* Between its entry and its last bar no trade has seen a close at its     *)
(* stop or its target; the trade that ends with such a close says so.      *)
BarriersWatched ==
    \A i \in DOMAIN deals :
        LET d == deals[i]
            At(j) == (closes[j] - d.entry) * d.side
        IN  /\ \A j \in d.from + 1..d.to - 1 : -StopTicks < At(j) /\ At(j) < TakeTicks
            /\ (d.reason = "stop_loss") = (d.reason # "end_of_data" /\ At(d.to) \leq -StopTicks)
            /\ (d.reason = "take_profit") = (d.reason # "end_of_data" /\ At(d.to) >= TakeTicks)

(* What is left on the curve is what the trades made, but for the one that *)
(* the end of the data closed: the drawdown the script reports is too      *)
(* small only by what that trade lost.                                     *)
CurveMissesTheEnd ==
    LET full == Append(equity, DealsPnl(deals))
        last == deals[Len(deals)]
    IN  ended /\ deals # <<>> =>
          /\ Len(equity) > 0
          /\ equity[Len(equity)] = DealsPnl(deals) - (IF last.reason = "end_of_data" THEN last.pnl ELSE 0)
          /\ MaxDrawdown(full) > MaxDrawdown(equity)
                => /\ last.reason = "end_of_data"
                   /\ MaxDrawdown(full) - MaxDrawdown(equity) \leq -last.pnl

(* The replay does what its configuration says.                            *)
ReplaySound == OneAtATime /\ BarriersWatched /\ CurveMissesTheEnd
===============================================================================
