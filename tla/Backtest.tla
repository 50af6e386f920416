------------------------------- MODULE Backtest -------------------------------
(***************************************************************************)
(* BacktestEngine of src/backtest/engine.py with its PositionManager       *)
(* (position.py), RiskManager (risk.py), trading hours (filters.py), costs *)
(* (cost.py) and one of the rule-based strategies behind its               *)
(* StrategyAdapter (strategy_adapter.py), which keeps a position of its    *)
(* own for the strategy.  One action handles one bar, in the order of      *)
(* _process_bar().                                                         *)
(*                                                                         *)
(* Prices are ticks and one contract is worth one unit a tick.  The time   *)
(* of a bar is its day and a slot of the day; any bar may be missing.      *)
(* daily_pnl and current_day_pnl are set and reset together.  Statistics   *)
(* over the finished run are left out.                                     *)
(***************************************************************************)
EXTENDS Integers

CONSTANTS
    Prices,             \* closes of the bars
    LastBarDay,         \* bound: the last day of the data
    LastSlot,           \* the last slot of a day
    EntrySlots,         \* slots in which can_open_position() holds
    ForceSlots,         \* slots in which should_force_close() holds
    Commission, Slippage,
    StopLoss, TakeProfit, TrailActivation, TrailDistance,
    TimeStop,           \* slots after which a position is closed
    MaxDailyLoss, MaxDailyTrades,
    MaxEntries,         \* bound: positions opened in a run
    WarmUp,             \* of the strategies: config.min_history
    MaxBars,            \* config.max_bars_in_position
    Cooldown,           \* config.cooldown_bars
    AvoidMedium         \* config.avoid_medium_regime

ASSUME BacktestAssumption ==
    /\ Prices \subseteq Nat \ {0}
    /\ {LastBarDay, LastSlot, Commission, Slippage} \subseteq Nat
    /\ EntrySlots \subseteq 0..LastSlot /\ ForceSlots \subseteq 0..LastSlot
    /\ EntrySlots \cap ForceSlots = {}
    /\ {StopLoss, TakeProfit, TrailActivation, TrailDistance, TimeStop}
         \subseteq Nat \ {0}
    /\ MaxDailyLoss \in Nat \ {0} /\ MaxDailyTrades \in Nat \ {0}
    /\ MaxEntries \in Nat

ASSUME RulesAssumption ==
    /\ WarmUp \in Nat \ {0} /\ MaxBars \in Nat \ {0} /\ Cooldown \in Nat
    /\ AvoidMedium \in BOOLEAN

VARIABLES
    barDay, barSlot,    \* time of the latest bar, -1 before the first one
    close,              \* its price
    held,               \* position_manager.position
    capitalGain,        \* gain of position_manager.capital on initial_capital
    dayPnl, dayTrades,  \* risk_manager.daily_pnl and daily_trades
    rule,               \* the strategy that is tested
    prepared,           \* whether FeatureEngineer has given the bars a regime
    memory,             \* what the strategy remembers, most by the adapter
    takings,            \* history: sales less purchases, less all commissions
    opened,             \* history: positions opened
    overruled,          \* history: exits that the strategy has not asked for
    over                \* whether run() has reached its end

backtestVars == <<barDay, barSlot, close, held, capitalGain, dayPnl, dayTrades, rule,
                  prepared, memory, takings, opened, overruled, over>>

-----------------------------------------------------------------------------
(* The strategies                                                          *)
(*                                                                         *)
(* generate_signal() of the rule-based strategies: which signals a         *)
(* strategy may give on a bar, from what it remembers.  BUY is 1, SELL is  *)
(* -1, HOLD is 0.  Prices, bands, scores and order flow decide freely      *)
(* between entering and not, and between leaving and staying; when they    *)
(* are asked at all is what is modelled.  The adaptive variants only set   *)
(* the thresholds anew.  m is a strategy's memory: the position it         *)
(* believes to have (view), the calls it has had (seen), bars_in_position  *)
(* (bars) and the calls since it last entered (since).                     *)

RuleNames == {"Breakout", "MeanReversion", "Hybrid", "OFIMomentum", "PureMicrostructure"}

(* bar.regime; no bar has one unless the data was prepared.                *)
NoRegime == "None"
Regimes == {"LOW", "MEDIUM", "HIGH"}

HOLD == 0
ExitSignal(m) == -m.view

(* _check_exit(): time is up, or prices decide.                            *)
ExitSignals(m) == IF m.bars >= MaxBars THEN {ExitSignal(m)} ELSE {ExitSignal(m), HOLD}

(* A strategy that is in the mood to trade.                                *)
TradeSignals(m) == IF m.view # 0 THEN ExitSignals(m) ELSE {-1, HOLD, 1}

Cold(m) == m.seen < WarmUp

(* A regime that is not the strategy's own ends its position.              *)
InRegime(m, regime, allowed) ==
    CASE Cold(m) \/ regime = NoRegime -> {HOLD}
      [] ~Cold(m) /\ regime # NoRegime /\ regime \notin allowed -> {ExitSignal(m)}
      [] OTHER -> TradeSignals(m)

Breakout(m, regime) == InRegime(m, regime, {"HIGH"})
MeanReversion(m, regime) == InRegime(m, regime, {"LOW"})

(* It looks on in the medium regime, whatever it holds.                    *)
Hybrid(m, regime) ==
    IF Cold(m) \/ (AvoidMedium /\ regime \in {NoRegime, "MEDIUM"})
    THEN {HOLD} ELSE TradeSignals(m)

OFIMomentum(m) == IF Cold(m) THEN {HOLD} ELSE TradeSignals(m)

(* No entry before Cooldown calls after the last one.                      *)
PureMicrostructure(m) ==
    IF Cold(m) \/ (m.view = 0 /\ m.since < Cooldown) THEN {HOLD} ELSE TradeSignals(m)

SignalsOf(named, m, regime) ==
    CASE named = "Breakout"           -> Breakout(m, regime)
      [] named = "MeanReversion"      -> MeanReversion(m, regime)
      [] named = "Hybrid"             -> Hybrid(m, regime)
      [] named = "OFIMomentum"        -> OFIMomentum(m)
      [] named = "PureMicrostructure" -> PureMicrostructure(m)

-----------------------------------------------------------------------------
NotHeld == [side |-> 0, entry |-> 0, since |-> 0, high |-> 0, low |-> 0]

BacktestTypeOK ==
    /\ barDay \in -1..LastBarDay /\ barSlot \in -1..LastSlot
    /\ close \in Prices \cup {0}
    /\ held = NotHeld \/ held \in [side : {-1, 1}, entry : Int, since : Nat,
                                   high : Int, low : Int]
    /\ capitalGain \in Int /\ dayPnl \in Int /\ takings \in Int
    /\ dayTrades \in Nat /\ opened \in 0..MaxEntries
    /\ rule \in RuleNames /\ prepared \in BOOLEAN
    /\ memory \in [view : {-1, 0, 1}, seen : 0..WarmUp, bars : 0..MaxBars,
                   since : 0..Cooldown]
    /\ overruled \in Nat /\ over \in BOOLEAN

BacktestInit ==
    /\ barDay = -1 /\ barSlot = -1 /\ close = 0
    /\ held = NotHeld /\ capitalGain = 0
    /\ dayPnl = 0 /\ dayTrades = 0
    /\ rule \in RuleNames /\ prepared \in BOOLEAN
    /\ memory = [view |-> 0, seen |-> 0, bars |-> 0, since |-> 0]
    /\ takings = 0 /\ opened = 0 /\ overruled = 0 /\ over = FALSE

-----------------------------------------------------------------------------
Stamp(d, s) == d * (LastSlot + 1) + s

(* Position.update_price()                                                 *)
Marked(p) ==
    IF held.side = 0 THEN held
    ELSE [held EXCEPT !.high = IF p > @ THEN p ELSE @,
                      !.low  = IF p < @ THEN p ELSE @]

Profit(pos, p) == pos.side * (p - pos.entry)

(* check_exit(), with the position marked at the price.                    *)
LossLimit(pnl) == pnl <= -MaxDailyLoss
StopHit(pos, p) == Profit(pos, p) <= -StopLoss
TargetHit(pos, p) == Profit(pos, p) >= TakeProfit
TimeOver(pos, now) == now - pos.since >= TimeStop
Trailed(pos, p) ==
    /\ Profit(pos, p) >= TrailActivation
    /\ IF pos.side = 1 THEN p <= pos.high - TrailDistance
                       ELSE p >= pos.low + TrailDistance

RiskExit(pos, p, pnl, now) ==
    LossLimit(pnl) \/ StopHit(pos, p) \/ TargetHit(pos, p) \/ TimeOver(pos, now)
      \/ Trailed(pos, p)

(* can_trade()                                                             *)
MayTrade(pnl, trades) == ~LossLimit(pnl) /\ trades < MaxDailyTrades

(* The commission is in the daily profit only.                             *)
CloseUncharged(p, pnl, trades) ==
    LET price == p - held.side * Slippage
        gain  == Profit(held, price) - Commission
    IN  /\ held' = NotHeld
        /\ capitalGain' = capitalGain + Profit(held, price)
        /\ dayPnl' = pnl + gain /\ dayTrades' = trades + 1
        /\ takings' = takings + held.side * price - Commission

(* _close_position(): slippage and commission are part of the profit.      *)
CloseAt(p, pnl, trades) ==
    LET price == p - held.side * Slippage
        gain  == Profit(held, price) - Commission
    IN  /\ held' = NotHeld
        /\ capitalGain' = capitalGain + gain
        /\ dayPnl' = pnl + gain /\ dayTrades' = trades + 1
        /\ takings' = takings + held.side * price - Commission

(* _open_position(): the commission of the entry is only in the capital.   *)
OpenAt(side, p, now) ==
    LET price == p + side * Slippage
    IN  /\ held' = [side |-> side, entry |-> price, since |-> now,
                    high |-> price, low |-> price]
        /\ capitalGain' = capitalGain - Commission
        /\ takings' = takings - side * price - Commission
        /\ opened' = opened + 1

(* The adapter counts the bars it shows, whether a position is held or     *)
(* not; no count is kept past the bound it is compared with.               *)
AtMost(n, bound) == IF n < bound THEN n ELSE bound

Shown == [view  |-> memory.view,
          seen  |-> AtMost(memory.seen + 1, WarmUp),
          bars  |-> AtMost(memory.bars + 1, MaxBars),
          since |-> AtMost(memory.since + 1, Cooldown)]

(* It takes every signal for a trade, as the strategy itself does.         *)
Told(m, signal) ==
    IF signal = HOLD \/ m.view = signal THEN m
    ELSE [m EXCEPT !.view = @ + signal, !.bars = 0,
                   !.since = IF m.view = 0 THEN 0 ELSE @]

-----------------------------------------------------------------------------
(* _process_bar() for a bar of day d and slot s at price p, on which the   *)
(* strategy would say signal.                                              *)
ProcessBar(d, s, p, signal) ==
    LET now    == Stamp(d, s)
        newDay == barDay # -1 /\ d # barDay
        pnl    == IF newDay THEN 0 ELSE dayPnl
        trades == IF newDay THEN 0 ELSE dayTrades
        pos    == Marked(p)
    IN
    /\ ~over /\ now > Stamp(barDay, barSlot)
    /\ barDay' = d /\ barSlot' = s /\ close' = p
    /\ \/ /\ held.side # 0
          /\ s \in ForceSlots \/ RiskExit(pos, p, pnl, now)
          /\ CloseAt(p, pnl, trades)
          /\ overruled' = overruled + 1
          /\ UNCHANGED <<memory, opened>>
       \/ /\ held.side # 0 => s \notin ForceSlots /\ ~RiskExit(pos, p, pnl, now)
          /\ s \notin EntrySlots \/ ~MayTrade(pnl, trades)
          /\ held' = pos /\ dayPnl' = pnl /\ dayTrades' = trades
          /\ UNCHANGED <<memory, capitalGain, takings, opened, overruled>>
       \/ /\ held.side # 0 => s \notin ForceSlots /\ ~RiskExit(pos, p, pnl, now)
          /\ s \in EntrySlots /\ MayTrade(pnl, trades)
          /\ \E regime \in IF prepared THEN Regimes ELSE {NoRegime} :
                signal \in SignalsOf(rule, Shown, regime)
          /\ memory' = Told(Shown, signal)
          /\ \/ /\ held.side = 0 /\ signal # 0 /\ opened < MaxEntries
                /\ OpenAt(signal, p, now)
                /\ dayPnl' = pnl /\ dayTrades' = trades
             \/ /\ held.side # 0 /\ signal = -held.side
                /\ CloseAt(p, pnl, trades)
                /\ UNCHANGED opened
             \/ /\ IF held.side = 0 THEN signal = 0 ELSE signal # -held.side
                /\ held' = pos /\ dayPnl' = pnl /\ dayTrades' = trades
                /\ UNCHANGED <<capitalGain, takings, opened>>
          /\ UNCHANGED overruled
    /\ UNCHANGED <<rule, prepared, over>>

(* The end of run(): what is still held is closed at the last bar.         *)
FinishRun ==
    /\ ~over /\ barDay # -1 /\ over' = TRUE
    /\ IF held.side = 0 THEN UNCHANGED <<held, capitalGain, dayPnl, dayTrades, takings,
                                      overruled>>
       ELSE CloseAt(close, dayPnl, dayTrades) /\ overruled' = overruled + 1
    /\ UNCHANGED <<barDay, barSlot, close, rule, prepared, memory, opened>>

BacktestNext ==
    \/ \E d \in 0..LastBarDay, s \in 0..LastSlot, p \in Prices, signal \in {-1, 0, 1} :
          ProcessBar(d, s, p, signal)
    \/ FinishRun

BacktestSpec == BacktestInit /\ [][BacktestNext]_backtestVars

-----------------------------------------------------------------------------
(* Properties                                                              *)

(* The capital is what the trades have brought in: without a position it   *)
(* equals sales less purchases less every commission, and with one it      *)
(* lacks the price paid.                                                   *)
CapitalIsCash == capitalGain = takings + held.side * held.entry

(* A position outlives a bar only within its stop, target and time, on the *)
(* day's side of the forced close, and while the day's realised loss and   *)
(* trades are within their limits: the MAX_LOSS exit never has to decide.  *)
HoldingJustified ==
    held.side # 0 =>
        /\ held.since = Stamp(barDay, barSlot) \/ -StopLoss < Profit(held, close)
        /\ Profit(held, close) < TakeProfit
        /\ Stamp(barDay, barSlot) - held.since < TimeStop
        /\ barSlot \notin ForceSlots
        /\ MayTrade(dayPnl, dayTrades)

(* The strategy and the engine agree on the position until the engine      *)
(* first closes one on its own, which it never tells the strategy.         *)
ViewUntilOverruled == overruled = 0 => memory.view = held.side

(* A strategy gives a position up within MaxBars of the bars it is shown,  *)
(* whether its position is a real one or a phantom that the engine has     *)
(* long closed; only the hybrid one forgets it while it looks on.          *)
RuleTimeStop ==
    memory.view # 0 /\ ~(rule = "Hybrid" /\ AvoidMedium) => memory.bars < MaxBars

(* The four together, for every strategy and sequence of bars.             *)
BacktestSound ==
    /\ BacktestTypeOK
    /\ CapitalIsCash /\ HoldingJustified /\ ViewUntilOverruled /\ RuleTimeStop
=============================================================================
