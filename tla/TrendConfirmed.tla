--------------------------- MODULE TrendConfirmed ---------------------------
(***************************************************************************)
(* TrendConfirmedStrategy of src/strategy/strategies/trend_confirmed.py,   *)
(* with the TrendEngine it falls back on (src/strategy/trend/              *)
(* trend_engine.py): what happens on one bar.                              *)
(*                                                                         *)
(* Outside: the closing price, spread and ATR of the bar, the minutes      *)
(* since the bar before, what the triple-barrier network predicts, and     *)
(* what the ensemble filter makes of probabilities and indicators.         *)
(***************************************************************************)
EXTENDS TrendPosition

CONSTANTS HalfSpread,   \* half of the spread of a bar, in ticks
          Minutes,      \* minutes from one bar to the next
          CacheBars     \* triple_barrier_cache_bars

ASSUME StrategyAssumption ==
    /\ HalfSpread \subseteq Nat /\ Minutes \subseteq Nat
    /\ CacheBars \in Nat \ {0}

VARIABLES
    warm,       \* the indicators are ready from the next bar on
    predictor,  \* the triple-barrier model was loaded
    cached,     \* _tb_cache_result's signal, or "NONE"
    cacheBars,  \* _tb_cache_bar_count, capped
    close,      \* _current_bar.close
    signal,     \* what generate_signal() returned, or "LOST" when it raised
    cachedFor,  \* history: bars since the cached prediction was made, capped
    basis,      \* history: its age when the last bar used it, or 0
    sinceLoss   \* history: minutes since an exit short of the target, capped

cache == <<cached, cacheBars, cachedFor, basis>>
strategyVars == <<managerVars, warm, predictor, cache, close, signal, sinceLoss>>

Bar == [close : Price, half : HalfSpread, atr : Atr, minutes : Minutes]

Prediction == {"BUY", "SELL", "HOLD"}

(* Besides their types: only a warm strategy has a position, its cooldown  *)
(* is over, and a cached prediction has been counted.                      *)
StrategyTypeOK ==
    /\ ManagerTypeOK
    /\ HasPosition => warm /\ sinceStop = Cooldown
    /\ cached # "NONE" => cacheBars > 0
    /\ warm \in BOOLEAN /\ predictor \in BOOLEAN
    /\ cached \in Prediction \cup {"NONE"}
    /\ cacheBars \in 0..(CacheBars + 1)
    /\ close \in Int /\ signal \in Signal \cup {"LOST"}
    /\ cachedFor \in 0..(CacheBars + 1) /\ basis \in 0..(CacheBars + 1)
    /\ sinceLoss \in 0..Cooldown

StrategyInit ==
    /\ ManagerInit
    /\ warm = FALSE /\ predictor \in BOOLEAN
    /\ cached = "NONE" /\ cacheBars = 0
    /\ close = 0 /\ signal = "HOLD"
    /\ cachedFor = 0 /\ basis = 0 /\ sinceLoss = Cooldown

(* The notification and the metrics come last; they may raise.             *)
Answer(s) == signal' \in {s, "LOST"}

Older(n) == Elapsed(n + 1, CacheBars + 1)

-----------------------------------------------------------------------------
(* A bar with a position                                                   *)

(* The prediction and its count are not looked at.                         *)
CacheUntouched ==
    /\ UNCHANGED <<cached, cacheBars>>
    /\ cachedFor' = Older(cachedFor) /\ basis' = 0

HoldOn(b) ==
    /\ KeepPosition(b.close, b.atr, b.minutes)
    /\ Answer("HOLD")
    /\ CacheUntouched
    /\ sinceLoss' = Elapsed(sinceLoss + b.minutes, Cooldown)
    /\ UNCHANGED <<warm, predictor>>

(* The signal for the side of the position instead of against it.          *)
GetOutAgain(b) ==
    /\ ClosePosition(b.close, b.atr, b.minutes)
    /\ Answer(IF position.side = "LONG" THEN "BUY" ELSE "SELL")
    /\ CacheUntouched
    /\ sinceLoss' = IF TargetReached(position, b.close)
                    THEN Elapsed(sinceLoss + b.minutes, Cooldown) ELSE 0
    /\ UNCHANGED <<warm, predictor>>

GetOut(b) ==
    /\ ClosePosition(b.close, b.atr, b.minutes)
    /\ Answer(IF position.side = "LONG" THEN "SELL" ELSE "BUY")
    /\ CacheUntouched
    /\ sinceLoss' = IF TargetReached(position, b.close)
                    THEN Elapsed(sinceLoss + b.minutes, Cooldown) ELSE 0
    /\ UNCHANGED <<warm, predictor>>

-----------------------------------------------------------------------------
(* A bar without                                                           *)

WarmUp(b) ==
    /\ ~warm
    /\ StayFlat(b.minutes)
    /\ Answer("HOLD")
    /\ CacheUntouched
    /\ sinceLoss' = Elapsed(sinceLoss + b.minutes, Cooldown)
    /\ warm' \in BOOLEAN
    /\ UNCHANGED predictor

(* The triple-barrier prediction for a bar: `tb` is its signal, or "NONE". *)
NoPredictor(tb) ==
    /\ ~predictor /\ tb = "NONE"
    /\ CacheUntouched

CanUseCache == cached # "NONE" /\ Older(cacheBars) <= CacheBars

UseCached(tb) ==
    /\ predictor /\ CanUseCache /\ tb = cached
    /\ cacheBars' = Older(cacheBars)
    /\ cachedFor' = Older(cachedFor) /\ basis' = Older(cachedFor)
    /\ UNCHANGED cached

Infer(tb) ==
    /\ predictor /\ ~CanUseCache /\ tb \in Prediction
    /\ cached' = tb /\ cacheBars' = 1
    /\ cachedFor' = 0 /\ basis' = 0

(* Too few bars, or one with a price of 0: no inference is made.           *)
CannotInfer(tb) ==
    /\ predictor /\ ~CanUseCache /\ tb = "NONE"
    /\ cacheBars' = Older(cacheBars)
    /\ cachedFor' = Older(cachedFor) /\ basis' = 0
    /\ UNCHANGED cached

InferenceRaises(tb) ==
    /\ predictor /\ ~CanUseCache /\ tb = "NONE"
    /\ cached' = "NONE" /\ cacheBars' = Older(cacheBars)
    /\ cachedFor' = Older(cachedFor) /\ basis' = 0

Predict(tb) ==
    \/ NoPredictor(tb) \/ UseCached(tb) \/ Infer(tb)
    \/ CannotInfer(tb) \/ InferenceRaises(tb)

(* The sides that may be entered: the prediction's, or else any that the   *)
(* ensemble filter of TrendEngine.check() or check_multi_horizon() passes. *)
EntrySides(tb) ==
    CASE tb = "BUY"  -> {"LONG"}
      [] tb = "SELL" -> {"SHORT"}
      [] OTHER       -> {"LONG", "SHORT"}

(* At the ask for a long, at the bid for a short position.                 *)
GetIn(b) ==
    /\ warm
    /\ \E tb \in Prediction \cup {"NONE"} : \E side \in EntrySides(tb) :
         /\ Predict(tb)
         /\ OpenPosition(side, Ahead(side, b.close, b.half), b.atr, b.minutes)
         /\ Answer(IF side = "LONG" THEN "BUY" ELSE "SELL")
    /\ sinceLoss' = Elapsed(sinceLoss + b.minutes, Cooldown)
    /\ UNCHANGED <<warm, predictor>>

(* In the cooldown, or rejected by the ensemble filter.                    *)
StayOut(b) ==
    /\ warm
    /\ \E tb \in Prediction \cup {"NONE"} :
         /\ Predict(tb)
         /\ tb \in {"BUY", "SELL"} => sinceStop + b.minutes < Cooldown
    /\ StayFlat(b.minutes)
    /\ Answer("HOLD")
    /\ sinceLoss' = Elapsed(sinceLoss + b.minutes, Cooldown)
    /\ UNCHANGED <<warm, predictor>>

StrategyNext ==
    \E b \in Bar :
        /\ close' = b.close
        /\ HoldOn(b) \/ GetOut(b) \/ WarmUp(b) \/ GetIn(b) \/ StayOut(b)

StrategySpec == StrategyInit /\ [][StrategyNext]_strategyVars

-----------------------------------------------------------------------------
(* Properties                                                              *)

(* However the ATR moves, the stop is never further from the best price of *)
(* the position than the risk cap, nor beyond it.                          *)
RiskCapped ==
    HasPosition => Profit(position.side, position.stop, position.best) \in 0..MaxStop

(* "Never move stop backwards": while a position is held its stop moves    *)
(* only in its favour, its target and its entry not at all.                *)
StopOnlyTightens ==
    [][HasPosition /\ HasPosition' =>
         /\ Profit(position.side, position.stop, position'.stop) >= 0
         /\ position'.side = position.side
         /\ position'.entry = position.entry
         /\ position'.target = position.target]_strategyVars

(* A position that outlives a bar closed it strictly between the stop, as  *)
(* the bar itself has moved it, and the target; and it has moved far       *)
(* enough once its time is up.                                             *)
HeldIsJustified ==
    [][HasPosition /\ HasPosition' =>
         /\ Profit(position.side, position'.stop, close') > 0
         /\ Profit(position.side, close', position.target) > 0
         /\ position'.age = TimeCut =>
               Profit(position.side, position.entry, close') >= MinMove * position.atr
      ]_strategyVars

(* The hard loss limit, "circuit breaker for gaps", never decides: at any  *)
(* price beyond it the stop is hit as well, with the same reason.          *)
StopBeforeHardLimit ==
    HasPosition => \A p \in Price : LossTooLarge(position, p) => StopHit(position, p)

(* After an exit short of the target nothing is entered for the cooldown,  *)
(* whichever of the two ways into a position asks for it.                  *)
CooldownKept ==
    [][~HasPosition /\ HasPosition' => sinceLoss' = Cooldown]_strategyVars

Promise == INSTANCE Strategy WITH view <- position.side

(* The strategy keeps the promise of module Strategy: its signals and its  *)
(* position change together, unless the bar's handling raises.             *)
ImplementsStrategy == Promise!Spec

(* "Cache prediction for N bars": what a position is entered on was        *)
(* predicted at most CacheBars bars before.  The count is advanced on bars *)
(* without a position only, so that a prediction survives a position of    *)
(* any length, and one closed at its target leaves no cooldown behind.     *)
EntryIsRecent == HasPosition => basis <= CacheBars
=============================================================================
