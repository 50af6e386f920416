------------------------ MODULE TrendConfirmedProofs ------------------------
(***************************************************************************)
(* Theorems about TrendConfirmed: the trailing stop, the exits and the     *)
(* cooldown, for all prices, ATRs, multiples, caps and times, and that the *)
(* strategy keeps the promise of module Strategy.                          *)
(***************************************************************************)
EXTENDS TrendConfirmed, TLAPS

USE PositionAssumption, StrategyAssumption

Positions == [side : View, entry : Int, atr : Nat, stop : Int,
              target : Int, best : Int, age : 0..TimeCut]

(* The best price is never behind the entry.                               *)
BestIsAhead == HasPosition => Profit(position.side, position.entry, position.best) >= 0

(* The manager's cooldown ends no later than the recorded one.             *)
CooldownCovers == sinceStop <= sinceLoss

IInv ==
    /\ StrategyTypeOK /\ RiskCapped /\ BestIsAhead /\ CooldownCovers

-----------------------------------------------------------------------------
(* Helpers of the manager                                                  *)

(* The distance of a stop lies between nothing and the cap.                *)
LEMMA DistanceCapped ==
    ASSUME NEW a \in Nat
    PROVE  StopDistance(a) \in 0..MaxStop
<1>1. StopMultiple * a \in Nat
    OBVIOUS
<1> QED
    BY <1>1 DEF StopDistance

(* A position that is opened.                                              *)
LEMMA OpenedPosition ==
    ASSUME NEW side \in {"LONG", "SHORT"}, NEW price \in Int, NEW a \in Nat
    PROVE  LET pos == Opened(side, price, a)
           IN  /\ pos \in Positions /\ pos.side = side
               /\ Profit(side, pos.stop, pos.best) \in 0..MaxStop
               /\ Profit(side, pos.entry, pos.best) = 0
<1> DEFINE d == StopDistance(a)
           t == TargetMultiple * d
<1>1. d \in 0..MaxStop
    BY DistanceCapped
<1>2. t \in Int
    BY <1>1
<1> HIDE DEF d, t
<1>3. Opened(side, price, a) =
        [side |-> side, entry |-> price, atr |-> a, stop |-> Ahead(side, price, -d),
         target |-> Ahead(side, price, t), best |-> price, age |-> 0]
    BY DEF Opened, d, t
<1>4. Ahead(side, price, -d) \in Int /\ Ahead(side, price, t) \in Int
    BY <1>1, <1>2 DEF Ahead
<1>5. Profit(side, Ahead(side, price, -d), price) = d /\ Profit(side, price, price) = 0
    BY <1>1 DEF Profit, Ahead
<1> QED
    BY <1>1, <1>3, <1>4, <1>5 DEF Positions, View

(* What a bar does to an open position before the exits are looked at.     *)
LEMMA WatchedPosition ==
    ASSUME NEW pos \in Positions, pos.side # "FLAT",
           NEW price \in Int, NEW a \in Nat,
           Profit(pos.side, pos.stop, pos.best) \in 0..MaxStop,
           Profit(pos.side, pos.entry, pos.best) >= 0
    PROVE  LET w == Trailed(pos, price, a)
           IN  /\ w \in Positions
               /\ w.side = pos.side /\ w.entry = pos.entry /\ w.age = pos.age
               /\ w.target = pos.target /\ w.atr = pos.atr
               /\ Profit(pos.side, pos.stop, w.stop) >= 0
               /\ Profit(pos.side, w.stop, w.best) \in 0..MaxStop
               /\ Profit(pos.side, pos.entry, w.best) >= 0
<1> DEFINE d == StopDistance(a)
           new == Ahead(pos.side, price, -d)
           w == Trailed(pos, price, a)
<1>0. /\ pos.side \in {"LONG", "SHORT"} /\ pos.entry \in Int /\ pos.stop \in Int
      /\ pos.best \in Int /\ pos.target \in Int
    BY DEF Positions, View
<1>1. d \in 0..MaxStop
    BY DistanceCapped
<1> HIDE DEF d
<1>2. new \in Int /\ Profit(pos.side, new, price) = d
    BY <1>0, <1>1 DEF Ahead, Profit
<1>3. CASE Profit(pos.side, pos.best, price) > 0 /\ Profit(pos.side, pos.stop, new) > 0
    <2>1. w = [pos EXCEPT !.best = price, !.stop = new]
        BY <1>3 DEF Trailed, d
    <2>2. Profit(pos.side, pos.entry, price) >= 0
        BY <1>0, <1>3 DEF Profit
    <2> HIDE DEF new, w
    <2>3. /\ w \in Positions /\ w.best = price /\ w.stop = new
          /\ w.side = pos.side /\ w.entry = pos.entry /\ w.age = pos.age
          /\ w.target = pos.target /\ w.atr = pos.atr
        BY <1>2, <2>1 DEF Positions
    <2>4. /\ Profit(pos.side, pos.stop, w.stop) >= 0
          /\ Profit(pos.side, w.stop, w.best) \in 0..MaxStop
          /\ Profit(pos.side, pos.entry, w.best) >= 0
        BY <1>0, <1>1, <1>2, <1>3, <2>2, <2>3 DEF Profit
    <2> QED
        BY <2>3, <2>4 DEF w
<1>4. CASE Profit(pos.side, pos.best, price) > 0 /\ ~(Profit(pos.side, pos.stop, new) > 0)
    <2>1. w = [pos EXCEPT !.best = price, !.stop = pos.stop]
        BY <1>4 DEF Trailed, d
    <2>2. /\ Profit(pos.side, pos.entry, price) >= 0
          /\ Profit(pos.side, pos.stop, pos.stop) = 0
        BY <1>0, <1>4 DEF Profit
    <2>3. Profit(pos.side, pos.stop, price) \in 0..MaxStop
        <3>1. CASE pos.side = "LONG"
            BY <3>1, <1>0, <1>1, <1>2, <1>4 DEF Profit
        <3>2. CASE pos.side = "SHORT"
            BY <3>2, <1>0, <1>1, <1>2, <1>4 DEF Profit
        <3> QED
            BY <1>0, <3>1, <3>2
    <2> HIDE DEF new, w
    <2>4. /\ w \in Positions /\ w.best = price /\ w.stop = pos.stop
          /\ w.side = pos.side /\ w.entry = pos.entry /\ w.age = pos.age
          /\ w.target = pos.target /\ w.atr = pos.atr
        BY <1>0, <2>1 DEF Positions
    <2> QED
        BY <2>2, <2>3, <2>4 DEF w
<1>5. CASE ~(Profit(pos.side, pos.best, price) > 0)
    <2>1. w = pos
        BY <1>5 DEF Trailed
    <2>2. Profit(pos.side, pos.stop, pos.stop) = 0
        BY <1>0 DEF Profit
    <2> QED
        BY <2>1, <2>2
<1> QED
    BY <1>3, <1>4, <1>5

(* The same of the position held, which grows older besides.               *)
LEMMA WatchedHeld ==
    ASSUME IInv, HasPosition, NEW b \in Bar
    PROVE  LET w == Watched(b.close, b.atr, b.minutes)
           IN  /\ w \in Positions
               /\ w.side = position.side /\ w.entry = position.entry
               /\ w.target = position.target /\ w.atr = position.atr
               /\ Profit(position.side, position.stop, w.stop) >= 0
               /\ Profit(position.side, w.stop, w.best) \in 0..MaxStop
               /\ Profit(position.side, position.entry, w.best) >= 0
<1> DEFINE aged == [position EXCEPT !.age = Elapsed(@ + b.minutes, TimeCut)]
<1>1. b.close \in Int /\ b.atr \in Nat /\ b.minutes \in Nat
    BY DEF Bar
<1>2. position \in Positions
    BY DEF IInv, StrategyTypeOK, ManagerTypeOK, Positions
<1>3. Elapsed(position.age + b.minutes, TimeCut) \in 0..TimeCut
    <2>1. position.age \in 0..TimeCut
        BY <1>2 DEF Positions
    <2> QED
        BY <1>1, <2>1 DEF Elapsed
<1>4. /\ aged \in Positions /\ aged.side = position.side /\ aged.entry = position.entry
      /\ aged.stop = position.stop /\ aged.target = position.target
      /\ aged.best = position.best /\ aged.atr = position.atr
    BY <1>2, <1>3 DEF Positions
<1>5. Watched(b.close, b.atr, b.minutes) = Trailed(aged, b.close, b.atr)
    BY DEF Watched
<1>6. /\ aged.side # "FLAT"
      /\ Profit(aged.side, aged.stop, aged.best) \in 0..MaxStop
      /\ Profit(aged.side, aged.entry, aged.best) >= 0
    BY <1>4 DEF IInv, RiskCapped, BestIsAhead, HasPosition
<1> HIDE DEF aged
<1> QED
    BY <1>1, <1>4, <1>5, <1>6, WatchedPosition

-----------------------------------------------------------------------------
(* The inductive step, one lemma for each kind of bar                      *)

(* The entries of the cache keep their types when it is not looked at.     *)
LEMMA CacheUntouchedTypes ==
    ASSUME IInv, CacheUntouched
    PROVE  /\ cached' = cached /\ cacheBars' = cacheBars
           /\ cachedFor' \in 0..(CacheBars + 1) /\ basis' \in 0..(CacheBars + 1)
BY DEF IInv, StrategyTypeOK, CacheUntouched, Older, Elapsed

(* And when a prediction is made, used, or cannot be made.                 *)
LEMMA PredictTypes ==
    ASSUME IInv, NEW tb, Predict(tb)
    PROVE  /\ cached' \in Prediction \cup {"NONE"}
           /\ cacheBars' \in 0..(CacheBars + 1)
           /\ cached' # "NONE" => cacheBars' > 0
           /\ cachedFor' \in 0..(CacheBars + 1) /\ basis' \in 0..(CacheBars + 1)
<1> USE DEF IInv, StrategyTypeOK, Older, Elapsed
<1>1. CASE NoPredictor(tb)
    BY <1>1 DEF NoPredictor, CacheUntouched
<1>2. CASE UseCached(tb)
    BY <1>2 DEF UseCached, CanUseCache
<1>3. CASE Infer(tb)
    BY <1>3 DEF Infer
<1>4. CASE CannotInfer(tb)
    BY <1>4 DEF CannotInfer
<1>5. CASE InferenceRaises(tb)
    BY <1>5 DEF InferenceRaises
<1> QED
    BY <1>1, <1>2, <1>3, <1>4, <1>5 DEF Predict

(* Both clocks of the cooldown, when nothing is closed.                    *)
LEMMA ClocksTogether ==
    ASSUME IInv, NEW m \in Nat
    PROVE  /\ Elapsed(sinceStop + m, Cooldown) \in 0..Cooldown
           /\ Elapsed(sinceLoss + m, Cooldown) \in 0..Cooldown
           /\ Elapsed(sinceStop + m, Cooldown) <= Elapsed(sinceLoss + m, Cooldown)
           /\ sinceStop + m >= Cooldown => Elapsed(sinceLoss + m, Cooldown) = Cooldown
BY DEF IInv, StrategyTypeOK, ManagerTypeOK, CooldownCovers, Elapsed

(* A bar that keeps the position.                                          *)
LEMMA HoldOnStep ==
    ASSUME IInv, NEW b \in Bar, close' = b.close, HoldOn(b)
    PROVE  IInv'
<1> DEFINE w == Watched(b.close, b.atr, b.minutes)
<1>1. HasPosition /\ position' = w
    BY DEF HoldOn, KeepPosition
<1>2. /\ w \in Positions /\ w.side = position.side /\ w.entry = position.entry
      /\ Profit(position.side, w.stop, w.best) \in 0..MaxStop
      /\ Profit(position.side, position.entry, w.best) >= 0
    BY <1>1, WatchedHeld
<1> HIDE DEF w
<1>3. b.close \in Int /\ b.minutes \in Nat
    BY DEF Bar
<1>4. /\ sinceStop' = Elapsed(sinceStop + b.minutes, Cooldown)
      /\ sinceLoss' = Elapsed(sinceLoss + b.minutes, Cooldown)
    BY DEF HoldOn, KeepPosition
<1>5. sinceStop' = Cooldown
    BY <1>1, <1>3, <1>4 DEF IInv, StrategyTypeOK, ManagerTypeOK, Elapsed
<1>6. /\ sinceStop' \in 0..Cooldown /\ sinceLoss' \in 0..Cooldown /\ sinceStop' <= sinceLoss'
    BY <1>3, <1>4, ClocksTogether
<1>7. warm' = warm /\ predictor' = predictor /\ signal' \in Signal \cup {"LOST"}
    BY DEF HoldOn, Answer, Signal
<1>8. /\ cached' = cached /\ cacheBars' = cacheBars
      /\ cachedFor' \in 0..(CacheBars + 1) /\ basis' \in 0..(CacheBars + 1)
    BY CacheUntouchedTypes DEF HoldOn
<1>9. StrategyTypeOK'
    BY <1>1, <1>2, <1>3, <1>5, <1>6, <1>7, <1>8
       DEF IInv, StrategyTypeOK, ManagerTypeOK, Positions, HasPosition
<1>10. RiskCapped' /\ BestIsAhead'
    BY <1>1, <1>2 DEF RiskCapped, BestIsAhead
<1> QED
    BY <1>6, <1>9, <1>10 DEF IInv, CooldownCovers

(* The watched target is the position's: both records of the exit agree.   *)
LEMMA TargetUnmoved ==
    ASSUME IInv, HasPosition, NEW b \in Bar
    PROVE  TargetReached(Watched(b.close, b.atr, b.minutes), b.close)
             <=> TargetReached(position, b.close)
BY WatchedHeld DEF TargetReached

(* A bar that closes the position.                                         *)
LEMMA GetOutStep ==
    ASSUME IInv, NEW b \in Bar, close' = b.close, GetOut(b)
    PROVE  IInv'
<1> DEFINE w == Watched(b.close, b.atr, b.minutes)
           reason == ExitReason(w, b.close)
<1>1. HasPosition /\ reason # "NONE" /\ position' = NoPosition
    BY DEF GetOut, ClosePosition
<1>2. b.close \in Int /\ b.minutes \in Nat
    BY DEF Bar
<1>3. /\ sinceStop' = IF reason \in {"ATR_STOP", "TIME_CUT"} THEN 0
                      ELSE Elapsed(sinceStop + b.minutes, Cooldown)
      /\ sinceLoss' = IF TargetReached(position, b.close)
                      THEN Elapsed(sinceLoss + b.minutes, Cooldown) ELSE 0
    BY DEF GetOut, ClosePosition
<1>4. TargetReached(position, b.close) <=> reason \notin {"ATR_STOP", "TIME_CUT"}
    BY <1>1, TargetUnmoved DEF ExitReason
<1> HIDE DEF reason
<1>5. /\ sinceStop' \in 0..Cooldown /\ sinceLoss' \in 0..Cooldown /\ sinceStop' <= sinceLoss'
    BY <1>2, <1>3, <1>4, ClocksTogether
<1>6. warm' = warm /\ predictor' = predictor /\ signal' \in Signal \cup {"LOST"}
    BY DEF GetOut, Answer, Signal
<1>7. /\ cached' = cached /\ cacheBars' = cacheBars
      /\ cachedFor' \in 0..(CacheBars + 1) /\ basis' \in 0..(CacheBars + 1)
    BY CacheUntouchedTypes DEF GetOut
<1>8. ~HasPosition'
    BY <1>1 DEF HasPosition, NoPosition
<1>9. position' \in Positions
    BY <1>1 DEF NoPosition, Positions, View
<1>10. StrategyTypeOK'
    BY <1>2, <1>5, <1>6, <1>7, <1>8, <1>9
       DEF IInv, StrategyTypeOK, ManagerTypeOK, Positions
<1> QED
    BY <1>5, <1>8, <1>10 DEF IInv, CooldownCovers, RiskCapped, BestIsAhead

(* A bar without a position that stays so.                                 *)
LEMMA FlatStep ==
    ASSUME IInv, NEW b \in Bar, close' = b.close, WarmUp(b) \/ StayOut(b)
    PROVE  IInv'
<1>1. b.close \in Int /\ b.minutes \in Nat
    BY DEF Bar
<1>2. /\ ~HasPosition /\ position' = position
      /\ sinceStop' = Elapsed(sinceStop + b.minutes, Cooldown)
      /\ sinceLoss' = Elapsed(sinceLoss + b.minutes, Cooldown)
    BY DEF WarmUp, StayOut, StayFlat
<1>3. /\ sinceStop' \in 0..Cooldown /\ sinceLoss' \in 0..Cooldown /\ sinceStop' <= sinceLoss'
    BY <1>1, <1>2, ClocksTogether
<1>4. warm' \in BOOLEAN /\ predictor' = predictor /\ signal' \in Signal \cup {"LOST"}
    BY DEF WarmUp, StayOut, Answer, Signal, IInv, StrategyTypeOK
<1>5. /\ cached' \in Prediction \cup {"NONE"}
      /\ cacheBars' \in 0..(CacheBars + 1)
      /\ cached' # "NONE" => cacheBars' > 0
      /\ cachedFor' \in 0..(CacheBars + 1) /\ basis' \in 0..(CacheBars + 1)
    BY CacheUntouchedTypes, PredictTypes DEF WarmUp, StayOut, IInv, StrategyTypeOK
<1>6. ~HasPosition'
    BY <1>2 DEF HasPosition
<1>7. StrategyTypeOK'
    BY <1>1, <1>2, <1>3, <1>4, <1>5, <1>6 DEF IInv, StrategyTypeOK, ManagerTypeOK
<1> QED
    BY <1>3, <1>6, <1>7 DEF IInv, CooldownCovers, RiskCapped, BestIsAhead

(* A bar that opens a position.                                            *)
LEMMA GetInStep ==
    ASSUME IInv, NEW b \in Bar, close' = b.close, GetIn(b)
    PROVE  IInv'
<1>0. PICK tb \in Prediction \cup {"NONE"} : \E side \in EntrySides(tb) :
        /\ Predict(tb)
        /\ OpenPosition(side, Ahead(side, b.close, b.half), b.atr, b.minutes)
        /\ Answer(IF side = "LONG" THEN "BUY" ELSE "SELL")
    BY DEF GetIn
<1>1. PICK side \in EntrySides(tb) :
        /\ Predict(tb)
        /\ OpenPosition(side, Ahead(side, b.close, b.half), b.atr, b.minutes)
        /\ Answer(IF side = "LONG" THEN "BUY" ELSE "SELL")
    BY <1>0
<1> DEFINE price == Ahead(side, b.close, b.half)
<1>2. b.close \in Int /\ b.half \in Nat /\ b.atr \in Nat /\ b.minutes \in Nat
    BY DEF Bar
<1>3. side \in {"LONG", "SHORT"}
    BY DEF EntrySides, Prediction
<1>4. price \in Int
    BY <1>2 DEF Ahead
<1>5. position' = Opened(side, price, b.atr) /\ sinceStop' = Cooldown
    BY <1>1 DEF OpenPosition
<1> HIDE DEF price
<1>6. /\ position' \in Positions /\ position'.side = side
      /\ Profit(side, position'.stop, position'.best) \in 0..MaxStop
      /\ Profit(side, position'.entry, position'.best) = 0
    <2>1. b.atr \in Nat
        BY <1>2
    <2> DEFINE pos == Opened(side, price, b.atr)
    <2>2. /\ pos \in Positions /\ pos.side = side
          /\ Profit(side, pos.stop, pos.best) \in 0..MaxStop
          /\ Profit(side, pos.entry, pos.best) = 0
        BY <1>3, <1>4, <2>1, OpenedPosition
    <2> HIDE DEF pos
    <2>3. position' = pos
        BY <1>5 DEF pos
    <2> QED
        BY <2>2, <2>3
<1>7. sinceLoss' = Cooldown
    BY <1>1, <1>2, ClocksTogether DEF GetIn, OpenPosition
<1>8. warm' /\ predictor' = predictor /\ signal' \in Signal \cup {"LOST"}
    BY <1>1 DEF GetIn, Answer, Signal
<1>9. /\ cached' \in Prediction \cup {"NONE"}
      /\ cacheBars' \in 0..(CacheBars + 1)
      /\ cached' # "NONE" => cacheBars' > 0
      /\ cachedFor' \in 0..(CacheBars + 1) /\ basis' \in 0..(CacheBars + 1)
    BY <1>1, PredictTypes
<1>10. warm' \in BOOLEAN
    BY DEF GetIn, IInv, StrategyTypeOK
<1>11. StrategyTypeOK'
    BY <1>2, <1>5, <1>6, <1>7, <1>8, <1>9, <1>10
       DEF IInv, StrategyTypeOK, ManagerTypeOK, Positions
<1>12. RiskCapped' /\ BestIsAhead'
    BY <1>6 DEF RiskCapped, BestIsAhead
<1> QED
    BY <1>5, <1>7, <1>11, <1>12 DEF IInv, CooldownCovers

(* The invariant holds initially.                                          *)
LEMMA InitInvariant == StrategyInit => IInv
<1> SUFFICES ASSUME StrategyInit PROVE IInv
    OBVIOUS
<1>1. ~HasPosition /\ position \in Positions
    BY DEF StrategyInit, ManagerInit, HasPosition, NoPosition, Positions, View
<1>2. warm \in BOOLEAN /\ predictor \in BOOLEAN
    BY DEF StrategyInit
<1>3. /\ cached = "NONE" /\ cacheBars = 0 /\ cachedFor = 0 /\ basis = 0
      /\ close = 0 /\ signal = "HOLD" /\ sinceStop = Cooldown /\ sinceLoss = Cooldown
    BY DEF StrategyInit, ManagerInit
<1>4. ManagerTypeOK
    BY <1>1, <1>3 DEF ManagerTypeOK, Positions
<1>5. StrategyTypeOK
    BY <1>1, <1>2, <1>3, <1>4 DEF StrategyTypeOK, Signal
<1> QED
    BY <1>1, <1>3, <1>5 DEF IInv, RiskCapped, BestIsAhead, CooldownCovers

(* Every bar preserves it.                                                 *)
LEMMA NextInvariant == IInv /\ [StrategyNext]_strategyVars => IInv'
<1> SUFFICES ASSUME IInv, [StrategyNext]_strategyVars PROVE IInv'
    OBVIOUS
<1>1. CASE StrategyNext
    BY <1>1, HoldOnStep, GetOutStep, FlatStep, GetInStep DEF StrategyNext
<1>2. CASE UNCHANGED strategyVars
    BY <1>2 DEF strategyVars, managerVars, cache, IInv, StrategyTypeOK, ManagerTypeOK,
                RiskCapped, BestIsAhead, CooldownCovers, HasPosition
<1> QED
    BY <1>1, <1>2

-----------------------------------------------------------------------------
(* Theorems                                                                *)

(* The strengthened invariant holds in every reachable state.              *)
THEOREM StrategyInvariant == StrategySpec => []IInv
BY InitInvariant, NextInvariant, PTL DEF StrategySpec

(* Types, and: a position only in a warm strategy after its cooldown.      *)
THEOREM StrategyTypeCorrect == StrategySpec => []StrategyTypeOK
<1>1. IInv => StrategyTypeOK
    BY DEF IInv
<1> QED
    BY <1>1, StrategyInvariant, PTL

(* The stop is never further from the best price than the risk cap.        *)
THEOREM RiskIsCapped == StrategySpec => []RiskCapped
<1>1. IInv => RiskCapped
    BY DEF IInv
<1> QED
    BY <1>1, StrategyInvariant, PTL

(* The hard loss limit never decides an exit: with a stop at most MaxStop  *)
(* behind a best price that is never behind the entry, a loss of half as   *)
(* much again lies beyond the stop.                                        *)
THEOREM HardLimitIsRedundant == StrategySpec => []StopBeforeHardLimit
<1>1. IInv => StopBeforeHardLimit
    <2> SUFFICES ASSUME IInv, HasPosition, NEW p \in Price, LossTooLarge(position, p)
                 PROVE  StopHit(position, p)
        BY DEF StopBeforeHardLimit
    <2>1. /\ position.side \in {"LONG", "SHORT"} /\ position.entry \in Int
          /\ position.stop \in Int /\ position.best \in Int /\ p \in Int
        BY DEF IInv, StrategyTypeOK, ManagerTypeOK, HasPosition, View
    <2>2. /\ Profit(position.side, position.stop, position.best) \in 0..MaxStop
          /\ Profit(position.side, position.entry, position.best) >= 0
        BY DEF IInv, RiskCapped, BestIsAhead
    <2>3. CASE position.side = "LONG"
        BY <2>1, <2>2, <2>3 DEF LossTooLarge, StopHit, Profit
    <2>4. CASE position.side = "SHORT"
        BY <2>1, <2>2, <2>4 DEF LossTooLarge, StopHit, Profit
    <2> QED
        BY <2>1, <2>3, <2>4
<1> QED
    BY <1>1, StrategyInvariant, PTL

(* A position before and after a bar is one that the bar has kept.         *)
LEMMA OnlyHoldOnKeeps ==
    ASSUME StrategyNext, HasPosition, HasPosition'
    PROVE  \E b \in Bar : close' = b.close /\ HoldOn(b)
<1>1. PICK b \in Bar :
        /\ close' = b.close
        /\ HoldOn(b) \/ GetOut(b) \/ WarmUp(b) \/ GetIn(b) \/ StayOut(b)
    BY DEF StrategyNext
<1>2. ~GetOut(b)
    BY DEF GetOut, ClosePosition, HasPosition, NoPosition
<1>3. ~WarmUp(b) /\ ~GetIn(b) /\ ~StayOut(b)
    BY DEF WarmUp, GetIn, StayOut, StayFlat, OpenPosition
<1> QED
    BY <1>1, <1>2, <1>3

(* "Never move stop backwards".                                            *)
THEOREM StopNeverBackwards == StrategySpec => StopOnlyTightens
<1>1. ASSUME IInv, StrategyNext, HasPosition, HasPosition'
      PROVE  /\ Profit(position.side, position.stop, position'.stop) >= 0
             /\ position'.side = position.side
             /\ position'.entry = position.entry
             /\ position'.target = position.target
    <2>1. PICK b \in Bar : close' = b.close /\ HoldOn(b)
        BY <1>1, OnlyHoldOnKeeps
    <2>2. position' = Watched(b.close, b.atr, b.minutes)
        BY <2>1 DEF HoldOn, KeepPosition
    <2> QED
        BY <1>1, <2>2, WatchedHeld
<1>2. IInv /\ [StrategyNext]_strategyVars =>
        [HasPosition /\ HasPosition' =>
           /\ Profit(position.side, position.stop, position'.stop) >= 0
           /\ position'.side = position.side
           /\ position'.entry = position.entry
           /\ position'.target = position.target]_strategyVars
    BY <1>1
<1> QED
    BY <1>2, StrategyInvariant, PTL DEF StrategySpec, StopOnlyTightens

(* What is held closed inside its stop and target, and in time.            *)
THEOREM HeldJustified == StrategySpec => HeldIsJustified
<1>1. ASSUME IInv, StrategyNext, HasPosition, HasPosition'
      PROVE  /\ Profit(position.side, position'.stop, close') > 0
             /\ Profit(position.side, close', position.target) > 0
             /\ position'.age = TimeCut =>
                  Profit(position.side, position.entry, close') >= MinMove * position.atr
    <2>1. PICK b \in Bar : close' = b.close /\ HoldOn(b)
        BY <1>1, OnlyHoldOnKeeps
    <2> DEFINE w == Watched(b.close, b.atr, b.minutes)
    <2>2. position' = w /\ ExitReason(w, b.close) = "NONE"
        BY <2>1 DEF HoldOn, KeepPosition
    <2>3. /\ w \in Positions /\ w.side = position.side /\ w.entry = position.entry
          /\ w.target = position.target /\ w.atr = position.atr
        BY <1>1, WatchedHeld
    <2> HIDE DEF w
    <2>4. ~TargetReached(w, b.close) /\ ~StopHit(w, b.close) /\ ~TimeIsUp(w, b.close)
        BY <2>2 DEF ExitReason
    <2>5. /\ b.close \in Int /\ w.side \in {"LONG", "SHORT"} /\ w.stop \in Int
          /\ w.target \in Int /\ w.entry \in Int /\ w.atr \in Nat /\ w.age \in 0..TimeCut
        BY <1>1, <2>3 DEF Bar, Positions, HasPosition, View
    <2>6. Profit(w.side, w.stop, b.close) > 0 /\ Profit(w.side, b.close, w.target) > 0
        <3>1. CASE w.side = "LONG"
            BY <2>4, <2>5, <3>1 DEF TargetReached, StopHit, Profit
        <3>2. CASE w.side = "SHORT"
            BY <2>4, <2>5, <3>2 DEF TargetReached, StopHit, Profit
        <3> QED
            BY <2>5, <3>1, <3>2
    <2>7. w.age = TimeCut => Profit(w.side, w.entry, b.close) >= MinMove * w.atr
        <3>1. Profit(w.side, w.entry, b.close) \in Int /\ MinMove * w.atr \in Int
            BY <2>5 DEF Profit
        <3> QED
            BY <2>4, <2>5, <3>1 DEF TimeIsUp
    <2> QED
        BY <2>1, <2>2, <2>3, <2>6, <2>7
<1>2. IInv /\ [StrategyNext]_strategyVars =>
        [HasPosition /\ HasPosition' =>
           /\ Profit(position.side, position'.stop, close') > 0
           /\ Profit(position.side, close', position.target) > 0
           /\ position'.age = TimeCut =>
                Profit(position.side, position.entry, close') >= MinMove * position.atr
        ]_strategyVars
    BY <1>1
<1> QED
    BY <1>2, StrategyInvariant, PTL DEF StrategySpec, HeldIsJustified

(* No entry within the cooldown of an exit short of the target.            *)
THEOREM CooldownIsKept == StrategySpec => CooldownKept
<1>1. ASSUME IInv, StrategyNext, ~HasPosition, HasPosition'
      PROVE  sinceLoss' = Cooldown
    <2>1. PICK b \in Bar :
            HoldOn(b) \/ GetOut(b) \/ WarmUp(b) \/ GetIn(b) \/ StayOut(b)
        BY <1>1 DEF StrategyNext
    <2>2. ~HoldOn(b) /\ ~GetOut(b)
        BY <1>1 DEF HoldOn, KeepPosition, GetOut, ClosePosition
    <2>3. ~WarmUp(b) /\ ~StayOut(b)
        BY <1>1 DEF WarmUp, StayOut, StayFlat, HasPosition
    <2>4. GetIn(b) /\ b.minutes \in Nat
        BY <2>1, <2>2, <2>3 DEF Bar
    <2>5. sinceStop + b.minutes >= Cooldown
        BY <2>4 DEF GetIn, OpenPosition
    <2>6. sinceLoss' = Elapsed(sinceLoss + b.minutes, Cooldown)
        BY <2>4 DEF GetIn
    <2> QED
        BY <1>1, <2>4, <2>5, <2>6, ClocksTogether
<1>2. IInv /\ [StrategyNext]_strategyVars =>
        [~HasPosition /\ HasPosition' => sinceLoss' = Cooldown]_strategyVars
    BY <1>1
<1> QED
    BY <1>2, StrategyInvariant, PTL DEF StrategySpec, CooldownKept

(* The strategy implements module Strategy, a signal to trade being the    *)
(* change of its position.                                                 *)
THEOREM RefinesStrategy == StrategySpec => ImplementsStrategy
<1>1. StrategyInit => Promise!Init
    BY DEF StrategyInit, ManagerInit, NoPosition, Promise!Init
<1>2. ASSUME IInv, StrategyNext
      PROVE  Promise!Next
    <2>1. PICK b \in Bar :
            /\ close' = b.close
            /\ HoldOn(b) \/ GetOut(b) \/ WarmUp(b) \/ GetIn(b) \/ StayOut(b)
        BY <1>2 DEF StrategyNext
    <2>2. position.side \in View
        BY <1>2 DEF IInv, StrategyTypeOK, ManagerTypeOK
    <2>3. SUFFICES \E a \in Answers(position.side) :
                     position'.side = a[2] /\ signal' \in {a[1], "LOST"}
        BY DEF Promise!Next, Promise!Answers, Answers
    <2>4. <<"HOLD", position.side>> \in Answers(position.side)
        BY <2>2 DEF Answers, View
    <2>5. CASE position'.side = position.side /\ Answer("HOLD")
        BY <2>4, <2>5 DEF Answer
    <2>6. CASE HoldOn(b)
        <3>1. position' = Watched(b.close, b.atr, b.minutes) /\ HasPosition /\ Answer("HOLD")
            BY <2>6 DEF HoldOn, KeepPosition
        <3> QED
            BY <1>2, <2>5, <3>1, WatchedHeld
    <2>7. CASE WarmUp(b) \/ StayOut(b)
        BY <2>5, <2>7 DEF WarmUp, StayOut, StayFlat
    <2>8. CASE GetOut(b)
        <3>1. /\ position'.side = "FLAT" /\ position.side \in {"LONG", "SHORT"}
              /\ Answer(IF position.side = "LONG" THEN "SELL" ELSE "BUY")
            BY <2>2, <2>8 DEF GetOut, ClosePosition, NoPosition, HasPosition, View
        <3>2. CASE position.side = "LONG"
            BY <3>1, <3>2 DEF Answers, Answer
        <3>3. CASE position.side = "SHORT"
            BY <3>1, <3>3 DEF Answers, Answer
        <3> QED
            BY <3>1, <3>2, <3>3
    <2>9. CASE GetIn(b)
        <3>1. PICK side \in {"LONG", "SHORT"} :
                /\ OpenPosition(side, Ahead(side, b.close, b.half), b.atr, b.minutes)
                /\ Answer(IF side = "LONG" THEN "BUY" ELSE "SELL")
            BY <2>9 DEF GetIn, EntrySides
        <3>2. position'.side = side /\ position.side = "FLAT"
            BY <3>1 DEF OpenPosition, Opened, HasPosition
        <3>3. CASE side = "LONG"
            BY <3>1, <3>2, <3>3 DEF Answers, Answer
        <3>4. CASE side = "SHORT"
            BY <3>1, <3>2, <3>4 DEF Answers, Answer
        <3> QED
            BY <3>3, <3>4
    <2> QED
        BY <2>1, <2>6, <2>7, <2>8, <2>9
<1>3. UNCHANGED strategyVars => UNCHANGED <<position.side, signal>>
    BY DEF strategyVars, managerVars
<1>4. IInv /\ [StrategyNext]_strategyVars => [Promise!Next]_<<position.side, signal>>
    BY <1>2, <1>3
<1> QED
    BY <1>1, <1>4, StrategyInvariant, PTL DEF StrategySpec, ImplementsStrategy, Promise!Spec
=============================================================================
