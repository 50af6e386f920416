---------------------------- MODULE TrendPosition ----------------------------
(***************************************************************************)
(* TrendPositionManager of src/strategy/trend/position_manager.py: the one *)
(* position of the trend strategy with its trailing stop, its target, its  *)
(* time cut, and the cooldown after a losing exit.                         *)
(*                                                                         *)
(* Prices are in ticks, time in minutes.  The code keeps timestamps and    *)
(* looks only at differences; the model keeps the differences, each capped *)
(* where the code stops telling them apart.  highest_price and             *)
(* lowest_price are one field, `best`: the manager reads only the one on   *)
(* the position's side.  Statistics and realised profit are left out.      *)
(***************************************************************************)
EXTENDS Integers, Signals

CONSTANTS Price,            \* prices a bar may close at
          Atr,              \* values of the average true range
          StopMultiple,     \* atr_stop_multiplier
          MaxStop,          \* max_stop_points
          TargetMultiple,   \* take_profit_multiplier
          MinMove,          \* time_cut_atr_threshold
          TimeCut,          \* time_cut_minutes
          Cooldown          \* stop_cooldown_minutes

ASSUME PositionAssumption ==
    /\ Price \subseteq Int /\ Atr \subseteq Nat
    /\ StopMultiple \in Nat /\ MaxStop \in Nat /\ TargetMultiple \in Nat
    /\ MinMove \in Nat /\ TimeCut \in Nat /\ Cooldown \in Nat

VARIABLES
    position,   \* self._position; its side is FLAT when there is none
    sinceStop   \* minutes since _last_stop_time; Cooldown when there is none

managerVars == <<position, sinceStop>>

NoPosition == [side |-> "FLAT", entry |-> 0, atr |-> 0, stop |-> 0,
               target |-> 0, best |-> 0, age |-> 0]

HasPosition == position.side # "FLAT"

ManagerTypeOK ==
    /\ position \in [side : View, entry : Int, atr : Nat, stop : Int,
                     target : Int, best : Int, age : 0..TimeCut]
    /\ sinceStop \in 0..Cooldown

ManagerInit ==
    /\ position = NoPosition
    /\ sinceStop = Cooldown

-----------------------------------------------------------------------------
(* Prices seen from a side                                                 *)

(* unrealized_pnl(): how far q lies from p in the side's favour.           *)
Profit(side, p, q) == IF side = "LONG" THEN q - p ELSE p - q

(* The price d ticks from p in the side's favour.                          *)
Ahead(side, p, d) == IF side = "LONG" THEN p + d ELSE p - d

(* The distance without the risk cap.                                      *)
StopDistanceUncapped(atr) == StopMultiple * atr

StopDistance(atr) ==
    IF StopMultiple * atr < MaxStop THEN StopMultiple * atr ELSE MaxStop

Elapsed(minutes, limit) == IF minutes < limit THEN minutes ELSE limit

-----------------------------------------------------------------------------
(* The position                                                            *)

Opened(side, price, atr) ==
    [side   |-> side,
     entry  |-> price,
     atr    |-> atr,
     stop   |-> Ahead(side, price, -StopDistance(atr)),
     target |-> Ahead(side, price, TargetMultiple * StopDistance(atr)),
     best   |-> price,
     age    |-> 0]

(* A stop that follows the price both ways.                                *)
TrailedBothWays(pos, price, atr) ==
    [pos EXCEPT !.best = IF Profit(pos.side, @, price) > 0 THEN price ELSE @,
                !.stop = Ahead(pos.side, price, -StopDistance(atr))]

(* _update_trailing_stop(): only a new best price moves the stop, and only *)
(* towards the price.                                                      *)
Trailed(pos, price, atr) ==
    LET newStop == Ahead(pos.side, price, -StopDistance(atr))
    IN  IF Profit(pos.side, pos.best, price) > 0
        THEN [pos EXCEPT !.best = price,
                         !.stop = IF Profit(pos.side, @, newStop) > 0
                                  THEN newStop ELSE @]
        ELSE pos

TargetReached(pos, price) == Profit(pos.side, pos.target, price) >= 0

StopHit(pos, price) == Profit(pos.side, pos.stop, price) <= 0

(* The hard limit: half as much again as the cap.                          *)
LossTooLarge(pos, price) == -2 * Profit(pos.side, pos.entry, price) > 3 * MaxStop

TimeIsUp(pos, price) ==
    /\ pos.age >= TimeCut
    /\ Profit(pos.side, pos.entry, price) < MinMove * pos.atr

(* update_and_check_exit(), in its order.                                  *)
ExitReason(pos, price) ==
    IF TargetReached(pos, price) THEN "TAKE_PROFIT"
    ELSE IF LossTooLarge(pos, price) \/ StopHit(pos, price) THEN "ATR_STOP"
    ELSE IF TimeIsUp(pos, price) THEN "TIME_CUT"
    ELSE "NONE"

-----------------------------------------------------------------------------
(* What the manager does when `minutes` have passed                        *)

OpenPosition(side, price, atr, minutes) ==
    /\ ~HasPosition /\ sinceStop + minutes >= Cooldown
    /\ position' = Opened(side, price, atr)
    /\ sinceStop' = Cooldown

StayFlat(minutes) ==
    /\ ~HasPosition
    /\ sinceStop' = Elapsed(sinceStop + minutes, Cooldown)
    /\ UNCHANGED position

(* The open position once a bar has been taken in.                         *)
Watched(price, atr, minutes) ==
    Trailed([position EXCEPT !.age = Elapsed(@ + minutes, TimeCut)], price, atr)

(* The exits looked at before the bar has moved the stop.                  *)
KeepPositionUnmoved(price, atr, minutes) ==
    /\ HasPosition
    /\ ExitReason([position EXCEPT !.age = Elapsed(@ + minutes, TimeCut)], price) = "NONE"
    /\ position' = Watched(price, atr, minutes)
    /\ sinceStop' = Elapsed(sinceStop + minutes, Cooldown)

KeepPosition(price, atr, minutes) ==
    /\ HasPosition
    /\ ExitReason(Watched(price, atr, minutes), price) = "NONE"
    /\ position' = Watched(price, atr, minutes)
    /\ sinceStop' = Elapsed(sinceStop + minutes, Cooldown)

(* A cooldown that follows a stop only.                                    *)
ClosePositionUncooled(price, atr, minutes) ==
    LET reason == ExitReason(Watched(price, atr, minutes), price)
    IN  /\ HasPosition /\ reason # "NONE"
        /\ position' = NoPosition
        /\ sinceStop' = IF reason = "ATR_STOP" THEN 0
                        ELSE Elapsed(sinceStop + minutes, Cooldown)

(* close_position() after update_and_check_exit().                         *)
ClosePosition(price, atr, minutes) ==
    LET reason == ExitReason(Watched(price, atr, minutes), price)
    IN  /\ HasPosition /\ reason # "NONE"
        /\ position' = NoPosition
        /\ sinceStop' = IF reason \in {"ATR_STOP", "TIME_CUT"} THEN 0
                        ELSE Elapsed(sinceStop + minutes, Cooldown)
=============================================================================
