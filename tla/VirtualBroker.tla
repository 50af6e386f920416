---------------------------- MODULE VirtualBroker ----------------------------
(***************************************************************************)
(* VirtualBroker of src/paper_trading/virtual_broker.py: simulated fills   *)
(* of market and limit orders, one net position, the list of trades and    *)
(* the capital.                                                            *)
(*                                                                         *)
(* Prices are numbers of ticks and amounts are whole units of money, so    *)
(* one tick of one contract is TickValue and the average entry price is    *)
(* kept as the exact cost of the position (entry price * quantity).  Only  *)
(* the last trade is ever written to; of the earlier ones the sum of their *)
(* pnl_amount is kept.  Timestamps, metrics and exit reasons are left out. *)
(***************************************************************************)
EXTENDS Integers

CONSTANTS Price,            \* the prices of quotes and limit orders, in ticks
          Quantity,         \* the quantities of orders
          TickValue,        \* tick_value
          FeeRate,          \* tick_value * commission_rate
          SlippageTicks,    \* slippage_ticks
          InitialCapital,   \* initial_capital
          MaxOrders         \* bound: orders submitted

ASSUME BrokerAssumption ==
    /\ Price \subseteq Nat
    /\ Quantity \subseteq Nat \ {0}
    /\ TickValue \in Nat /\ FeeRate \in Nat /\ SlippageTicks \in Nat
    /\ InitialCapital \in Int
    /\ MaxOrders \in Nat

VARIABLES
    market,     \* _current_price, _current_bid, _current_ask
    position,   \* self.position
    resting,    \* self.pending_orders
    capital,    \* self.capital
    last,       \* self.trades[-1]
    earlier,    \* pnl_amount of self.trades[:-1]
    updating,   \* TRUE inside update_price()
    seen,       \* id of the last order its loop has looked at
    hits,       \* the orders its loop has filled
    orders,     \* history: orders submitted, whose numbers are their ids
    fees,       \* history: commission of self.filled_orders
    cash        \* history: money received less money paid in all fills

books  == <<position, capital, last, earlier, fees, cash>>
brokerVars == <<market, books, resting, updating, seen, hits, orders>>

Side  == {"BUY", "SELL"}
Order == [id : Nat, side : Side, quantity : Quantity, price : Price]
Flat  == [side |-> "FLAT", quantity |-> 0, cost |-> 0, unrealized |-> 0]

IsOpen == position.side # "FLAT" /\ position.quantity > 0

BrokerTypeOK ==
    /\ market \in [price : Nat, bid : Nat, ask : Nat]
    /\ \/ position = Flat
       \/ position \in [side : {"LONG", "SHORT"}, quantity : Nat \ {0},
                        cost : Int, unrealized : Int]
    /\ resting \subseteq Order
    /\ capital \in Int
    /\ last \in [side : {"NONE", "LONG", "SHORT"}, closed : BOOLEAN, pnl : Int]
    /\ earlier \in Int
    /\ updating \in BOOLEAN
    /\ seen \in Nat
    /\ hits \subseteq resting
    /\ orders \in 0..MaxOrders
    /\ fees \in Int
    /\ cash \in Int

BrokerInit ==
    /\ market = [price |-> 0, bid |-> 0, ask |-> 0]
    /\ position = Flat
    /\ resting = {}
    /\ capital = InitialCapital
    /\ last = [side |-> "NONE", closed |-> TRUE, pnl |-> 0]
    /\ earlier = 0
    /\ updating = FALSE /\ seen = 0 /\ hits = {}
    /\ orders = 0 /\ fees = 0 /\ cash = 0

-----------------------------------------------------------------------------
(* Fills                                                                   *)

Fee(p, q) == FeeRate * p * q

(* What a fill of q at p pays against the average entry price.             *)
EntryShare(q) == (position.cost * q) \div position.quantity

(* The profit at the current price, not at the price of the fill.          *)
GainAtMarket(p, q) ==
    TickValue * (IF position.side = "LONG" THEN market.price * q - EntryShare(q)
                                           ELSE EntryShare(q) - market.price * q)

Gain(p, q) ==
    TickValue * (IF position.side = "LONG" THEN p * q - EntryShare(q)
                                           ELSE EntryShare(q) - p * q)

Closes(side) == (side = "SELL") = (position.side = "LONG")

Enter(side, q, p) ==
    /\ ~IsOpen
    /\ position' = [side |-> IF side = "BUY" THEN "LONG" ELSE "SHORT",
                    quantity |-> q, cost |-> p * q, unrealized |-> 0]
    /\ earlier' = earlier + last.pnl
    /\ last' = [side |-> position'.side, closed |-> FALSE, pnl |-> 0]
    /\ capital' = capital - Fee(p, q)

(* A close that takes the order's quantity off the position.               *)
LeaveResidue(side, q, p) ==
    /\ IsOpen /\ Closes(side)
    /\ last' = [last EXCEPT !.closed = TRUE, !.pnl = Gain(p, q)]
    /\ capital' = capital + (Gain(p, q) - Fee(p, q))
    /\ position' = [position EXCEPT !.quantity = @ - q, !.cost = @ - EntryShare(q)]
    /\ UNCHANGED earlier

(* Any order against the position ends it, whatever the order's quantity.  *)
Leave(side, q, p) ==
    /\ IsOpen /\ Closes(side)
    /\ last' = [last EXCEPT !.closed = TRUE, !.pnl = Gain(p, q)]
    /\ capital' = capital + (Gain(p, q) - Fee(p, q))
    /\ position' = Flat
    /\ UNCHANGED earlier

(* An addition to a position that takes no commission out of the capital.  *)
AddToFree(side, q, p) ==
    /\ IsOpen /\ ~Closes(side)
    /\ position' = [position EXCEPT !.quantity = @ + q, !.cost = @ + p * q]
    /\ UNCHANGED <<capital, last, earlier>>

AddTo(side, q, p) ==
    /\ IsOpen /\ ~Closes(side)
    /\ position' = [position EXCEPT !.quantity = @ + q, !.cost = @ + p * q]
    /\ capital' = capital - Fee(p, q)
    /\ UNCHANGED <<last, earlier>>

(* _fill_order() and _fill_limit_order() from the commission on.           *)
Fill(side, q, p) ==
    /\ Enter(side, q, p) \/ Leave(side, q, p) \/ AddTo(side, q, p)
    /\ fees' = fees + Fee(p, q)
    /\ cash' = IF side = "BUY" THEN cash - TickValue * p * q
                               ELSE cash + TickValue * p * q

MarketPrice(side) == IF side = "BUY" THEN market.ask + SlippageTicks
                                     ELSE market.bid - SlippageTicks

-----------------------------------------------------------------------------
(* Operations                                                              *)

SubmitMarket(side, q) ==
    /\ ~updating /\ orders < MaxOrders
    /\ orders' = orders + 1
    /\ Fill(side, q, MarketPrice(side))
    /\ UNCHANGED <<market, resting, updating, seen, hits>>

SubmitLimit(side, q, p) ==
    /\ ~updating /\ orders < MaxOrders
    /\ orders' = orders + 1
    /\ resting' = resting \cup {[id |-> orders + 1, side |-> side,
                                 quantity |-> q, price |-> p]}
    /\ UNCHANGED <<market, books, updating, seen, hits>>

CancelOrder(o) ==
    /\ ~updating
    /\ o \in resting
    /\ resting' = resting \ {o}
    /\ UNCHANGED <<market, books, updating, seen, hits, orders>>

ClosePosition ==
    /\ IsOpen
    /\ SubmitMarket(IF position.side = "LONG" THEN "SELL" ELSE "BUY",
                    position.quantity)

(* `bid or price`: a missing quote and a quote of 0 are the same.          *)
Or(v, default) == IF v = 0 THEN default ELSE v

UpdatePrice(p, b, a) ==
    /\ ~updating
    /\ market' = [price |-> p, bid |-> Or(b, p), ask |-> Or(a, p)]
    /\ updating' = TRUE /\ seen' = 0 /\ hits' = {}
    /\ UNCHANGED <<books, resting, orders>>

Reached(o) ==
    IF o.side = "BUY" THEN market.price <= o.price ELSE market.price >= o.price

Unseen == {o \in resting : o.id > seen}

(* A loop that removes from the list it runs over misses the order after   *)
(* each filled one.                                                        *)
CheckOrderRemoving(o) ==
    /\ updating
    /\ o \in Unseen /\ \A n \in Unseen : o.id <= n.id
    /\ IF Reached(o)
       THEN /\ Fill(o.side, o.quantity, o.price)
            /\ hits' = hits \cup {o}
            /\ seen' = o.id + 1
       ELSE UNCHANGED <<books, hits>> /\ seen' = o.id
    /\ UNCHANGED <<market, resting, updating, orders>>

(* One turn of the loop of _check_pending_orders().                        *)
CheckOrder(o) ==
    /\ updating
    /\ o \in Unseen /\ \A n \in Unseen : o.id <= n.id
    /\ seen' = o.id
    /\ IF Reached(o)
       THEN Fill(o.side, o.quantity, o.price) /\ hits' = hits \cup {o}
       ELSE UNCHANGED <<books, hits>>
    /\ UNCHANGED <<market, resting, updating, orders>>

(* A mark that forgets which side is held.                                 *)
MarkAsLong == TickValue * (market.price * position.quantity - position.cost)

Mark ==
    TickValue * (IF position.side = "LONG"
                 THEN market.price * position.quantity - position.cost
                 ELSE position.cost - market.price * position.quantity)

(* The filled orders leave the list, and _update_position_pnl().           *)
EndUpdate ==
    /\ updating /\ Unseen = {}
    /\ resting' = resting \ hits
    /\ updating' = FALSE /\ seen' = 0 /\ hits' = {}
    /\ position' = IF IsOpen THEN [position EXCEPT !.unrealized = Mark] ELSE position
    /\ UNCHANGED <<market, capital, last, earlier, orders, fees, cash>>

UpdateStep == EndUpdate \/ \E o \in resting : CheckOrder(o)

(* Its callers order at the market once there is a price to judge by.      *)
BrokerNext ==
    \/ \E side \in Side, q \in Quantity : market.price > 0 /\ SubmitMarket(side, q)
    \/ \E side \in Side, q \in Quantity, p \in Price : SubmitLimit(side, q, p)
    \/ \E o \in resting : CancelOrder(o)
    \/ ClosePosition
    \/ \E p \in Price, b, a \in Price \cup {0} : UpdatePrice(p, b, a)
    \/ UpdateStep

BrokerSpec == BrokerInit /\ [][BrokerNext]_brokerVars

-----------------------------------------------------------------------------
(* Properties                                                              *)

(* total_pnl without its unrealized part: the pnl_amount of closed trades. *)
ClosedPnl == earlier + (IF last.closed THEN last.pnl ELSE 0)

(* The capital is what the session started with, plus the profit of the    *)
(* trades in the list, less the commission of the orders in the list of    *)
(* fills: the three books, written in different branches, always agree.    *)
CapitalReconciles == capital = InitialCapital + ClosedPnl - fees

(* There is an unfinished trade exactly while there is a position, on the  *)
(* same side, and it is the last one: closing finds the right record.      *)
LastTradeIsThePosition ==
    IF IsOpen THEN ~last.closed /\ last.side = position.side ELSE last.closed

(* No update of the price leaves a limit order resting that this price has *)
(* reached.                                                                *)
NoneLeftBehind ==
    [][updating /\ ~updating' => \A o \in resting' : ~Reached(o)]_brokerVars

(* With no position open, the profit of the closed trades is the money     *)
(* that came in less the money that went out.  An order that is smaller or *)
(* larger than the position it closes breaks this: its profit is booked    *)
(* for the order's quantity and the whole position is dropped.             *)
PnlIsCashFlow == ~IsOpen => ClosedPnl = cash
=============================================================================
