-------------------------- MODULE PaperEngineProofs --------------------------
(***************************************************************************)
(* Proofs about VirtualBroker and the PaperEngine that drives it.          *)
(*                                                                         *)
(* The broker, for any prices, quantities, fees and number of orders: its  *)
(* three books agree, and an update of the price serves every limit order  *)
(* it reaches.  The engine, for any prices, spreads, batches and sessions: *)
(* strategy, broker and KIS account stay in step, a session ends flat, and *)
(* the equity is what the fills brought in.  The engine sends the broker   *)
(* nothing that the broker does not offer to everybody, so the lemmas on   *)
(* the broker's operations serve both.                                     *)
(***************************************************************************)
EXTENDS PaperEngine, TLAPS

(* The orders at rest have numbers that were given out, each its own.      *)
IdsDistinct ==
    /\ \A o \in resting : o.id \in 1..orders
    /\ \A o, n \in resting : o.id = n.id => o = n

(* The loop has filled every order behind it that the price has reached.   *)
SeenAreServed ==
    updating => \A o \in resting : o.id <= seen => o \in hits \/ ~Reached(o)

(* Outside update_price() the loop has filled nothing.                     *)
IdleHasNoHits == ~updating => hits = {}

BrokerInv ==
    /\ BrokerTypeOK
    /\ CapitalReconciles
    /\ LastTradeIsThePosition
    /\ IdsDistinct
    /\ SeenAreServed
    /\ IdleHasNoHits

-----------------------------------------------------------------------------

(* The commission of an order is a number.                                 *)
LEMMA FeeType ==
    ASSUME NEW p \in Int, NEW q \in Nat
    PROVE  Fee(p, q) \in Int
  BY BrokerAssumption DEF Fee

(* The profit of a fill against an open position is a number.              *)
LEMMA GainType ==
    ASSUME BrokerTypeOK, IsOpen, NEW p \in Int, NEW q \in Nat
    PROVE  Gain(p, q) \in Int
  <1>1. position.cost \in Int /\ position.quantity \in Nat \ {0}
    BY DEF BrokerTypeOK, IsOpen, Flat
  <1>2. EntryShare(q) \in Int
    <2>1. position.cost * q \in Int
      BY <1>1
    <2>. QED
      BY <1>1, <2>1 DEF EntryShare
  <1>. QED
    BY <1>2, BrokerAssumption DEF Gain

(* What a fill does to the books keeps their types, ...                    *)
LEMMA FillTypes ==
    ASSUME BrokerTypeOK, NEW side \in Side, NEW q \in Nat \ {0}, NEW p \in Int,
           Fill(side, q, p)
    PROVE  /\ \/ position' = Flat
              \/ position' \in [side : {"LONG", "SHORT"}, quantity : Nat \ {0},
                                cost : Int, unrealized : Int]
           /\ capital' \in Int
           /\ last' \in [side : {"NONE", "LONG", "SHORT"}, closed : BOOLEAN, pnl : Int]
           /\ earlier' \in Int
           /\ fees' \in Int /\ cash' \in Int
  <1>1. Fee(p, q) \in Int
    BY FeeType
  <1>2. p * q \in Int /\ TickValue * p * q \in Int
    BY BrokerAssumption
  <1>3. fees' \in Int /\ cash' \in Int
    BY <1>1, <1>2 DEF Fill, BrokerTypeOK
  <1>4. CASE Enter(side, q, p)
    <2>1. position' \in [side : {"LONG", "SHORT"}, quantity : Nat \ {0},
                         cost : Int, unrealized : Int]
      BY <1>2, <1>4 DEF Enter
    <2>2. last' \in [side : {"NONE", "LONG", "SHORT"}, closed : BOOLEAN, pnl : Int]
      BY <1>4, <2>1 DEF Enter
    <2>3. capital' \in Int /\ earlier' \in Int
      BY <1>1, <1>4 DEF Enter, BrokerTypeOK
    <2>. QED
      BY <1>3, <2>1, <2>2, <2>3
  <1>5. CASE Leave(side, q, p)
    <2>1. Gain(p, q) \in Int
      BY <1>5, GainType DEF Leave
    <2>2. last' \in [side : {"NONE", "LONG", "SHORT"}, closed : BOOLEAN, pnl : Int]
      BY <1>5, <2>1 DEF Leave, BrokerTypeOK
    <2>3. capital' \in Int /\ earlier' \in Int /\ position' = Flat
      BY <1>1, <1>5, <2>1 DEF Leave, BrokerTypeOK
    <2>. QED
      BY <1>3, <2>2, <2>3
  <1>6. CASE AddTo(side, q, p)
    <2>1. position \in [side : {"LONG", "SHORT"}, quantity : Nat \ {0},
                        cost : Int, unrealized : Int]
      BY <1>6 DEF AddTo, IsOpen, BrokerTypeOK, Flat
    <2>2. position.quantity + q \in Nat \ {0} /\ position.cost + p * q \in Int
      BY <1>2, <2>1
    <2>3. position' \in [side : {"LONG", "SHORT"}, quantity : Nat \ {0},
                         cost : Int, unrealized : Int]
      BY <1>6, <2>1, <2>2 DEF AddTo
    <2>4. capital' \in Int /\ earlier' \in Int
      BY <1>1, <1>6 DEF AddTo, BrokerTypeOK
    <2>5. last' \in [side : {"NONE", "LONG", "SHORT"}, closed : BOOLEAN, pnl : Int]
      BY <1>6 DEF AddTo, BrokerTypeOK
    <2>. QED
      BY <1>3, <2>3, <2>4, <2>5
  <1>. QED
    BY <1>4, <1>5, <1>6 DEF Fill

(* ... the agreement of the books, ...                                     *)
LEMMA FillReconciles ==
    ASSUME BrokerTypeOK, CapitalReconciles, LastTradeIsThePosition,
           NEW side \in Side, NEW q \in Nat \ {0}, NEW p \in Int,
           Fill(side, q, p)
    PROVE  CapitalReconciles'
  <1>1. Fee(p, q) \in Int /\ fees' = fees + Fee(p, q)
    BY FeeType DEF Fill
  <1>2. /\ InitialCapital \in Int /\ capital \in Int /\ fees \in Int
        /\ earlier \in Int /\ last.pnl \in Int
    BY BrokerAssumption DEF BrokerTypeOK
  <1>3. CASE Enter(side, q, p)
    <2>1. last.closed /\ ClosedPnl = earlier + last.pnl
      BY <1>3 DEF Enter, LastTradeIsThePosition, ClosedPnl
    <2>2. ClosedPnl' = earlier + last.pnl
      BY <1>2, <1>3 DEF Enter, ClosedPnl
    <2>3. capital' = capital - Fee(p, q)
      BY <1>3 DEF Enter
    <2>. QED
      BY <1>1, <1>2, <2>1, <2>2, <2>3 DEF CapitalReconciles
  <1>4. CASE Leave(side, q, p)
    <2>1. Gain(p, q) \in Int
      BY <1>4, GainType DEF Leave
    <2>2. ClosedPnl = earlier
      BY <1>2, <1>4 DEF Leave, LastTradeIsThePosition, ClosedPnl
    <2>3. last'.closed /\ last'.pnl = Gain(p, q)
      BY <1>4 DEF Leave, BrokerTypeOK
    <2>4. ClosedPnl' = earlier + Gain(p, q)
      BY <1>4, <2>3 DEF Leave, ClosedPnl
    <2>5. capital' = capital + (Gain(p, q) - Fee(p, q))
      BY <1>4 DEF Leave
    <2>. QED
      BY <1>1, <1>2, <2>1, <2>2, <2>4, <2>5 DEF CapitalReconciles
  <1>5. CASE AddTo(side, q, p)
    <2>1. ClosedPnl' = ClosedPnl /\ ClosedPnl \in Int
      BY <1>2, <1>5 DEF AddTo, ClosedPnl
    <2>2. capital' = capital - Fee(p, q)
      BY <1>5 DEF AddTo
    <2>. QED
      BY <1>1, <1>2, <2>1, <2>2 DEF CapitalReconciles
  <1>. QED
    BY <1>3, <1>4, <1>5 DEF Fill

(* ... and the pairing of the last trade with the position.                *)
LEMMA FillPairs ==
    ASSUME BrokerTypeOK, LastTradeIsThePosition,
           NEW side \in Side, NEW q \in Nat \ {0}, NEW p \in Int,
           Fill(side, q, p)
    PROVE  LastTradeIsThePosition'
  <1>1. CASE Enter(side, q, p)
    BY <1>1 DEF Enter, LastTradeIsThePosition, IsOpen
  <1>2. CASE Leave(side, q, p)
    BY <1>2 DEF Leave, LastTradeIsThePosition, IsOpen, Flat, BrokerTypeOK
  <1>3. CASE AddTo(side, q, p)
    <2>1. position'.side = position.side /\ position'.quantity = position.quantity + q
      BY <1>3 DEF AddTo, IsOpen, BrokerTypeOK, Flat
    <2>2. position.quantity \in Nat
      BY DEF BrokerTypeOK, Flat
    <2>3. position'.quantity > 0
      BY <2>1, <2>2
    <2>. QED
      BY <1>3, <2>1, <2>3 DEF AddTo, IsOpen, LastTradeIsThePosition
  <1>. QED
    BY <1>1, <1>2, <1>3 DEF Fill

-----------------------------------------------------------------------------

(* A market order, of any side and quantity, keeps the invariant.          *)
LEMMA SubmitMarketInv ==
    ASSUME BrokerInv, NEW side \in Side, NEW q \in Nat \ {0}, SubmitMarket(side, q)
    PROVE  BrokerInv'
  <1>1. Fill(side, q, MarketPrice(side)) /\ MarketPrice(side) \in Int
    BY BrokerAssumption DEF SubmitMarket, MarketPrice, BrokerInv, BrokerTypeOK
  <1>2. orders' \in 0..MaxOrders /\ 1..orders \subseteq 1..orders'
    BY BrokerAssumption DEF SubmitMarket, BrokerInv, BrokerTypeOK
  <1>3. BrokerTypeOK'
    BY <1>1, <1>2, FillTypes DEF SubmitMarket, BrokerInv, BrokerTypeOK
  <1>4. CapitalReconciles' /\ LastTradeIsThePosition'
    BY <1>1, FillReconciles, FillPairs DEF BrokerInv
  <1>5. IdsDistinct'
    BY <1>2 DEF SubmitMarket, BrokerInv, IdsDistinct
  <1>6. SeenAreServed' /\ IdleHasNoHits'
    BY DEF SubmitMarket, BrokerInv, SeenAreServed, IdleHasNoHits
  <1>. QED
    BY <1>3, <1>4, <1>5, <1>6 DEF BrokerInv

(* A new price and quote open an update and keep the invariant.            *)
LEMMA UpdatePriceInv ==
    ASSUME BrokerInv, NEW p \in Nat, NEW b \in Nat, NEW a \in Nat, UpdatePrice(p, b, a)
    PROVE  BrokerInv'
  <1>1. market' \in [price : Nat, bid : Nat, ask : Nat]
    BY BrokerAssumption DEF UpdatePrice, Or
  <1>2. BrokerTypeOK'
    BY <1>1 DEF UpdatePrice, books, BrokerInv, BrokerTypeOK
  <1>3. CapitalReconciles' /\ LastTradeIsThePosition' /\ IdsDistinct'
    BY DEF UpdatePrice, books, BrokerInv, CapitalReconciles, ClosedPnl,
                LastTradeIsThePosition, IsOpen, IdsDistinct
  <1>4. \A o \in resting' : ~(o.id <= seen')
    <2>1. \A o \in resting : o.id \in 1..orders /\ orders \in Nat
      BY BrokerAssumption DEF BrokerInv, BrokerTypeOK, IdsDistinct
    <2>. QED
      BY <2>1 DEF UpdatePrice
  <1>5. SeenAreServed' /\ IdleHasNoHits'
    BY <1>4 DEF UpdatePrice, SeenAreServed, IdleHasNoHits
  <1>. QED
    BY <1>2, <1>3, <1>5 DEF BrokerInv

(* So does the end of the update, which marks the position.                *)
LEMMA EndUpdateInv ==
    ASSUME BrokerInv, EndUpdate
    PROVE  BrokerInv'
  <1>1. position' = Flat \/ position' \in [side : {"LONG", "SHORT"},
                   quantity : Nat \ {0}, cost : Int, unrealized : Int]
    <2>1. CASE ~IsOpen
      BY <2>1 DEF EndUpdate, BrokerInv, BrokerTypeOK
    <2>2. CASE IsOpen
      <3>1. position \in [side : {"LONG", "SHORT"}, quantity : Nat \ {0},
                          cost : Int, unrealized : Int]
        BY <2>2 DEF IsOpen, BrokerInv, BrokerTypeOK, Flat
      <3>2. market.price * position.quantity \in Int
        BY <3>1 DEF BrokerInv, BrokerTypeOK
      <3>3. Mark \in Int
        BY <3>1, <3>2, BrokerAssumption DEF Mark
      <3>. QED
        BY <2>2, <3>1, <3>3 DEF EndUpdate
    <2>. QED
      BY <2>1, <2>2
  <1>2. BrokerTypeOK'
    BY <1>1 DEF EndUpdate, BrokerInv, BrokerTypeOK
  <1>3. position'.side = position.side /\ position'.quantity = position.quantity
    BY DEF EndUpdate, IsOpen, BrokerInv, BrokerTypeOK, Flat
  <1>4. CapitalReconciles' /\ LastTradeIsThePosition'
    BY <1>3 DEF EndUpdate, BrokerInv, CapitalReconciles, ClosedPnl,
                      LastTradeIsThePosition, IsOpen
  <1>5. IdsDistinct' /\ SeenAreServed' /\ IdleHasNoHits'
    BY DEF EndUpdate, BrokerInv, IdsDistinct, SeenAreServed, IdleHasNoHits
  <1>. QED
    BY <1>2, <1>4, <1>5 DEF BrokerInv

(* Every step keeps the invariant.                                         *)
LEMMA BrokerStep == BrokerInv /\ [BrokerNext]_brokerVars => BrokerInv'
  <1>. SUFFICES ASSUME BrokerInv, [BrokerNext]_brokerVars PROVE BrokerInv'
    OBVIOUS
  <1>1. ASSUME NEW side \in Side, NEW q \in Quantity, SubmitMarket(side, q)
        PROVE  BrokerInv'
    BY <1>1, SubmitMarketInv, BrokerAssumption
  <1>2. ASSUME NEW side \in Side, NEW q \in Quantity, NEW p \in Price,
               SubmitLimit(side, q, p)
        PROVE  BrokerInv'
    <2>1. orders \in Nat /\ orders' = orders + 1 /\ orders' \in 0..MaxOrders
      BY <1>2, BrokerAssumption DEF SubmitLimit, BrokerInv, BrokerTypeOK
    <2> DEFINE n == [id |-> orders + 1, side |-> side, quantity |-> q, price |-> p]
    <2>2. n \in Order /\ n.id = orders + 1 /\ resting' = resting \cup {n}
      BY <1>2, <2>1 DEF SubmitLimit, Order
    <2> HIDE DEF n
    <2>3. BrokerTypeOK'
      BY <1>2, <2>1, <2>2 DEF SubmitLimit, books, BrokerInv, BrokerTypeOK
    <2>4. CapitalReconciles' /\ LastTradeIsThePosition'
      BY <1>2 DEF SubmitLimit, books, BrokerInv, CapitalReconciles, ClosedPnl,
                  LastTradeIsThePosition, IsOpen
    <2>5. IdsDistinct'
      BY <2>1, <2>2 DEF BrokerInv, IdsDistinct
    <2>6. SeenAreServed' /\ IdleHasNoHits'
      BY <1>2 DEF SubmitLimit, BrokerInv, SeenAreServed, IdleHasNoHits
    <2>. QED
      BY <2>3, <2>4, <2>5, <2>6 DEF BrokerInv
  <1>3. ASSUME NEW o \in resting, CancelOrder(o)
        PROVE  BrokerInv'
    <2>1. hits = {} /\ hits' = {}
      BY <1>3 DEF CancelOrder, BrokerInv, IdleHasNoHits
    <2>2. BrokerTypeOK'
      BY <1>3, <2>1 DEF CancelOrder, books, BrokerInv, BrokerTypeOK
    <2>3. CapitalReconciles' /\ LastTradeIsThePosition'
      BY <1>3 DEF CancelOrder, books, BrokerInv, CapitalReconciles, ClosedPnl,
                  LastTradeIsThePosition, IsOpen
    <2>4. IdsDistinct' /\ SeenAreServed' /\ IdleHasNoHits'
      BY <1>3, <2>1 DEF CancelOrder, BrokerInv, IdsDistinct, SeenAreServed, IdleHasNoHits
    <2>. QED
      BY <2>2, <2>3, <2>4 DEF BrokerInv
  <1>4. CASE ClosePosition
    <2>1. position.quantity \in Nat \ {0}
      BY <1>4 DEF ClosePosition, IsOpen, BrokerInv, BrokerTypeOK, Flat
    <2>. QED
      BY <1>4, <2>1, SubmitMarketInv DEF ClosePosition, Side
  <1>5. ASSUME NEW p \in Price, NEW b \in Price \cup {0}, NEW a \in Price \cup {0},
               UpdatePrice(p, b, a)
        PROVE  BrokerInv'
    BY <1>5, UpdatePriceInv, BrokerAssumption
  <1>6. CASE EndUpdate
    BY <1>6, EndUpdateInv
  <1>7. ASSUME NEW o \in resting, CheckOrder(o)
        PROVE  BrokerInv'
    <2>1. /\ o.id \in Nat /\ o.side \in Side /\ o.quantity \in Nat \ {0}
          /\ o.price \in Int
      <3>1. o \in [id : Nat, side : Side, quantity : Quantity, price : Price]
        BY DEF BrokerInv, BrokerTypeOK, Order
      <3>2. o.id \in Nat /\ o.side \in Side /\ o.quantity \in Quantity /\ o.price \in Price
        BY <3>1
      <3>3. o.quantity \in Nat \ {0}
        BY <3>2, BrokerAssumption
      <3>4. o.price \in Nat
        BY <3>2, BrokerAssumption, Zenon
      <3>5. o.price \in Int
        BY <3>4
      <3>. QED
        BY <3>2, <3>3, <3>5
    <2>2. /\ seen' = o.id /\ updating' = updating /\ resting' = resting
          /\ orders' = orders /\ market' = market /\ updating
          /\ hits \subseteq hits' /\ hits' \subseteq resting
          /\ Reached(o) => o \in hits'
      BY <1>7 DEF CheckOrder, BrokerInv, BrokerTypeOK
    <2>3. \A n \in resting : n.id <= o.id => n.id <= seen \/ n = o
      <3>1. TAKE n \in resting
      <3>2. HAVE n.id <= o.id
      <3>3. n.id \in Nat /\ seen \in Nat
        BY DEF BrokerInv, BrokerTypeOK, Order
      <3>4. CASE n \in Unseen
        BY <1>7, <2>1, <3>2, <3>3, <3>4 DEF CheckOrder, BrokerInv, IdsDistinct
      <3>. QED
        BY <3>3, <3>4 DEF Unseen
    <2>4. SeenAreServed'
      <3>1. \A n \in resting : Reached(n)' <=> Reached(n)
        BY <2>2 DEF Reached
      <3>. QED
        BY <2>2, <2>3, <3>1 DEF BrokerInv, SeenAreServed
    <2>5. IdsDistinct' /\ IdleHasNoHits'
      BY <2>2 DEF BrokerInv, IdsDistinct, IdleHasNoHits
    <2>6. CASE Reached(o)
      <3>1. Fill(o.side, o.quantity, o.price)
        BY <1>7, <2>6 DEF CheckOrder
      <3>2. BrokerTypeOK'
        BY <2>1, <2>2, <3>1, FillTypes DEF BrokerInv, BrokerTypeOK
      <3>3. CapitalReconciles' /\ LastTradeIsThePosition'
        BY <2>1, <3>1, FillReconciles, FillPairs DEF BrokerInv
      <3>. QED
        BY <2>4, <2>5, <3>2, <3>3 DEF BrokerInv
    <2>7. CASE ~Reached(o)
      <3>1. UNCHANGED books
        BY <1>7, <2>7 DEF CheckOrder
      <3>2. BrokerTypeOK'
        BY <2>1, <2>2, <3>1 DEF books, BrokerInv, BrokerTypeOK
      <3>3. CapitalReconciles' /\ LastTradeIsThePosition'
        BY <3>1 DEF books, BrokerInv, CapitalReconciles, ClosedPnl,
                    LastTradeIsThePosition, IsOpen
      <3>. QED
        BY <2>4, <2>5, <3>2, <3>3 DEF BrokerInv
    <2>. QED
      BY <2>6, <2>7
  <1>8. CASE UNCHANGED brokerVars
    BY <1>8 DEF brokerVars, books, BrokerInv, BrokerTypeOK, CapitalReconciles,
                ClosedPnl, LastTradeIsThePosition, IsOpen, IdsDistinct,
                SeenAreServed, IdleHasNoHits, Reached
  <1>. QED
    BY <1>1, <1>2, <1>3, <1>4, <1>5, <1>6, <1>7, <1>8 DEF BrokerNext, UpdateStep

(* A new broker satisfies the invariant, ...                               *)
LEMMA BrokerInitInv == BrokerInit => BrokerInv
  <1>. SUFFICES ASSUME BrokerInit PROVE BrokerInv
    OBVIOUS
  <1>1. BrokerTypeOK
    <2>1. orders \in 0..MaxOrders
      BY BrokerAssumption DEF BrokerInit
    <2>2. resting \subseteq Order /\ hits \subseteq resting
      BY DEF BrokerInit
    <2>3. capital \in Int
      BY BrokerAssumption DEF BrokerInit
    <2>4. market \in [price : Nat, bid : Nat, ask : Nat]
      BY DEF BrokerInit
    <2>5. last \in [side : {"NONE", "LONG", "SHORT"}, closed : BOOLEAN, pnl : Int]
      BY DEF BrokerInit
    <2>. QED
      BY <2>1, <2>2, <2>3, <2>4, <2>5 DEF BrokerInit, BrokerTypeOK
  <1>2. CapitalReconciles /\ LastTradeIsThePosition
    BY BrokerAssumption DEF BrokerInit, CapitalReconciles, ClosedPnl,
                            LastTradeIsThePosition, IsOpen, Flat
  <1>3. IdsDistinct /\ SeenAreServed /\ IdleHasNoHits
    BY DEF BrokerInit, IdsDistinct, SeenAreServed, IdleHasNoHits
  <1>. QED
    BY <1>1, <1>2, <1>3 DEF BrokerInv

(* ... which therefore always holds.                                       *)
THEOREM BrokerInvariant == BrokerSpec => []BrokerInv
  BY BrokerInitInv, BrokerStep, PTL DEF BrokerSpec

(* Every state of the broker is well-typed, for any constants: quantities  *)
(* stay positive and a fill is always of a known side.                     *)
THEOREM BrokerTypeCorrect == BrokerSpec => []BrokerTypeOK
  BY BrokerInvariant, PTL DEF BrokerInv

(* Capital, trades and commissions agree after any sequence of market and  *)
(* limit orders, cancellations and price updates.                          *)
THEOREM BooksAgree == BrokerSpec => []CapitalReconciles
  BY BrokerInvariant, PTL DEF BrokerInv

(* The unfinished trade is the last one, and it is the position's.         *)
THEOREM LastTradeOpen == BrokerSpec => []LastTradeIsThePosition
  BY BrokerInvariant, PTL DEF BrokerInv

(* An update of the price serves every resting order that it reaches.      *)
THEOREM UpdateServesAll == BrokerSpec => NoneLeftBehind
  <1>1. BrokerInv /\ [BrokerNext]_brokerVars =>
          [updating /\ ~updating' => \A o \in resting' : ~Reached(o)]_brokerVars
    <2>. SUFFICES ASSUME BrokerInv, BrokerNext, updating, ~updating'
                  PROVE  \A o \in resting' : ~Reached(o)
      BY DEF brokerVars
    <2>1. EndUpdate
      BY DEF BrokerNext, UpdateStep, SubmitMarket, SubmitLimit, CancelOrder,
             ClosePosition, UpdatePrice, CheckOrder
    <2>2. \A o \in resting : o.id <= seen
      <3>1. \A o \in resting : o.id \in Nat /\ seen \in Nat
        BY DEF BrokerInv, BrokerTypeOK, Order
      <3>. QED
        BY <2>1, <3>1 DEF EndUpdate, Unseen
    <2>. QED
      BY <2>1, <2>2 DEF EndUpdate, BrokerInv, SeenAreServed
  <1>. QED
    BY <1>1, BrokerInvariant, PTL DEF BrokerSpec, NoneLeftBehind

-----------------------------------------------------------------------------
(* The engine                                                              *)

LoopTypeOK ==
    /\ task \in Awaits \cup {"off", "message", "pricing", "strategy", "closing", "ended"}
    /\ isRunning \in BOOLEAN
    /\ batch \in [Kind -> 0..MaxBatch]
    /\ current \in Kind
    /\ view \in View
    /\ sessions \in 0..MaxSessions
    /\ missed \in BOOLEAN /\ slipped \in BOOLEAN

(* The engine trades one contract at a time, and at the market.            *)
OneContract == resting = {} /\ (position = Flat \/ position.quantity = 1)

(* The price is updated only in the handler that has just read one.        *)
UpdatesInPricing == updating <=> task = "pricing"

(* What the open position has cost, with its sign: the closed profit and   *)
(* the money that came in differ by that.                                  *)
CostOfHeld ==
    IF ~IsOpen THEN 0
    ELSE IF position.side = "LONG" THEN TickValue * position.cost
                                   ELSE -(TickValue * position.cost)

MoneySpent == ClosedPnl = cash + CostOfHeld

(* A process that has not been started has a new broker and a new strategy.*)
OffIsFresh == task = "off" => position = Flat /\ orders = 0 /\ view = "FLAT"

(* The orders of the sessions that are over, and of this one, bound what   *)
(* the account can hold.                                                   *)
Over == IF task = "off" THEN sessions ELSE sessions - 1
OrdersSent == Over * MaxOrders + orders

AccountBound ==
    /\ task # "off" => sessions > 0
    /\ account \in -OrdersSent..OrdersSent

BrokerHeld == BrokerInv /\ OneContract /\ MoneySpent

EngineInv ==
    /\ LoopTypeOK /\ UpdatesInPricing
    /\ BrokerHeld
    /\ OffIsFresh /\ AccountBound
    /\ ViewInStep /\ AccountInStep /\ SessionEndsFlat

(* What the position is, from the broker's types.                          *)
LEMMA PositionIs ==
    ASSUME BrokerHeld
    PROVE  /\ position.side \in {"FLAT", "LONG", "SHORT"}
           /\ IsOpen <=> position.side # "FLAT"
           /\ ~IsOpen => position = Flat /\ Contracts = 0
           /\ IsOpen => /\ position \in [side : {"LONG", "SHORT"}, quantity : Nat \ {0},
                                         cost : Int, unrealized : Int]
                        /\ position.quantity = 1
                        /\ Contracts = IF position.side = "LONG" THEN 1 ELSE -1
  BY DEF BrokerHeld, OneContract, BrokerInv, BrokerTypeOK, IsOpen, Flat, Contracts

(* The broker's numbers are numbers.                                       *)
LEMMA BrokerNumbers ==
    ASSUME BrokerInv
    PROVE  /\ market.price \in Nat /\ market.bid \in Nat /\ market.ask \in Nat
           /\ capital \in Int /\ earlier \in Int /\ last.pnl \in Int
           /\ fees \in Int /\ cash \in Int /\ TickValue \in Nat /\ InitialCapital \in Int
           /\ orders \in 0..MaxOrders /\ orders \in Nat /\ MaxOrders \in Nat
           /\ ClosedPnl \in Int
           /\ \A side \in Side : MarketPrice(side) \in Int
  <1>1. /\ market.price \in Nat /\ market.bid \in Nat /\ market.ask \in Nat
        /\ capital \in Int /\ earlier \in Int /\ last.pnl \in Int
        /\ fees \in Int /\ cash \in Int /\ TickValue \in Nat /\ InitialCapital \in Int
        /\ orders \in 0..MaxOrders /\ MaxOrders \in Nat
    BY BrokerAssumption DEF BrokerInv, BrokerTypeOK
  <1>. QED
    BY <1>1, BrokerAssumption DEF ClosedPnl, MarketPrice

(* What is not touched is kept.                                            *)
LEMMA BrokerKept ==
    ASSUME BrokerHeld, UNCHANGED brokerVars
    PROVE  BrokerHeld' /\ Contracts' = Contracts
  <1>1. BrokerInv'
    BY BrokerStep DEF BrokerHeld
  <1>. QED
    BY <1>1 DEF BrokerHeld, OneContract, MoneySpent, ClosedPnl, CostOfHeld, IsOpen, Contracts,
                brokerVars, books

(* Entering with one contract.                                             *)
LEMMA EnterOne ==
    ASSUME BrokerHeld, ~IsOpen, NEW side \in Side, SubmitMarket(side, 1)
    PROVE  /\ BrokerHeld'
           /\ position'.side = (IF side = "BUY" THEN "LONG" ELSE "SHORT")
           /\ Contracts' = (IF side = "BUY" THEN 1 ELSE -1)
           /\ orders' = orders + 1 /\ updating' = updating
  <1>1. BrokerInv'
    BY SubmitMarketInv DEF BrokerHeld
  <1> DEFINE p == MarketPrice(side)
  <1>2. p \in Int
    BY BrokerNumbers DEF BrokerHeld
  <1>3. /\ Enter(side, 1, p) /\ orders' = orders + 1 /\ UNCHANGED <<resting, updating>>
        /\ cash' = IF side = "BUY" THEN cash - TickValue * p * 1 ELSE cash + TickValue * p * 1
    BY DEF SubmitMarket, Fill, Leave, AddTo
  <1> HIDE DEF p
  <1>4. /\ position' = [side |-> IF side = "BUY" THEN "LONG" ELSE "SHORT",
                        quantity |-> 1, cost |-> p * 1, unrealized |-> 0]
        /\ earlier' = earlier + last.pnl /\ ~last'.closed
    BY <1>3 DEF Enter
  <1>5. ClosedPnl = cash /\ ClosedPnl = earlier + last.pnl
    BY DEF BrokerHeld, MoneySpent, CostOfHeld, ClosedPnl, BrokerInv, LastTradeIsThePosition,
           BrokerTypeOK
  <1>6. IsOpen' /\ ClosedPnl' = earlier + last.pnl
    BY <1>4, BrokerNumbers DEF IsOpen, ClosedPnl, BrokerHeld
  <1>7. MoneySpent'
    <2>1. position'.cost = p /\ p * 1 = p
      BY <1>2, <1>4
    <2>2. TickValue * p \in Int /\ TickValue * p * 1 = TickValue * p
      BY <1>2, BrokerAssumption
    <2>3. CostOfHeld' = IF side = "BUY" THEN TickValue * p ELSE -(TickValue * p)
      BY <1>4, <1>6, <2>1 DEF CostOfHeld, Side
    <2>. QED
      BY <1>3, <1>5, <1>6, <2>2, <2>3, BrokerNumbers DEF MoneySpent, BrokerHeld
  <1>. QED
    BY <1>1, <1>3, <1>4, <1>7 DEF BrokerHeld, OneContract, Contracts

(* Closing what is held.                                                   *)
LEMMA CloseOne ==
    ASSUME BrokerHeld, ClosePosition
    PROVE  /\ BrokerHeld' /\ position' = Flat /\ Contracts' = 0
           /\ orders' = orders + 1 /\ updating' = updating
  <1> DEFINE side == IF position.side = "LONG" THEN "SELL" ELSE "BUY"
             p == MarketPrice(side)
             c == position.cost
  <1>1. /\ IsOpen /\ position.quantity = 1 /\ c \in Int /\ position.side \in {"LONG", "SHORT"}
    BY PositionIs DEF ClosePosition
  <1>2. SubmitMarket(side, 1) /\ side \in Side
    BY <1>1 DEF ClosePosition, Side
  <1>3. BrokerInv'
    BY <1>2, SubmitMarketInv DEF BrokerHeld
  <1>4. p \in Int
    BY <1>2, BrokerNumbers DEF BrokerHeld
  <1>5. Closes(side)
    BY <1>1 DEF Closes
  <1>6. /\ Leave(side, 1, p) /\ orders' = orders + 1 /\ UNCHANGED <<resting, updating>>
        /\ cash' = IF side = "BUY" THEN cash - TickValue * p * 1 ELSE cash + TickValue * p * 1
    BY <1>1, <1>2, <1>5 DEF SubmitMarket, Fill, Enter, AddTo
  <1>7. EntryShare(1) = c
    BY <1>1 DEF EntryShare
  <1>8. Gain(p, 1) = IF position.side = "LONG" THEN TickValue * (p - c) ELSE TickValue * (c - p)
    BY <1>1, <1>4, <1>7 DEF Gain
  <1>9. ClosedPnl = earlier /\ ClosedPnl' = earlier + Gain(p, 1)
    <2>1. ~last.closed
      BY <1>1 DEF BrokerHeld, BrokerInv, LastTradeIsThePosition
    <2>2. last'.closed /\ last'.pnl = Gain(p, 1) /\ earlier' = earlier
      BY <1>6 DEF Leave, BrokerHeld, BrokerInv, BrokerTypeOK
    <2>. QED
      BY <2>1, <2>2, BrokerNumbers DEF ClosedPnl, BrokerHeld
  <1>10. ~IsOpen' /\ position' = Flat
    BY <1>6 DEF Leave, IsOpen, Flat
  <1>11. MoneySpent'
    <2>1. ClosedPnl = cash + (IF position.side = "LONG" THEN TickValue * c ELSE -(TickValue * c))
      BY <1>1 DEF BrokerHeld, MoneySpent, CostOfHeld
    <2>2. /\ TickValue * c \in Int /\ TickValue * p \in Int /\ TickValue * p * 1 = TickValue * p
          /\ TickValue * (p - c) = TickValue * p - TickValue * c
          /\ TickValue * (c - p) = TickValue * c - TickValue * p
      BY <1>1, <1>4, BrokerAssumption
    <2>3. ClosedPnl' = cash'
      <3>1. cash \in Int /\ earlier \in Int
        BY BrokerNumbers DEF BrokerHeld
      <3>. HIDE DEF p, c
      <3>. QED
        BY <1>1, <1>6, <1>8, <1>9, <2>1, <2>2, <3>1
    <2>4. cash' \in Int
      BY <1>3 DEF BrokerInv, BrokerTypeOK
    <2>5. \A n \in Int : n = n + 0
      OBVIOUS
    <2>6. cash' = cash' + 0
      BY <2>4, <2>5, Zenon
    <2>7. CostOfHeld' = 0
      BY <1>10 DEF CostOfHeld
    <2>. QED
      BY <2>3, <2>6, <2>7, Zenon DEF MoneySpent
  <1>. QED
    BY <1>3, <1>6, <1>10, <1>11 DEF BrokerHeld, OneContract, Contracts, Flat

(* A new quote touches no book, ...                                        *)
LEMMA QuoteKept ==
    ASSUME BrokerHeld, NEW p \in Price, NEW h \in HalfSpread, UpdatePrice(p, p - h, p + h)
    PROVE  /\ BrokerHeld' /\ updating' /\ Contracts' = Contracts
           /\ position' = position /\ orders' = orders
  <1>1. p \in Nat /\ p - h \in Nat /\ p + h \in Nat
    BY BrokerAssumption, EngineAssumption
  <1>2. BrokerInv'
    BY <1>1, UpdatePriceInv DEF BrokerHeld
  <1>. QED
    BY <1>2 DEF UpdatePrice, books, BrokerHeld, OneContract, MoneySpent, ClosedPnl, CostOfHeld,
                IsOpen, Contracts

(* ... and the end of the update only marks the position.                  *)
LEMMA MarkKept ==
    ASSUME BrokerHeld, EndUpdate
    PROVE  /\ BrokerHeld' /\ ~updating' /\ Contracts' = Contracts
           /\ position'.side = position.side /\ orders' = orders
           /\ position = Flat => position' = Flat
  <1>1. BrokerInv'
    BY EndUpdateInv DEF BrokerHeld
  <1>2. /\ position'.side = position.side /\ position'.quantity = position.quantity
        /\ position'.cost = position.cost
        /\ ~IsOpen => position' = position
    <2>1. CASE ~IsOpen
      BY <2>1 DEF EndUpdate
    <2>2. CASE IsOpen
      BY <2>2, PositionIs DEF EndUpdate
    <2>. QED
      BY <2>1, <2>2
  <1>3. position = Flat => ~IsOpen
    BY DEF IsOpen, Flat
  <1>4. OneContract' /\ MoneySpent' /\ Contracts' = Contracts
    BY <1>2, <1>3 DEF EndUpdate, BrokerHeld, OneContract, MoneySpent, ClosedPnl, CostOfHeld,
                IsOpen, Contracts
  <1>. QED
    BY <1>1, <1>2, <1>3, <1>4 DEF EndUpdate, BrokerHeld

-----------------------------------------------------------------------------
(* Its steps                                                               *)

(* What the answers of a strategy are.                                     *)
LEMMA AnswersAre ==
    ASSUME view \in View, NEW a \in Answers(view)
    PROVE  /\ a[1] \in Signal /\ a[2] \in View
           /\ a[1] = "HOLD" => a[2] = view
           /\ view = "FLAT" => \/ a[1] = "BUY" /\ a[2] = "LONG"
                               \/ a[1] = "SELL" /\ a[2] = "SHORT"
                               \/ a[1] = "HOLD"
           /\ view = "LONG" => \/ a[1] = "SELL" /\ a[2] = "FLAT"
                               \/ a[1] = "HOLD"
           /\ view = "SHORT" => \/ a[1] = "BUY" /\ a[2] = "FLAT"
                                \/ a[1] = "HOLD"
  BY DEF Answers, View, Signal

(* The bound on the account allows for one more contract per order.        *)
LEMMA BoundGrows ==
    ASSUME EngineInv, task # "off", task' # "off", UNCHANGED sessions,
           \/ orders' = orders /\ account' = account
           \/ orders' = orders + 1 /\ account' \in {account - 1, account, account + 1}
    PROVE  AccountBound'
  <1>1. /\ sessions \in Nat /\ sessions > 0 /\ orders \in Nat /\ MaxOrders \in Nat
        /\ Over = sessions - 1 /\ Over' = Over
    BY BrokerNumbers, EngineAssumption DEF EngineInv, AccountBound, LoopTypeOK, BrokerHeld, Over
  <1>2. Over * MaxOrders \in Nat
    BY <1>1
  <1>3. /\ OrdersSent \in Nat /\ account \in -OrdersSent..OrdersSent
        /\ OrdersSent' = OrdersSent + (orders' - orders)
    BY <1>1, <1>2 DEF OrdersSent, EngineInv, AccountBound
  <1>4. orders' = orders \/ orders' = orders + 1
    OBVIOUS
  <1>5. account' \in -(OrdersSent')..(OrdersSent')
    BY <1>1, <1>3
  <1>. QED
    BY <1>1, <1>5 DEF AccountBound

(* An order to KIS that is carried out moves the account by one contract,  *)
(* and one that is not is counted as missed.                               *)
LEMMA KisOrderIs ==
    ASSUME EngineInv, NEW side \in Side, KisOrder(side)
    PROVE  /\ account' \in {account - 1, account, account + 1}
           /\ ~missed' => /\ ~missed
                          /\ account \in Int
                          /\ account' = account + (IF side = "BUY" THEN 1 ELSE -1)
           /\ missed' \in BOOLEAN
  <1>1. sessions \in Nat /\ orders \in Nat /\ MaxOrders \in Nat /\ (task # "off" => sessions > 0)
    BY BrokerNumbers, EngineAssumption DEF EngineInv, LoopTypeOK, BrokerHeld, AccountBound
  <1>2. Over \in Nat
    BY <1>1 DEF Over
  <1>3. OrdersSent \in Nat
    <2>1. Over * MaxOrders \in Nat
      BY <1>1, <1>2
    <2>. QED
      BY <1>1, <2>1 DEF OrdersSent
  <1>4. account \in Int
    BY <1>3 DEF EngineInv, AccountBound
  <1>5. missed \in BOOLEAN
    BY DEF EngineInv, LoopTypeOK
  <1>6. CASE account' = IF side = "BUY" THEN account + 1 ELSE account - 1
    <2>1. account' = account + (IF side = "BUY" THEN 1 ELSE -1)
      BY <1>4, <1>6
    <2>2. account' \in {account - 1, account, account + 1}
      BY <1>6
    <2>3. missed' = missed \/ missed' = TRUE
      BY DEF KisOrder
    <2>. QED
      BY <1>4, <1>5, <2>1, <2>2, <2>3
  <1>7. CASE account' = account /\ missed' = TRUE
    BY <1>7
  <1>. QED
    BY <1>6, <1>7 DEF KisOrder

(* A step that moves neither contracts nor beliefs.                        *)
LEMMA QuietStep ==
    ASSUME EngineInv, LoopTypeOK', UpdatesInPricing', BrokerHeld', Contracts' = Contracts,
           UNCHANGED <<sessions, account, missed, view, orders>>,
           slipped => slipped', position'.side = position.side,
           task # "off", task' # "off", task # "ended",
           task' = "ended" => ~IsOpen
    PROVE  EngineInv'
  <1>1. AccountBound'
    BY BoundGrows
  <1>2. ViewInStep' /\ AccountInStep' /\ SessionEndsFlat'
    BY PositionIs DEF EngineInv, ViewInStep, AccountInStep, SessionEndsFlat, BrokerHeld, IsOpen,
                      BrokerInv, BrokerTypeOK, Flat
  <1>. QED
    BY <1>1, <1>2 DEF EngineInv, OffIsFresh

(* The steps of the loop that leave broker and account alone, and the      *)
(* failures between them.                                                  *)
LEMMA LoopStepInv ==
    ASSUME EngineInv,
           \/ Read \/ Acked \/ BackoffOver \/ LoopError \/ StopEngine \/ Cancelled
    PROVE  EngineInv'
  <1>1. /\ UNCHANGED <<brokerVars, sessions, account, missed, view, slipped>>
        /\ task \notin {"off", "ended", "pricing"} /\ task' \notin {"off", "ended", "pricing"}
    BY DEF Read, Acked, EndOfBatch, BackoffOver, LoopError, StopEngine, Cancelled, LoopTop, Awaits,
           outside
  <1>2. LoopTypeOK'
    <2>1. Nothing \in [Kind -> 0..MaxBatch]
      BY EngineAssumption DEF Nothing
    <2>2. batch' \in [Kind -> 0..MaxBatch]
      BY <2>1 DEF EngineInv, LoopTypeOK, Read, Acked, BackoffOver, LoopError, StopEngine, Cancelled
    <2>3. task' \in Awaits \cup {"message", "closing"}
      BY DEF Read, Acked, EndOfBatch, BackoffOver, LoopError, StopEngine, Cancelled, LoopTop, Awaits
    <2>4. isRunning' \in BOOLEAN /\ current' \in Kind
      BY DEF EngineInv, LoopTypeOK, Read, Acked, BackoffOver, LoopError, StopEngine, Cancelled
    <2>. QED
      BY <1>1, <2>2, <2>3, <2>4 DEF EngineInv, LoopTypeOK
  <1>3. BrokerHeld' /\ Contracts' = Contracts
    BY <1>1, BrokerKept DEF EngineInv
  <1>4. UpdatesInPricing' /\ UNCHANGED <<orders, position>>
    BY <1>1 DEF EngineInv, UpdatesInPricing, brokerVars, books
  <1>. QED
    BY <1>1, <1>2, <1>3, <1>4, QuietStep

(* A message is taken, or the latest feature is looked up for it: either   *)
(* may set the price.                                                      *)
LEMMA MessageInv ==
    ASSUME EngineInv, Lookup \/ \E k \in Kind : TakeMessage(k)
    PROVE  EngineInv'
  <1>1. /\ UNCHANGED <<sessions, account, missed, view, slipped>>
        /\ task \in {"message", "lookup"} /\ task' \in {"pricing", "lookup", "ack"}
    BY DEF Lookup, TakeMessage, outside
  <1>2. LoopTypeOK'
    <2>1. CASE Lookup
      BY <2>1 DEF EngineInv, LoopTypeOK, Lookup, outside, Awaits
    <2>2. ASSUME NEW k \in Kind, TakeMessage(k)
          PROVE  LoopTypeOK'
      <3>1. batch[k] \in 0..MaxBatch /\ batch[k] > 0 /\ MaxBatch \in Nat
        BY <2>2, EngineAssumption DEF EngineInv, LoopTypeOK, TakeMessage
      <3>2. batch' \in [Kind -> 0..MaxBatch]
        BY <2>2, <3>1 DEF EngineInv, LoopTypeOK, TakeMessage
      <3>. QED
        BY <1>1, <2>2, <3>2 DEF EngineInv, LoopTypeOK, TakeMessage, Awaits
    <2>. QED
      BY <2>1, <2>2
  <1>3. CASE task' = "pricing"
    <2>1. PICK p \in Price, h \in HalfSpread : UpdatePrice(p, p - h, p + h)
      BY <1>3 DEF Lookup, TakeMessage
    <2>2. /\ BrokerHeld' /\ updating' /\ Contracts' = Contracts
          /\ position' = position /\ orders' = orders
      BY <2>1, QuoteKept DEF EngineInv
    <2>. QED
      BY <1>1, <1>2, <1>3, <2>2, QuietStep DEF UpdatesInPricing
  <1>4. CASE task' # "pricing"
    <2>1. UNCHANGED brokerVars
      BY <1>4 DEF Lookup, TakeMessage
    <2>2. BrokerHeld' /\ Contracts' = Contracts
      BY <2>1, BrokerKept DEF EngineInv
    <2>3. UpdatesInPricing' /\ UNCHANGED <<orders, position>>
      BY <1>1, <1>4, <2>1 DEF EngineInv, UpdatesInPricing, brokerVars, books
    <2>. QED
      BY <1>1, <1>2, <2>2, <2>3, QuietStep
  <1>. QED
    BY <1>3, <1>4

(* The update of the price ends.                                           *)
LEMMA PricedInv ==
    ASSUME EngineInv, Priced
    PROVE  EngineInv'
  <1>1. /\ UNCHANGED <<sessions, account, missed, view, slipped>>
        /\ task = "pricing" /\ task' \in {"strategy", "ack"}
    BY DEF Priced, outside
  <1>2. LoopTypeOK'
    BY DEF EngineInv, LoopTypeOK, Priced, outside, Awaits
  <1>3. /\ BrokerHeld' /\ ~updating' /\ Contracts' = Contracts
        /\ position'.side = position.side /\ orders' = orders
    BY MarkKept DEF Priced, EngineInv
  <1>. QED
    BY <1>1, <1>2, <1>3, QuietStep DEF UpdatesInPricing

(* The strategy's signal is carried out, or it raises.                     *)
LEMMA StrategyInv ==
    ASSUME EngineInv, OnBar \/ OnBarRaises
    PROVE  EngineInv'
  <1>1. /\ UNCHANGED <<sessions, isRunning, batch, current>>
        /\ task = "strategy" /\ task' = "ack"
    BY DEF OnBar, OnBarRaises, outside
  <1>2. BrokerHeld /\ view \in View /\ ~updating
    BY <1>1 DEF EngineInv, LoopTypeOK, UpdatesInPricing
  <1>3. CASE OnBarRaises
    <2>1. PICK a \in Answers(view) : view' = a[2] /\ slipped' = (slipped \/ view' # view)
      BY <1>3 DEF OnBarRaises
    <2>2. /\ UNCHANGED <<brokerVars, account, missed, orders, position>>
      BY <1>3 DEF OnBarRaises, outside, brokerVars, books
    <2>3. LoopTypeOK'
      BY <1>1, <1>2, <2>1, <2>2, AnswersAre DEF EngineInv, LoopTypeOK, Awaits
    <2>4. BrokerHeld' /\ Contracts' = Contracts
      BY <1>2, <2>2, BrokerKept
    <2>5. AccountBound'
      BY <1>1, <2>2, BoundGrows
    <2>6. UpdatesInPricing' /\ OffIsFresh' /\ ViewInStep' /\ AccountInStep' /\ SessionEndsFlat'
      BY <1>1, <1>2, <2>1, <2>2, <2>4 DEF EngineInv, UpdatesInPricing, OffIsFresh, ViewInStep, AccountInStep,
           SessionEndsFlat, brokerVars
    <2>. QED
      BY <2>3, <2>4, <2>5, <2>6 DEF EngineInv
  <1>4. CASE OnBar
    <2>1. PICK a \in Answers(view) : view' = a[2] /\ HandleSignal(a[1])
      BY <1>4 DEF OnBar
    <2>2. slipped' = slipped
      BY <1>4 DEF OnBar
    <2>3. /\ a[1] \in Signal /\ a[2] \in View
          /\ a[1] = "HOLD" => a[2] = view
          /\ view = "FLAT" => \/ a[1] = "BUY" /\ a[2] = "LONG"
                              \/ a[1] = "SELL" /\ a[2] = "SHORT"
                              \/ a[1] = "HOLD"
          /\ view = "LONG" => \/ a[1] = "SELL" /\ a[2] = "FLAT"
                              \/ a[1] = "HOLD"
          /\ view = "SHORT" => \/ a[1] = "BUY" /\ a[2] = "FLAT"
                               \/ a[1] = "HOLD"
      BY <1>2, <2>1, AnswersAre
    <2>4. ~slipped => view = position.side
      BY <1>1 DEF EngineInv, ViewInStep
    <2>5. ~missed => account = Contracts
      BY DEF EngineInv, AccountInStep
    <2>6. /\ BrokerHeld' /\ ~updating'
          /\ ~slipped => view' = position'.side
          /\ ~missed' => account' = Contracts'
          /\ \/ orders' = orders /\ account' = account
             \/ orders' = orders + 1 /\ account' \in {account - 1, account, account + 1}
          /\ missed' \in BOOLEAN
      <3>1. CASE ~IsOpen /\ a[1] \in Side /\ SubmitMarket(a[1], 1) /\ KisOrder(a[1])
        <4>1. /\ BrokerHeld'
              /\ position'.side = (IF a[1] = "BUY" THEN "LONG" ELSE "SHORT")
              /\ Contracts' = (IF a[1] = "BUY" THEN 1 ELSE -1)
              /\ orders' = orders + 1 /\ updating' = updating
          BY <1>2, <3>1, EnterOne
        <4>2. position.side = "FLAT" /\ Contracts = 0
          BY <1>2, <3>1, PositionIs DEF Flat
        <4>. QED
          BY <1>2, <2>1, <2>3, <2>4, <2>5, <3>1, <4>1, <4>2, KisOrderIs DEF Side
      <3>2. CASE /\ IsOpen /\ a[1] = (IF position.side = "LONG" THEN "SELL" ELSE "BUY")
                 /\ ClosePosition /\ KisOrder(a[1])
        <4>1. /\ BrokerHeld' /\ position' = Flat /\ Contracts' = 0
              /\ orders' = orders + 1 /\ updating' = updating
          BY <1>2, <3>2, CloseOne
        <4>2. /\ position.side \in {"LONG", "SHORT"}
              /\ Contracts = IF position.side = "LONG" THEN 1 ELSE -1
          BY <1>2, <3>2, PositionIs
        <4>. QED
          BY <1>2, <2>1, <2>3, <2>4, <2>5, <3>2, <4>1, <4>2, KisOrderIs DEF Side, Flat
      <3>3. CASE /\ a[1] = "HOLD" \/ (a[1] = "BUY" /\ position.side = "LONG")
                                  \/ (a[1] = "SELL" /\ position.side = "SHORT")
                 /\ UNCHANGED <<brokerVars, account, missed>>
        <4>1. BrokerHeld' /\ Contracts' = Contracts
          BY <1>2, <3>3, BrokerKept
        <4>2. UNCHANGED <<orders, position, updating>>
          BY <3>3 DEF brokerVars, books
        <4>. QED
          BY <1>2, <2>1, <2>3, <2>4, <2>5, <3>3, <4>1, <4>2 DEF EngineInv, LoopTypeOK
      <3>. QED
        BY <2>1, <3>1, <3>2, <3>3 DEF HandleSignal
    <2>7. AccountBound'
      BY <1>1, <2>6, BoundGrows
    <2>8. LoopTypeOK'
      BY <1>1, <2>1, <2>2, <2>3, <2>6 DEF EngineInv, LoopTypeOK, Awaits
    <2>9. UpdatesInPricing' /\ OffIsFresh' /\ ViewInStep' /\ AccountInStep' /\ SessionEndsFlat'
      BY <1>1, <2>2, <2>6 DEF UpdatesInPricing, OffIsFresh, ViewInStep, AccountInStep, SessionEndsFlat
    <2>. QED
      BY <2>6, <2>7, <2>8, <2>9 DEF EngineInv
  <1>. QED
    BY <1>3, <1>4

(* The clean-up closes what is open, here and at KIS.                      *)
LEMMA CleanupInv ==
    ASSUME EngineInv, Cleanup
    PROVE  EngineInv'
  <1>1. /\ UNCHANGED <<sessions, batch, current, view, slipped>>
        /\ task = "closing" /\ task' = "ended" /\ isRunning' = FALSE
    BY DEF Cleanup
  <1>2. BrokerHeld /\ ~updating
    BY <1>1 DEF EngineInv, UpdatesInPricing
  <1>3. ~missed => account = Contracts
    BY DEF EngineInv, AccountInStep
  <1>4. /\ BrokerHeld' /\ ~updating' /\ ~IsOpen'
        /\ ~missed' => account' = Contracts'
        /\ \/ orders' = orders /\ account' = account
           \/ orders' = orders + 1 /\ account' \in {account - 1, account, account + 1}
        /\ missed' \in BOOLEAN
    <2>1. CASE ~IsOpen
      <3>1. UNCHANGED <<brokerVars, account, missed>>
        BY <2>1 DEF Cleanup
      <3>2. BrokerHeld' /\ Contracts' = Contracts
        BY <1>2, <3>1, BrokerKept
      <3>3. UNCHANGED <<orders, position, updating>>
        BY <3>1 DEF brokerVars, books
      <3>. QED
        BY <1>2, <1>3, <2>1, <3>1, <3>2, <3>3 DEF IsOpen, EngineInv, LoopTypeOK
    <2>2. CASE IsOpen
      <3>1. ClosePosition /\ KisOrder(IF position.side = "LONG" THEN "SELL" ELSE "BUY")
        BY <2>2 DEF Cleanup
      <3>2. /\ BrokerHeld' /\ position' = Flat /\ Contracts' = 0
            /\ orders' = orders + 1 /\ updating' = updating
        BY <1>2, <3>1, CloseOne
      <3>3. /\ position.side \in {"LONG", "SHORT"}
            /\ Contracts = IF position.side = "LONG" THEN 1 ELSE -1
        BY <1>2, <2>2, PositionIs
      <3>. QED
        BY <1>2, <1>3, <3>1, <3>2, <3>3, KisOrderIs DEF Side, IsOpen, Flat
    <2>. QED
      BY <2>1, <2>2
  <1>5. AccountBound'
    BY <1>1, <1>4, BoundGrows
  <1>6. LoopTypeOK'
    BY <1>1, <1>4 DEF EngineInv, LoopTypeOK, Awaits
  <1>7. UpdatesInPricing' /\ OffIsFresh' /\ ViewInStep' /\ AccountInStep' /\ SessionEndsFlat'
    BY <1>1, <1>4 DEF UpdatesInPricing, OffIsFresh, ViewInStep, AccountInStep, SessionEndsFlat
  <1>. QED
    BY <1>4, <1>5, <1>6, <1>7 DEF EngineInv

(* A session starts.                                                       *)
LEMMA StartInv ==
    ASSUME EngineInv, StartEngine
    PROVE  EngineInv'
  <1>1. /\ UNCHANGED <<brokerVars, account, missed, slipped, view, batch, current>>
        /\ task = "off" /\ task' = "reading" /\ isRunning' = TRUE
        /\ sessions' = sessions + 1 /\ sessions < MaxSessions
    BY DEF StartEngine
  <1>2. BrokerHeld' /\ Contracts' = Contracts
    BY <1>1, BrokerKept DEF EngineInv
  <1>3. UNCHANGED <<orders, position, updating>>
    BY <1>1 DEF brokerVars, books
  <1>4. LoopTypeOK'
    BY <1>1, EngineAssumption DEF EngineInv, LoopTypeOK, Awaits
  <1>5. AccountBound'
    <2>1. sessions \in Nat /\ Over' = Over
      BY <1>1, EngineAssumption DEF EngineInv, LoopTypeOK, Over
    <2>2. OrdersSent' = OrdersSent
      BY <1>3, <2>1 DEF OrdersSent
    <2>. QED
      BY <1>1, <2>1, <2>2 DEF EngineInv, AccountBound
  <1>6. UpdatesInPricing' /\ OffIsFresh' /\ ViewInStep' /\ AccountInStep' /\ SessionEndsFlat'
    BY <1>1, <1>2, <1>3 DEF EngineInv, UpdatesInPricing, OffIsFresh, ViewInStep, AccountInStep,
                            SessionEndsFlat, Flat
  <1>. QED
    BY <1>2, <1>4, <1>5, <1>6 DEF EngineInv

(* What a new broker looks like: the invariant holds of it.                *)
NewBroker ==
    /\ market = [price |-> 0, bid |-> 0, ask |-> 0]
    /\ position = Flat /\ resting = {}
    /\ capital = InitialCapital
    /\ last = [side |-> "NONE", closed |-> TRUE, pnl |-> 0] /\ earlier = 0
    /\ updating = FALSE /\ seen = 0 /\ hits = {}
    /\ orders = 0 /\ fees = 0 /\ cash = 0

(* A new broker has its invariant and no contracts.                        *)
LEMMA NewBrokerInv == NewBroker => BrokerHeld /\ Contracts = 0
  <1>. SUFFICES ASSUME NewBroker PROVE BrokerHeld /\ Contracts = 0
    OBVIOUS
  <1>1. BrokerInv
    BY BrokerInitInv DEF NewBroker, BrokerInit
  <1>2. OneContract /\ MoneySpent /\ Contracts = 0
    BY DEF NewBroker, OneContract, MoneySpent, ClosedPnl, CostOfHeld, IsOpen, Flat, Contracts
  <1>. QED
    BY <1>1, <1>2 DEF BrokerHeld

(* The process ends: what it held at KIS stays there, and is noted.        *)
LEMMA DiesInv ==
    ASSUME EngineInv, EngineDies
    PROVE  EngineInv'
  <1>1. /\ task # "off" /\ task' = "off" /\ isRunning' = FALSE /\ batch' = Nothing
        /\ current' = "feature" /\ view' = "FLAT" /\ NewBroker'
        /\ missed' = (missed \/ account # 0) /\ slipped' = FALSE
        /\ UNCHANGED <<sessions, account>>
    BY DEF EngineDies, NewBroker
  <1>2. BrokerHeld' /\ Contracts' = 0
    <2>1. (NewBroker => BrokerHeld /\ Contracts = 0)'
      BY NewBrokerInv, PTL
    <2>. QED
      BY <1>1, <2>1
  <1>3. missed' \in BOOLEAN /\ (~missed' => account = 0)
    BY <1>1 DEF EngineInv, LoopTypeOK
  <1>4. LoopTypeOK'
    <2>1. Nothing \in [Kind -> 0..MaxBatch]
      BY EngineAssumption DEF Nothing
    <2>. QED
      BY <1>1, <1>3, <2>1 DEF EngineInv, LoopTypeOK, Kind, View
  <1>5. AccountBound'
    <2>1. /\ sessions \in Nat /\ sessions > 0 /\ orders \in 0..MaxOrders /\ MaxOrders \in Nat
          /\ Over = sessions - 1 /\ Over' = sessions /\ orders' = 0
      BY <1>1, BrokerNumbers, EngineAssumption
         DEF EngineInv, LoopTypeOK, AccountBound, BrokerHeld, Over, NewBroker
    <2>2. /\ (sessions - 1) * MaxOrders \in Nat
          /\ sessions * MaxOrders = (sessions - 1) * MaxOrders + MaxOrders
      BY <2>1
    <2>3. OrdersSent \in Nat /\ OrdersSent' \in Nat /\ OrdersSent <= OrdersSent'
      BY <2>1, <2>2 DEF OrdersSent
    <2>4. account \in -OrdersSent..OrdersSent
      BY DEF EngineInv, AccountBound
    <2>5. \A m, n \in Nat : m <= n => -m..m \subseteq -n..n
      OBVIOUS
    <2>. QED
      BY <1>1, <2>3, <2>4, <2>5 DEF AccountBound
  <1>6. /\ UpdatesInPricing' /\ OffIsFresh' /\ ViewInStep' /\ SessionEndsFlat'
        /\ AccountInStep'
    BY <1>1, <1>2, <1>3 DEF UpdatesInPricing, OffIsFresh, ViewInStep, AccountInStep,
                            SessionEndsFlat, NewBroker
  <1>. QED
    BY <1>2, <1>4, <1>5, <1>6 DEF EngineInv

(* The invariant holds before the first session, ...                       *)
LEMMA EngineInitInv == EngineInit => EngineInv
  <1>. SUFFICES ASSUME EngineInit PROVE EngineInv
    OBVIOUS
  <1>1. NewBroker
    BY DEF EngineInit, BrokerInit, NewBroker
  <1>2. BrokerHeld /\ Contracts = 0
    BY <1>1, NewBrokerInv
  <1>3. LoopTypeOK
    <2>1. Nothing \in [Kind -> 0..MaxBatch] /\ 0 \in 0..MaxSessions
      BY EngineAssumption DEF Nothing
    <2>. QED
      BY <2>1 DEF EngineInit, LoopTypeOK, Kind, View
  <1>4. AccountBound
    <2>1. Over = 0 /\ orders = 0 /\ MaxOrders \in Nat
      BY <1>1, BrokerAssumption DEF EngineInit, Over, NewBroker
    <2>2. OrdersSent = 0
      BY <2>1 DEF OrdersSent
    <2>. QED
      BY <2>2 DEF EngineInit, AccountBound
  <1>5. UpdatesInPricing /\ OffIsFresh /\ ViewInStep /\ AccountInStep /\ SessionEndsFlat
    BY <1>1, <1>2 DEF EngineInit, NewBroker, UpdatesInPricing, OffIsFresh, ViewInStep,
                      AccountInStep, SessionEndsFlat
  <1>. QED
    BY <1>2, <1>3, <1>4, <1>5 DEF EngineInv

(* ... and every step keeps it.                                            *)
LEMMA EngineNextInv == EngineInv /\ [EngineNext]_engineVars => EngineInv'
  <1>. SUFFICES ASSUME EngineInv, [EngineNext]_engineVars PROVE EngineInv'
    OBVIOUS
  <1>1. CASE UNCHANGED engineVars
    <2>1. BrokerHeld' /\ Contracts' = Contracts
      BY <1>1, BrokerKept DEF engineVars, EngineInv
    <2>. QED
      BY <1>1, <2>1 DEF engineVars, loop, outside, brokerVars, books, EngineInv, LoopTypeOK,
                        UpdatesInPricing, OffIsFresh, AccountBound, OrdersSent, Over, ViewInStep,
                        AccountInStep, SessionEndsFlat, IsOpen
  <1>. QED
    BY <1>1, StartInv, LoopStepInv, MessageInv, PricedInv, StrategyInv, CleanupInv, DiesInv
       DEF EngineNext, EngineStep

(* The inductive invariant of engine, broker and account.                  *)
THEOREM EngineInvariant == EngineSpec => []EngineInv
  BY EngineInitInv, EngineNextInv, PTL DEF EngineSpec

(* Everything keeps its shape, and the strategy believes in the position   *)
(* that the broker holds, whatever is cancelled, stopped or fails.         *)
THEOREM EngineIsSound == EngineSpec => []EngineSound
  <1>1. EngineInv => EngineSound
    <2>. SUFFICES ASSUME EngineInv PROVE EngineSound
      OBVIOUS
    <2>1. account \in -(MaxSessions * MaxOrders)..(MaxSessions * MaxOrders)
      <3>1. /\ sessions \in 0..MaxSessions /\ orders \in 0..MaxOrders /\ MaxOrders \in Nat
            /\ MaxSessions \in Nat /\ (task # "off" => sessions > 0)
            /\ (task = "off" => orders = 0)
            /\ account \in -OrdersSent..OrdersSent
        BY BrokerNumbers, EngineAssumption
           DEF EngineInv, LoopTypeOK, AccountBound, OffIsFresh, BrokerHeld
      <3>2. Over \in Nat /\ ((orders = 0 /\ Over <= MaxSessions) \/ Over + 1 <= MaxSessions)
        BY <3>1 DEF Over
      <3>3. ASSUME NEW n \in Nat, NEW m \in Nat, n <= m
            PROVE  n * MaxOrders \in Nat /\ n * MaxOrders <= m * MaxOrders
        BY <3>1, <3>3
      <3>4. OrdersSent \in Nat /\ OrdersSent <= MaxSessions * MaxOrders
        <4>1. (Over + 1) * MaxOrders = Over * MaxOrders + MaxOrders
          BY <3>1, <3>2
        <4>. QED
          BY <3>1, <3>2, <3>3, <4>1 DEF OrdersSent
      <3>. QED
        BY <3>1, <3>4
    <2>. QED
      BY <2>1 DEF EngineInv, EngineSound, EngineTypeOK, LoopTypeOK, BrokerHeld, BrokerInv
  <1>. QED
    BY <1>1, EngineInvariant, PTL

(* While KIS carries out every order, its account holds what the virtual   *)
(* broker holds.                                                           *)
THEOREM AccountFollowsBroker == EngineSpec => []AccountInStep
  BY EngineInvariant, PTL DEF EngineInv

(* A session that has ended holds nothing.                                 *)
THEOREM SessionsEndFlat == EngineSpec => []SessionEndsFlat
  BY EngineInvariant, PTL DEF EngineInv

(* After every update the equity in the broker's books is the money the    *)
(* fills brought in, less the commissions, plus what is held at the price. *)
THEOREM EquityTrue == EngineSpec => EquityIsTrue
  <1>1. EngineInv /\ [EngineNext]_engineVars =>
          [task = "pricing" /\ task' # "off" =>
             capital' + position'.unrealized =
               InitialCapital + cash' - fees' + TickValue * market'.price * Contracts']_engineVars
    <2>. SUFFICES ASSUME EngineInv, EngineNext, task = "pricing", task' # "off"
                  PROVE  capital' + position'.unrealized =
                           InitialCapital + cash' - fees' + TickValue * market'.price * Contracts'
      BY DEF engineVars
    <2>1. Priced
      BY DEF EngineNext, EngineStep, StartEngine, Read, Lookup, Acked, BackoffOver, OnBar, Cleanup,
             TakeMessage, LoopError, OnBarRaises, StopEngine, Cancelled, EngineDies, Awaits
    <2>2. EndUpdate /\ BrokerHeld
      BY <2>1 DEF Priced, EngineInv
    <2>3. /\ BrokerHeld' /\ Contracts' = Contracts
          /\ UNCHANGED <<market, capital, cash, fees>>
          /\ position' = IF IsOpen THEN [position EXCEPT !.unrealized = Mark] ELSE position
      BY <2>2, MarkKept DEF EndUpdate
    <2> DEFINE v == TickValue * market.price
    <2>4. /\ InitialCapital \in Int /\ cash \in Int /\ fees \in Int /\ capital \in Int
          /\ market.price \in Nat /\ TickValue \in Nat /\ v \in Int
      BY <2>2, BrokerNumbers DEF BrokerHeld
    <2>5. capital = InitialCapital + (cash + CostOfHeld) - fees
      BY <2>2 DEF BrokerHeld, MoneySpent, BrokerInv, CapitalReconciles
    <2>6. CASE ~IsOpen
      <3>1. position'.unrealized = 0 /\ Contracts' = 0 /\ CostOfHeld = 0
        BY <2>2, <2>3, <2>6, PositionIs DEF Flat, CostOfHeld
      <3>2. v * 0 = 0
        BY <2>4
      <3>. QED
        BY <2>3, <2>4, <2>5, <3>1, <3>2
    <2>7. CASE IsOpen
      <3> DEFINE c == TickValue * position.cost
      <3>1. /\ position.cost \in Int /\ position.quantity = 1
            /\ position.side \in {"LONG", "SHORT"}
            /\ Contracts = IF position.side = "LONG" THEN 1 ELSE -1
            /\ position'.unrealized = Mark
        BY <2>2, <2>3, <2>7, PositionIs
      <3>2. c \in Int /\ CostOfHeld = IF position.side = "LONG" THEN c ELSE -c
        BY <2>4, <2>7, <3>1 DEF CostOfHeld
      <3>3. Mark = IF position.side = "LONG" THEN v - c ELSE c - v
        BY <2>4, <3>1 DEF Mark
      <3>4. v * Contracts = IF position.side = "LONG" THEN v ELSE -v
        BY <2>4, <3>1
      <3>. HIDE DEF v, c
      <3>5. capital' + position'.unrealized = InitialCapital + cash' - fees' + v * Contracts'
        BY <2>3, <2>4, <2>5, <3>1, <3>2, <3>3, <3>4
      <3>. QED
        BY <2>3, <3>5 DEF v
    <2>. QED
      BY <2>6, <2>7
  <1>. QED
    BY <1>1, EngineInvariant, PTL DEF EngineSpec, EquityIsTrue
=============================================================================
