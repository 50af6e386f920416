----------------------------- MODULE PaperEngine -----------------------------
(***************************************************************************)
(* PaperTradingEngine of src/paper_trading/paper_engine.py: one asyncio    *)
(* task that reads the feature and the prediction stream, keeps the price  *)
(* of a VirtualBroker up to date, asks the trend_confirmed strategy for a  *)
(* signal, and carries it out twice: in the virtual broker and, through    *)
(* KISOrderBridge, as a market order for one contract at the KIS account.  *)
(*                                                                         *)
(* Between two awaits the task is alone; the steps named "pricing" and     *)
(* "strategy" lie inside one handler, and only the end of the process can  *)
(* come between them.  Messages are counted, not kept; a quote is a price  *)
(* and half a spread.  The engine's orders are market orders for one       *)
(* contract, so nothing rests in the broker's book.                        *)
(***************************************************************************)
EXTENDS VirtualBroker, Signals

CONSTANTS HalfSpread,   \* half of the spread, in ticks
          MaxBatch,     \* messages of a stream in one answer (count=10)
          MaxSessions   \* bound: processes started

ASSUME EngineAssumption ==
    /\ HalfSpread \subseteq Nat
    /\ \A p \in Price, h \in HalfSpread : h <= p      \* no quote is negative
    /\ MaxBatch \in Nat \ {0} /\ MaxSessions \in Nat \ {0}

VARIABLES
    task,       \* where start() is
    isRunning,  \* self.is_running
    batch,      \* messages of the last answer still to be handled
    current,    \* the kind of message being handled
    view,       \* the position the strategy believes in
    sessions,   \* history: processes started
    account,    \* net contracts at KIS: outlives the process
    missed,     \* history: a KIS order was not carried out, or the process
                \* ended without closing what it held at KIS
    slipped     \* history: on_bar() raised after changing its position

loop    == <<task, isRunning, batch, current>>
outside == <<sessions, account, missed>>
engineVars == <<brokerVars, loop, view, outside, slipped>>

Kind   == {"feature", "prediction"}

(* The awaits at which stop(), a timeout or a cancellation can get in.     *)
Awaits == {"reading", "lookup", "ack", "backoff"}

EngineTypeOK ==
    /\ BrokerTypeOK
    /\ task \in Awaits \cup {"off", "message", "pricing", "strategy", "closing", "ended"}
    /\ isRunning \in BOOLEAN
    /\ batch \in [Kind -> 0..MaxBatch]
    /\ current \in Kind
    /\ view \in View
    /\ sessions \in 0..MaxSessions
    /\ account \in -(MaxSessions * MaxOrders)..(MaxSessions * MaxOrders)
    /\ missed \in BOOLEAN /\ slipped \in BOOLEAN

Nothing == [k \in Kind |-> 0]

EngineInit ==
    /\ BrokerInit
    /\ task = "off" /\ isRunning = FALSE /\ batch = Nothing /\ current = "feature"
    /\ view = "FLAT"
    /\ sessions = 0 /\ account = 0
    /\ missed = FALSE /\ slipped = FALSE

-----------------------------------------------------------------------------
(* The loop                                                                *)

StartEngine ==
    /\ task = "off" /\ sessions < MaxSessions
    /\ task' = "reading" /\ isRunning' = TRUE
    /\ sessions' = sessions + 1
    /\ UNCHANGED <<brokerVars, batch, current, view, account, missed, slipped>>

(* A loop that never looks at is_running.                                  *)
LoopTopBlind == "reading"

(* The top of the loop: is_running is looked at only here.                 *)
LoopTop == IF isRunning THEN "reading" ELSE "closing"

Read ==
    /\ task = "reading"
    /\ batch' \in [Kind -> 0..MaxBatch]
    /\ task' = IF batch' = Nothing THEN LoopTop ELSE "message"
    /\ UNCHANGED <<brokerVars, isRunning, current, view, outside, slipped>>

(* The next message, features first: _process_prediction() awaits the      *)
(* latest feature; a message that does not parse is only acknowledged.     *)
TakeMessage(k) ==
    /\ task = "message" /\ batch[k] > 0
    /\ k = "prediction" => batch["feature"] = 0
    /\ batch' = [batch EXCEPT ![k] = @ - 1]
    /\ current' = k
    /\ UNCHANGED <<isRunning, view, outside, slipped>>
    /\ \/ /\ k = "feature"
          /\ \E p \in Price, h \in HalfSpread : UpdatePrice(p, p - h, p + h)
          /\ task' = "pricing"
       \/ /\ k = "prediction"
          /\ task' = "lookup"
          /\ UNCHANGED brokerVars
       \/ /\ task' = "ack"
          /\ UNCHANGED brokerVars

Lookup ==
    /\ task = "lookup"
    /\ \/ /\ \E p \in Price, h \in HalfSpread : UpdatePrice(p, p - h, p + h)
          /\ task' = "pricing"
       \/ /\ task' = "ack"
          /\ UNCHANGED brokerVars
    /\ UNCHANGED <<isRunning, batch, current, view, outside, slipped>>

Priced ==
    /\ task = "pricing"
    /\ EndUpdate
    /\ task' = IF current = "prediction" THEN "strategy" ELSE "ack"
    /\ UNCHANGED <<isRunning, batch, current, view, outside, slipped>>

EndOfBatch(b) == IF b = Nothing THEN LoopTop ELSE "message"

Acked ==
    /\ task = "ack"
    /\ task' = EndOfBatch(batch)
    /\ UNCHANGED <<brokerVars, isRunning, batch, current, view, outside, slipped>>

(* xreadgroup() or xack() raises: the rest of the answer is given up.      *)
LoopError ==
    /\ task \in {"reading", "ack"}
    /\ task' = "backoff" /\ batch' = Nothing
    /\ UNCHANGED <<brokerVars, isRunning, current, view, outside, slipped>>

BackoffOver ==
    /\ task = "backoff"
    /\ task' = LoopTop
    /\ UNCHANGED <<brokerVars, isRunning, batch, current, view, outside, slipped>>

-----------------------------------------------------------------------------
(* Signals                                                                 *)

(* place_order(): the engine never looks at its result.                    *)
KisOrder(side) ==
    \/ /\ account' = IF side = "BUY" THEN account + 1 ELSE account - 1
       /\ UNCHANGED missed
    \/ /\ UNCHANGED account
       /\ missed' = TRUE

(* The case of a short position forgotten.                                 *)
HandleSignalNoCover(sig) ==
    \/ /\ ~IsOpen /\ sig \in Side
       /\ SubmitMarket(sig, 1)
       /\ KisOrder(sig)
    \/ /\ IsOpen /\ sig = "SELL" /\ position.side = "LONG"
       /\ ClosePosition
       /\ KisOrder(sig)
    \/ /\ sig = "HOLD" \/ (IsOpen /\ sig = "BUY") \/ position.side = "SHORT"
       /\ UNCHANGED <<brokerVars, account, missed>>

(* _handle_signal().                                                       *)
HandleSignal(sig) ==
    \/ /\ ~IsOpen /\ sig \in Side
       /\ SubmitMarket(sig, 1)
       /\ KisOrder(sig)
    \/ /\ IsOpen /\ sig = (IF position.side = "LONG" THEN "SELL" ELSE "BUY")
       /\ ClosePosition
       /\ KisOrder(sig)
    \/ /\ sig = "HOLD" \/ (sig = "BUY" /\ position.side = "LONG")
                       \/ (sig = "SELL" /\ position.side = "SHORT")
       /\ UNCHANGED <<brokerVars, account, missed>>

(* on_bar() and _handle_signal().  The bound leaves an order for the close.*)
OnBar ==
    /\ task = "strategy"
    /\ \E a \in Answers(view) :
         /\ a[1] = "HOLD" \/ IsOpen \/ orders + 2 <= MaxOrders
         /\ view' = a[2]
         /\ HandleSignal(a[1])
    /\ task' = "ack"
    /\ UNCHANGED <<isRunning, batch, current, sessions, slipped>>

(* on_bar() raises, before or after it has changed its own position.       *)
OnBarRaises ==
    /\ task = "strategy"
    /\ \E a \in Answers(view) : view' = a[2] /\ slipped' = (slipped \/ view' # view)
    /\ task' = "ack"
    /\ UNCHANGED <<brokerVars, isRunning, batch, current, outside>>

-----------------------------------------------------------------------------
(* The end                                                                 *)

StopEngine ==
    /\ task \in Awaits /\ isRunning
    /\ isRunning' = FALSE
    /\ UNCHANGED <<brokerVars, task, batch, current, view, outside, slipped>>

(* A cancellation that leaves without the clean-up.                        *)
CancelledUnclean ==
    /\ task \in Awaits
    /\ task' = "ended" /\ batch' = Nothing
    /\ UNCHANGED <<brokerVars, isRunning, current, view, outside, slipped>>

(* wait_for()'s timeout, or a cancellation.                                *)
Cancelled ==
    /\ task \in Awaits
    /\ task' = "closing" /\ batch' = Nothing
    /\ UNCHANGED <<brokerVars, isRunning, current, view, outside, slipped>>

(* Closing the virtual position first, and then looking for its side.      *)
CleanupReversed ==
    /\ task = "closing"
    /\ IF IsOpen THEN KisOrder("BUY") /\ ClosePosition
                 ELSE UNCHANGED <<brokerVars, account, missed>>
    /\ task' = "ended" /\ isRunning' = FALSE
    /\ UNCHANGED <<batch, current, view, sessions, slipped>>

(* The `finally` of start(): is_running = False and _cleanup().            *)
Cleanup ==
    /\ task = "closing"
    /\ IF IsOpen
       THEN /\ KisOrder(IF position.side = "LONG" THEN "SELL" ELSE "BUY")
            /\ ClosePosition
       ELSE UNCHANGED <<brokerVars, account, missed>>
    /\ task' = "ended" /\ isRunning' = FALSE
    /\ UNCHANGED <<batch, current, view, sessions, slipped>>

(* The process is over or killed; the next one has a new broker and a new  *)
(* strategy, both flat.                                                    *)
EngineDies ==
    /\ task # "off"
    /\ task' = "off" /\ isRunning' = FALSE /\ batch' = Nothing /\ current' = "feature"
    /\ view' = "FLAT"
    /\ market' = [price |-> 0, bid |-> 0, ask |-> 0]
    /\ position' = Flat /\ resting' = {}
    /\ capital' = InitialCapital
    /\ last' = [side |-> "NONE", closed |-> TRUE, pnl |-> 0] /\ earlier' = 0
    /\ updating' = FALSE /\ seen' = 0 /\ hits' = {}
    /\ orders' = 0 /\ fees' = 0 /\ cash' = 0
    /\ missed' = (missed \/ account # 0)
    /\ slipped' = FALSE
    /\ UNCHANGED <<sessions, account>>

EngineStep ==
    \/ Read \/ Lookup \/ Priced \/ Acked \/ BackoffOver \/ OnBar \/ Cleanup
    \/ \E k \in Kind : TakeMessage(k)

EngineNext ==
    \/ StartEngine \/ EngineStep \/ LoopError \/ OnBarRaises
    \/ StopEngine \/ Cancelled \/ EngineDies

(* The event loop runs the task, and xreadgroup() returns after at most a  *)
(* second with or without messages.                                        *)
EngineSpec == EngineInit /\ [][EngineNext]_engineVars /\ WF_engineVars(EngineStep)

-----------------------------------------------------------------------------
(* Properties                                                              *)

(* While the session runs the strategy believes in the position that the   *)
(* broker holds, unless on_bar() once failed half-way: no cancellation,    *)
(* stop or failing call to Redis loses a signal between the two.           *)
ViewInStep ==
    ~slipped /\ task \notin {"ended", "off"} => view = position.side

(* With it, task, batches, broker and accounts keep their shape.           *)
EngineSound == EngineTypeOK /\ ViewInStep

Contracts ==
    CASE position.side = "LONG"  -> position.quantity
      [] position.side = "SHORT" -> -position.quantity
      [] OTHER -> 0

(* As long as KIS has carried out every order, the account at KIS holds    *)
(* what the virtual broker holds, through signals, half-failed strategies, *)
(* cancellations and the close at the end of the session.                  *)
AccountInStep == ~missed => account = Contracts

(* A session that has ended holds nothing.                                 *)
SessionEndsFlat == task = "ended" => ~IsOpen

(* After an update the equity is what the fills brought in, less their     *)
(* commissions, plus the position at the current price: the books of the   *)
(* broker (capital, trades, unrealized_pnl) miss nothing that this engine  *)
(* does.                                                                   *)
EquityIsTrue ==
    [][task = "pricing" /\ task' # "off" =>
         capital' + position'.unrealized =
           InitialCapital + cash' - fees' + TickValue * market'.price * Contracts']_engineVars

(* stop() ends the session: whatever it interrupts, the loop gets to its   *)
(* top and the engine to its clean-up.                                     *)
StopEnds == ~isRunning ~> task \in {"ended", "off"}
=============================================================================
