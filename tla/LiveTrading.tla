----------------------------- MODULE LiveTrading -----------------------------
(***************************************************************************)
(* StrategyManager of src/strategy/strategy_manager.py: the StreamConsumer *)
(* of the prediction stream whose process_message asks the strategy for a  *)
(* signal, has the order executed at KIS (src/collector/kis_order.py), and *)
(* publishes it to the order stream.                                       *)
(*                                                                         *)
(* The strategy is what module Strategy promises.  It changes its position *)
(* first, and nobody tells it what has become of the order.  Orders are    *)
(* market orders for one contract.  The account and the two streams        *)
(* outlive the process; the strategy does not.                             *)
(***************************************************************************)
EXTENDS StreamConsumer, Integers, Signals

CONSTANT MaxChanges     \* bound: changes of the strategy's position

ASSUME LiveAssumption == MaxChanges \in Nat

VARIABLES
    view,       \* the position the strategy believes in
    stage,      \* of process_message: "idle", "decided" or "executed"
    order,      \* the side of the last order
    account,    \* net contracts at KIS
    executed,   \* history: orders KIS has carried out
    announced,  \* history: orders published to the order stream
    changes,    \* history: changes of the strategy's position
    slips,      \* history: times that the account and the strategy parted
    unsaid      \* history: executed orders whose publication went wrong

trading  == <<view, stage, order, account, executed, announced, changes, slips, unsaid>>
liveVars == <<vars, trading>>

LiveTypeOK ==
    /\ TypeOK
    /\ view \in View
    /\ stage \in {"idle", "decided", "executed"}
    /\ order \in {"BUY", "SELL"}
    /\ account \in Int
    /\ executed \in Nat /\ announced \in Nat /\ changes \in 0..MaxChanges
    /\ slips \in Nat /\ unsaid \in Nat

LiveInit ==
    /\ Init
    /\ view = "FLAT" /\ stage = "idle" /\ order = "BUY"
    /\ account = 0 /\ executed = 0 /\ announced = 0
    /\ changes = 0 /\ slips = 0 /\ unsaid = 0

Net(v) == CASE v = "LONG" -> 1 [] v = "SHORT" -> -1 [] OTHER -> 0

Contracts(side) == IF side = "BUY" THEN 1 ELSE -1

(* The part of the strategy's position that orders were sent for.          *)
Carried == Net(view) - (IF stage = "decided" THEN Contracts(order) ELSE 0)

-----------------------------------------------------------------------------
(* The consumer around process_message                                     *)

(* A new process: a new strategy, which is flat.                           *)
ManagerStarts == Start /\ UNCHANGED trading

EntryArrives == Publish /\ UNCHANGED trading

Interrupted == Stop /\ UNCHANGED trading

ManagerReads ==
    /\ stage = "idle"
    /\ EnterLoop \/ ReadNew \/ ReadNewFails \/ Ack \/ AckFails
    /\ UNCHANGED trading

(* run() returns, or the process dies wherever it is.  What the strategy   *)
(* held, and an order that was executed and not published, are forgotten.  *)
ManagerEnds ==
    /\ Die \/ (stage = "idle" /\ LeaveLoop)
    /\ view' = "FLAT" /\ stage' = "idle"
    /\ slips' = IF Carried = 0 THEN slips ELSE slips + 1
    /\ unsaid' = IF stage = "executed" THEN unsaid + 1 ELSE unsaid
    /\ UNCHANGED <<order, account, executed, announced, changes>>

-----------------------------------------------------------------------------
(* process_message                                                         *)

(* No symbol, no feature, or HOLD: True.                                   *)
NoOrder ==
    /\ stage = "idle"
    /\ \E i \in batch : HandleOk(i)
    /\ UNCHANGED trading

(* The message cannot be parsed, or the strategy raises: False.  Its       *)
(* position may have changed.                                              *)
StrategyRaises ==
    /\ stage = "idle"
    /\ \E i \in batch : HandleFails(i)
    /\ \E a \in Answers(view) : view' = a[2]
    /\ IF view' = view THEN UNCHANGED <<changes, slips>>
       ELSE /\ changes < MaxChanges
            /\ changes' = changes + 1 /\ slips' = slips + 1
    /\ UNCHANGED <<stage, order, account, executed, announced, unsaid>>

(* BUY or SELL for the oldest entry of the batch.                          *)
Decide ==
    /\ stage = "idle" /\ mode # "down" /\ acking = None /\ changes < MaxChanges
    /\ \E i \in batch : \A j \in batch : i <= j
    /\ \E a \in Answers(view) :
         /\ a[1] # "HOLD"
         /\ order' = a[1] /\ view' = a[2]
    /\ stage' = "decided" /\ changes' = changes + 1
    /\ UNCHANGED <<vars, account, executed, announced, slips, unsaid>>

(* place_order() answers with an order number.  The adapter is one whose   *)
(* KIS API could be set up: one that falls back to a dry run accepts every *)
(* order without sending it.                                               *)
OrderAccepted ==
    /\ stage = "decided"
    /\ stage' = "executed"
    /\ account' = account + Contracts(order) /\ executed' = executed + 1
    /\ UNCHANGED <<vars, view, order, announced, changes, slips, unsaid>>

(* A publication that does not wait for the executor's verdict.            *)
OrderRefusedAnnounced ==
    /\ stage = "decided"
    /\ \E i \in batch : HandleOk(i)
    /\ stage' = "idle" /\ slips' = slips + 1 /\ announced' = announced + 1
    /\ UNCHANGED <<view, order, account, executed, changes, unsaid>>

(* KIS refuses, or is never reached: no order number, which is no failure  *)
(* of process_message.                                                     *)
OrderRefused ==
    /\ stage = "decided"
    /\ \E i \in batch : HandleOk(i)
    /\ stage' = "idle" /\ slips' = slips + 1
    /\ UNCHANGED <<view, order, account, executed, announced, changes, unsaid>>

(* No access token: place_order() raises outside of its `try`.             *)
OrderRaises ==
    /\ stage = "decided"
    /\ \E i \in batch : HandleFails(i)
    /\ stage' = "idle" /\ slips' = slips + 1
    /\ UNCHANGED <<view, order, account, executed, announced, changes, unsaid>>

(* An order sent again because its answer did not come.                    *)
OrderSentAgain ==
    /\ stage = "decided"
    /\ \E i \in batch : HandleOk(i)
    /\ stage' = "idle"
    /\ account' = account + 2 * Contracts(order) /\ executed' = executed + 2
    /\ unsaid' = unsaid + 2
    /\ UNCHANGED <<view, order, announced, changes, slips>>

(* KIS has carried it out, but the answer is late, broken, or without an   *)
(* order number: taken for a refusal.                                      *)
OrderUnanswered ==
    /\ stage = "decided"
    /\ \E i \in batch : HandleOk(i)
    /\ stage' = "idle"
    /\ account' = account + Contracts(order) /\ executed' = executed + 1
    /\ unsaid' = unsaid + 1
    /\ UNCHANGED <<view, order, announced, changes, slips>>

Announce ==
    /\ stage = "executed"
    /\ \E i \in batch : HandleOk(i)
    /\ stage' = "idle" /\ announced' = announced + 1
    /\ UNCHANGED <<view, order, account, executed, changes, slips, unsaid>>

(* publish() raises before or after XADD took effect, or the trade alert   *)
(* does: False, for an order that was executed.                            *)
AnnounceRaises ==
    /\ stage = "executed"
    /\ \E i \in batch : HandleFails(i)
    /\ stage' = "idle"
    /\ \/ announced' = announced + 1 /\ UNCHANGED unsaid
       \/ unsaid' = unsaid + 1 /\ UNCHANGED announced
    /\ UNCHANGED <<view, order, account, executed, changes, slips>>

LiveNext ==
    \/ ManagerStarts \/ EntryArrives \/ Interrupted \/ ManagerReads \/ ManagerEnds
    \/ NoOrder \/ StrategyRaises \/ Decide
    \/ OrderAccepted \/ OrderRefused \/ OrderRaises \/ OrderUnanswered
    \/ Announce \/ AnnounceRaises

LiveSpec == LiveInit /\ [][LiveNext]_liveVars

-----------------------------------------------------------------------------
(* Properties                                                              *)

(* The account never differs from what the strategy believes, and has had  *)
(* orders sent for, by more contracts than there were refused orders,      *)
(* raising calls, and processes that ended with a position: redelivered    *)
(* predictions, lost answers and failing publications add nothing to it.   *)
(* (With a KIS executor that is set up; see OrderAccepted.)                *)
AccountFollowsView ==
    account - Carried \in -slips..slips

(* An order is sent only for a prediction that is still pending and that   *)
(* this run has not handled before: no acknowledged prediction is traded,  *)
(* and none twice by one process.                                          *)
TradesPendingOnce ==
    stage # "idle" =>
        \E i \in batch : /\ \A j \in batch : i <= j
                         /\ i \in pending \ handled

(* The order stream tells of executed orders only, and of all of them but  *)
(* the one in hand and those whose answer or publication went wrong.       *)
(* (With a KIS executor that is set up: the silent fallback to a dry run   *)
(* announces orders that KIS never saw.)                                   *)
OrdersAnnounced ==
    executed = announced + unsaid + (IF stage = "executed" THEN 1 ELSE 0)
=============================================================================
