------------------------------- MODULE Pipeline -------------------------------
(***************************************************************************)
(* The way of live trading from a tick to the account: the processes that  *)
(* make candles, features and predictions of ticks, the strategy that      *)
(* answers a bar with a signal, and the manager that trades the signals.   *)
(* Each leaves open what it is given, and so they share no state here: a   *)
(* behaviour is one of one of them, the others standing still.             *)
(***************************************************************************)
EXTENDS MarketData, TrendConfirmed, LiveTrading

VARIABLE stretch    \* the part of the way whose behaviour this is

pipelineVars == <<stretch, marketVars, strategyVars, liveVars>>

Stretches == {"market", "strategy", "manager"}

(* The others stand still in one of their initial states.                  *)
PipelineInit ==
    /\ stretch \in Stretches
    /\ MarketInit /\ LiveInit
    /\ StrategyInit /\ (stretch # "strategy" => predictor)

MarketStretch ==
    stretch = "market" /\ MarketNext /\ UNCHANGED <<stretch, strategyVars, liveVars>>

StrategyStretch ==
    stretch = "strategy" /\ StrategyNext /\ UNCHANGED <<stretch, marketVars, liveVars>>

ManagerStretch ==
    stretch = "manager" /\ LiveNext /\ UNCHANGED <<stretch, marketVars, strategyVars>>

PipelineNext == MarketStretch \/ StrategyStretch \/ ManagerStretch

PipelineSpec == PipelineInit /\ [][PipelineNext]_pipelineVars
===============================================================================
