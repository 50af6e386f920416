------------------------------ MODULE Components ------------------------------
(***************************************************************************)
(* The parts of the system whose steps nobody waits for: the broker of     *)
(* paper trading as it stands, whoever orders, the candles of the tick     *)
(* collector with its database, the backfill of history, the backtest, the *)
(* calendar of contracts, the work on prices already collected             *)
(* ("workbench") and what the services share or run beside them            *)
(* ("support").  A behaviour is one of one of them, the others standing    *)
(* still: as nothing connects them here, this shows of each what a model   *)
(* of its own would show, without the product of their states.             *)
(***************************************************************************)
EXTENDS VirtualBroker, TickCollector, Backfill, Backtest, Contracts,
        Research, Training, Replay, Indicators, TrendFilter,
        AnomalyDetector, PerformanceTracker, TradeNotifier, AlertQueue,
        Backpressure, StateSnapshot, TokenCache

-----------------------------------------------------------------------------
(* The parts that work on prices already collected: the preparation of a   *)
(* continuous series and of its labels, the scripts that train models,     *)
(* their backtests, and the indicators and the filter that the trend       *)
(* engine reads the models with.  They meet only in files and in the calls *)
(* that each module leaves open.                                           *)

VARIABLE bench   \* the part that works

workbenchVars == <<bench, researchVars, trainingVars, replayVars,
                   indicatorVars, filterVars>>

WorkbenchParts == {"series", "training", "replay", "indicators", "filter"}

(* The others stand still in one of their initial states.                  *)
WorkbenchInit ==
    /\ bench \in WorkbenchParts
    /\ ResearchInit /\ TrainingInit /\ IndicatorsInit /\ TrendInit
    /\ ReplayInit
    /\ bench # "replay" =>
          script = "classifier" /\ closes = <<CHOOSE p \in BarPrices : TRUE>>

SeriesPart ==
    /\ bench = "series" /\ Record
    /\ UNCHANGED <<bench, trainingVars, replayVars, indicatorVars, filterVars>>

TrainingPart ==
    /\ bench = "training" /\ TrainingNext
    /\ UNCHANGED <<bench, researchVars, replayVars, indicatorVars, filterVars>>

ReplayPart ==
    /\ bench = "replay" /\ ReplayNext
    /\ UNCHANGED <<bench, researchVars, trainingVars, indicatorVars,
                   filterVars>>

IndicatorsPart ==
    /\ bench = "indicators" /\ IndicatorsNext
    /\ UNCHANGED <<bench, researchVars, trainingVars, replayVars, filterVars>>

FilterPart ==
    /\ bench = "filter" /\ TrendNext
    /\ UNCHANGED <<bench, researchVars, trainingVars, replayVars,
                   indicatorVars>>

WorkbenchNext ==
    \/ SeriesPart \/ TrainingPart \/ ReplayPart
    \/ IndicatorsPart \/ FilterPart

-----------------------------------------------------------------------------
(* What the services of the system share or run beside them: the detector  *)
(* of anomalies, the tracker of performance, the notifier of trades and    *)
(* the queue its messages go through, the check of a stream's lag, the     *)
(* snapshots of a service's state and the access token of the broker.      *)

VARIABLE helper   \* the part that runs

supportVars == <<helper, anomalyVars, performanceVars, notifierVars, queueVars,
                 backpressureVars, snapshotVars, tokenVars>>

SupportParts == {"anomalies", "performance", "notifier", "queue", "lag",
                 "snapshots", "token"}

(* The others stand still in one of their initial states.                  *)
SupportInit ==
    /\ helper \in SupportParts
    /\ AnomalyInit /\ PressureInit /\ SnapshotInit /\ TokenInit
    /\ PerformanceInit /\ (helper # "performance" => database)
    /\ NotifierInit /\ (helper # "notifier" => earned = [t \in Trades |-> 1])
    /\ QueueInit /\ (helper # "queue" => tradingDay)

AnomalyPart ==
    /\ helper = "anomalies" /\ AnomalyNext
    /\ UNCHANGED <<helper, performanceVars, notifierVars, queueVars,
                   backpressureVars, snapshotVars, tokenVars>>

PerformancePart ==
    /\ helper = "performance" /\ PerformanceNext
    /\ UNCHANGED <<helper, anomalyVars, notifierVars, queueVars,
                   backpressureVars, snapshotVars, tokenVars>>

NotifierPart ==
    /\ helper = "notifier" /\ NotifierNext
    /\ UNCHANGED <<helper, anomalyVars, performanceVars, queueVars,
                   backpressureVars, snapshotVars, tokenVars>>

QueuePart ==
    /\ helper = "queue" /\ QueueNext
    /\ UNCHANGED <<helper, anomalyVars, performanceVars, notifierVars,
                   backpressureVars, snapshotVars, tokenVars>>

LagPart ==
    /\ helper = "lag" /\ PressureNext
    /\ UNCHANGED <<helper, anomalyVars, performanceVars, notifierVars,
                   queueVars, snapshotVars, tokenVars>>

SnapshotPart ==
    /\ helper = "snapshots" /\ SnapshotNext
    /\ UNCHANGED <<helper, anomalyVars, performanceVars, notifierVars,
                   queueVars, backpressureVars, tokenVars>>

TokenPart ==
    /\ helper = "token" /\ TokenNext
    /\ UNCHANGED <<helper, anomalyVars, performanceVars, notifierVars,
                   queueVars, backpressureVars, snapshotVars>>

SupportNext ==
    \/ AnomalyPart \/ PerformancePart \/ NotifierPart
    \/ QueuePart \/ LagPart \/ SnapshotPart
    \/ TokenPart

-----------------------------------------------------------------------------
(* All of them                                                             *)

VARIABLE part   \* the part whose behaviour this is

candleVars == <<clock, faults, collectorVars>>

componentVars == <<part, brokerVars, candleVars, backfillVars, backtestVars,
                   contractVars, workbenchVars, supportVars>>

Parts == {"broker", "candles", "backfill", "backtest", "contracts",
          "workbench", "support"}

(* The others stand still in one of their initial states.                  *)
Init ==
    /\ part \in Parts
    /\ BrokerInit /\ CollectorInit /\ ContractsInit
    /\ BackfillInit
    /\ part # "backfill" =>
          product = "mini" /\ elapsed = 0 /\ \A t \in Tasks : traded[t] = {}
    /\ product # "mini" => \A t \in Tasks : traded[t] \in {{}, Second}
    /\ BacktestInit /\ (part # "backtest" => rule = "Breakout" /\ prepared)
    /\ WorkbenchInit /\ (part # "workbench" => bench = "series")
    /\ SupportInit /\ (part # "support" => helper = "token")

BrokerPart ==
    /\ part = "broker" /\ BrokerNext
    /\ UNCHANGED <<part, candleVars, backfillVars, backtestVars, contractVars,
                   workbenchVars, supportVars>>

CandlePart ==
    /\ part = "candles" /\ CollectorNext
    /\ UNCHANGED <<part, brokerVars, backfillVars, backtestVars, contractVars,
                   workbenchVars, supportVars>>

BackfillPart ==
    /\ part = "backfill" /\ BackfillNext
    /\ UNCHANGED <<part, brokerVars, candleVars, backtestVars, contractVars,
                   workbenchVars, supportVars>>

BacktestPart ==
    /\ part = "backtest" /\ BacktestNext
    /\ UNCHANGED <<part, brokerVars, candleVars, backfillVars, contractVars,
                   workbenchVars, supportVars>>

ContractPart ==
    /\ part = "contracts" /\ Midnight
    /\ UNCHANGED <<part, brokerVars, candleVars, backfillVars, backtestVars,
                   workbenchVars, supportVars>>

WorkbenchPart ==
    /\ part = "workbench" /\ WorkbenchNext
    /\ UNCHANGED <<part, brokerVars, candleVars, backfillVars, backtestVars,
                   contractVars, supportVars>>

SupportPart ==
    /\ part = "support" /\ SupportNext
    /\ UNCHANGED <<part, brokerVars, candleVars, backfillVars, backtestVars,
                   contractVars, workbenchVars>>

Next ==
    \/ BrokerPart \/ CandlePart \/ BackfillPart
    \/ BacktestPart \/ ContractPart \/ WorkbenchPart
    \/ SupportPart

Spec == Init /\ [][Next]_componentVars

-----------------------------------------------------------------------------
(* Properties                                                              *)

(* A model is made of what was known, and is kept and judged as it was:    *)
(* the series, the labels and the samples, the files of a directory of     *)
(* models, and what the backtests report of their trades.                  *)
OfflineSound == ResearchSound /\ TrainingSound /\ ReplaySound

(* The trend engine's decisions: its indicators are those of the whole     *)
(* history, and its filter counts and decides what it says it does.        *)
TrendSound == IndicatorsSound /\ TrendFilterSound

(* What the operators are told of: anomalies, the numbers of the day, the  *)
(* messages of trades and the queue that brings them.                      *)
MonitoringSound ==
    AnomaliesSound /\ PerformanceSound /\ NotifierSound /\ QueueSound

(* What the services lean on: the lag they are throttled by, the state     *)
(* they start again with and the token they call the broker with.          *)
CommonSound == PressureSound /\ SnapshotSound /\ TokensSound

(* The contracts, on the days on which the calendar moves.                 *)
ContractsSound == part = "contracts" => ContractsAgree
===============================================================================
