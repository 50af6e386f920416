# Verification of kospi_mini_sts

TLA+ models of the KOSPI 200 mini-futures trading system, model-checked with
TLC and, for most components, proved with TLAPS (see Proofs for what is and what
is not). Every definition that models code has its source
lines in `PROJECT.json` ("map").

## The system

The services are separate Python processes around Redis Streams:

```
KIS websocket -> collectors -> RAW_TICK_STREAM -> FeatureProcessor
   -> FEATURE_STREAM + feature_window:<symbol> -> PredictionEngine
   -> PREDICTION_STREAM -> StrategyManager -> KIS orders, ORDER_STREAM
FEATURE_STREAM -> DBLogger -> ClickHouse
FEATURE_STREAM + PREDICTION_STREAM -> PaperTradingEngine -> VirtualBroker + KIS
heartbeat:<component> keys -> HealthChecker -> AlertService -> Telegram
AlertQueue, TradeNotifier, AnomalyDetector, PerformanceTracker -> Telegram
files of bars -> adjusted series, labels -> trained models -> offline backtests
```

| component | state | operations | what makes it hard |
|---|---|---|---|
| `StreamPublisher`, `StreamConsumer` (`common/redis_client.py`) | the stream, its group (cursor, pending list); `running`, the batch in hand | publish, read pending, read new, handle, ack, stop | failing handlers, lost answers, crash between handler and ack, restarts, trimming |
| `BatchInserter` (`common/clickhouse_client.py`) | buffer, lock, flusher thread | add, flush, flush loop, stop | two threads, a lock taken twice, failed inserts, Ctrl-C |
| `DBLogger` (`db_logger/db_logger.py`) | a consumer over an inserter | process_message, start, stop | acknowledges what is only in memory |
| `VirtualBroker` (`paper_trading/virtual_broker.py`) | quote, position, resting orders, trades, capital | submit, cancel, close, update_price | three books written in different branches; fills while looping over the orders |
| `PaperTradingEngine`, `KISOrderBridge` (`paper_trading/paper_engine.py`) | loop position, batch, broker, strategy, KIS account | read, feature, prediction, signal, stop, clean-up | cancellation at awaits, failing calls half-way, two accounts to keep equal, killed process |
| `TrendConfirmedStrategy`, `TrendPositionManager` (`strategy/`) | position, stop price, entry time, cooldown | on_bar, open, exit checks, close | exits in order, trailing stop monotone, cooldown |
| `StrategyManager` (`strategy/strategy_manager.py`) | a consumer with a strategy and an executor | process_message | strategy changed before the order is executed; redelivery |
| `TickDataCollector`, `KISWebSocket` (`collector/`) | the open minute candle, the connection | on trade, disconnect, stop | minute and day boundaries, failed inserts, lost connections |
| `FeatureProcessor`, `PredictionEngine` | candle being gathered, window, window key in Redis | process_message | three processes share one expiring key, redelivered ticks, restarts with empty memory |
| `CircuitBreaker` (`common/circuit_breaker.py`) | state, two counters, time of opening | can_execute, record_success, record_failure, reset, force_open | results that arrive after the state has changed |
| `HealthChecker` (`monitoring/`) | failures and status per service | rounds of checks, alerts | checks wait for the delivery of their own alerts while heartbeats age; a delivery or an answer that never comes |
| `AlertService` (`monitoring/`) | queue, sleeping retries, audit buffer, lock | queue, send immediately, deliver, retry, stop | several tasks deliver at once; a lock taken twice |
| `PaperTradingService` (`scripts/paper_trading_service.py`) | child processes, pid files, the engine's day | daily schedule, start, report, stop | SIGTERM at any await, dead children, failed sessions begun again |
| historical backfill (`collector/historical/backfill.py`) | the table's bars, the page cursor | page, aggregate, insert, skip | bars where pages meet, broken runs, days taken for complete |
| backtest engine and rule-based strategies (`backtest/`, `strategy/strategies/`) | position, capital, daily limits, the strategy's own view | a bar | order of exits and entries, two views of one position |
| futures contracts (`common/futures_code.py`, `collector/historical/futures.py`, `collector/tick_collector.py`) | none | front and back month, listed contracts, codes | three calculations of one thing around expiries and years' ends |
| series, labels and splits (`docker-training/scripts/`) | none | taking rolls out, labels, samples | what a label or a factor may know, rows where the parts meet |
| training scripts (`docker-training/scripts/training/`) | models, metadata and a scaler in one directory | prepare, epoch, finish | runs killed half-way, one scaler for several models |
| offline backtests (`docker-training/scripts/backtest*.py`) | the trade in hand, the curve | a bar, the end of the data | fills a bar later, barriers in order, the last trade |
| indicators and regime (`strategy/trend/technical_indicators.py`, `strategy/regime_detector.py`) | bounded windows, averages kept bar by bar | update, reset | windows shorter than their periods, two true ranges |
| trend engine and ensemble filter (`strategy/trend/`) | calibration windows, counters, one position | check, check several horizons | decisions before calibration, a forecast that shifts its own mean |
| performance tracker (`monitoring/performance_tracker.py`) | totals per symbol, a buffer and its lock | record, reset, aggregate, flush, stop | a lock taken twice, a peak shared by symbols, a database that may be missing |
| anomaly detector (`monitoring/anomaly_detector.py`) | what was recorded, anomalies that are active | record, detection loop, restart | alerts once each, streaks over a restart |
| trade notifier (`monitoring/trade_notifier.py`) | counters of the day in memory and in Redis | notify, reset | overlapping tasks, a reset of what a restart should keep |
| alert queue (`common/telegram.py`) | the Redis list, the alert in hand | enqueue, take, send, retry | answers lost, crashes between taking and putting back |
| backpressure (`common/backpressure.py`) | the lag last seen, the last alert | check, ask for advice | a query for each group while the groups go on, a failed one counts as no lag |
| state snapshots (`common/state_snapshot.py`) | one key of Redis | save, load, clear, a thread that saves | a state read before and saved after |
| access token (`common/kis_token.py`) | a token per process, and a file | get, refresh, invalidate | time spent waiting for an answer, processes sharing the file |

The remaining parts (reporting, queries, command line, dashboards, metrics, the
market briefing) keep no state that a later step reads; `PROJECT.json` lists each
with the reason it is left out.

## Modules

- **AtLeastOnce** - what a consumer group promises the pipeline: an entry is
  settled only after its handler has completed at least once.
- **StreamConsumer** - one stream, its group and its worker. Entries are
  numbers in the order of their XADD. `Publish` is `StreamPublisher.publish`
  with any approximate trimming Redis may do; `Start`/`EnterLoop` are the two
  halves of `run()`; `ReadNew`, `HandleOk`, `HandleFails`, `Ack`, `AckFails`,
  `ReadNewFails` are the loop and its error paths; `Stop`, `LeaveLoop` and `Die`
  end a worker. Redis itself (XADD with MAXLEN, XREADGROUP with `>` and `0`) is
  external and modelled from its use.
- **BatchInserter** - threads `main` and `flusher` with a program counter each,
  `self._lock` with its owner and kind. `FlushStep` is `_flush()` cut where
  other threads can get in: after the copy, around the insert, and before
  the rows are put back. `kind` is the class of the lock: the code's
  `threading.Lock`, or the `RLock` the tests substitute.
- **DbLogger** - composes the two: `process_message` calls `Add`, and only when
  `add()` has returned does the consumer acknowledge (`HandleReturns`).
- **VirtualBroker** - prices in ticks, the average entry price kept as exact
  cost, the loop of `update_price` over the resting orders cut into one step
  per order. `fees` and `cash` are history variables written by `Fill`.
- **PaperEngine** - extends VirtualBroker with the asyncio task of the engine,
  the strategy's own view of the position (`view`) and the contracts at the KIS
  account (`account`), which outlive the process.
- **Signals** - what a strategy may answer to a bar from each position, and the
  position it then believes in (`Answers`). **Strategy** is the abstract strategy
  made of it: all that the two engines below rely on.
- **TrendPosition** - `TrendPositionManager`: opening with the capped stop
  distance, the trailing stop, the exits in the code's order, the cooldown.
  Prices are ticks; `highest_price` and `lowest_price` are one field `best`, as
  only the one on the position's side is read. Time is kept as the differences the
  code looks at, capped where it stops telling them apart. `max_stop_points` is
  set, as every caller does.
- **TrendConfirmed** - one action per way through `generate_signal`: a bar with
  a position (`HoldOn`, `GetOut`), one before the indicators are ready
  (`WarmUp`), one that enters (`GetIn`) or does not (`StayOut`), with the
  prediction cache (`Predict`). The network and the filters are any outcome they
  may have. It implements Strategy.
- **LiveTrading** - extends StreamConsumer with `StrategyManager.process_message`
  in three stages (decide, execute, publish), each of which may raise or be the
  last thing the process does. The strategy is Strategy's; what the strategy
  believes, what KIS has carried out and what the order stream says are kept
  apart. `slips` and `unsaid` count what may part them.
- **TickCollector** - the clock in minutes, a websocket that connects and breaks,
  trades, the open candle and the table's rows, one per minute. A handler is one
  step, as one thread does all. `lost` collects the trades whose loss the code
  accepts (failed insert, killed process, a row replaced by another). A row has the
  minute of its candle's start and the date of its flush, as in the code.
- **FeatureProcessor** - extends it with the consumer of the raw stream:
  `HandleTick` is `process_message` up to the publication, `PublishFeature` the
  rest, as a restart may come between. The indicators are left out but for how many
  candles they need.
- **MarketData** - adds the prediction engine, a consumer of features that reads the
  window key. Candles carry the trades they are made of, so that a window can be
  judged.
- **CircuitBreaker** - a caller's two visits to the breaker are two steps, with its
  call in between. `goodRun`, `badRun` are history: the results in a row that were
  successes or failures since the last change of state.
- **AlertService** - the worker, the stopper and the senders as asyncio tasks, each
  with an alert in hand and the await it is at. `wedged` says that a task waits for
  the audit lock it holds itself.
- **HealthChecker** - a round of checks over a unit of time (15 s): probed systems
  side by side, heartbeats one after the other, each change of status holding up
  what comes behind it while its alert is delivered, for a unit of time, several or
  for ever. `late` collects the services in whose silence some wait took more than one.
- **TradingService** - a trading day in four parts, the daemon's position in its
  loop (`doing`), three child processes, which may die and become zombies, and
  their pid files. `Terminate` is SIGTERM at any await.
- **Backtest** - what each rule-based strategy may answer from what it remembers, and
  `_process_bar()` as one action per bar, with the engine's position, the strategy's own
  one, money, daily limits and trading hours.
- **Backfill** - pages from the latest record backwards, bars of a minute as counts
  of the records they were made of, runs that break and runs that skip days. Rows that
  ClickHouse has not merged yet count twice, so that a short day may count as complete.
- **Contracts** - the calendar, day by day, and the three calculations as operators.
- **Research** - a series that grows bar by bar; the ways to take contract rolls out
  of it, the three scripts' labels, the split and the samples as operators of it.
- **Training** - runs of the three scripts into one directory, an epoch at a time.
- **Replay** - both offline backtests, an action per bar.
- **Indicators** - `TechnicalCalculator` and `RegimeDetector` fed the same bars; `fed`
  keeps the bars they have dropped, for comparison.
- **TrendFilter** - `TrendEngine` with its filter and calibrator; forecasts and
  markets are drawn from a few that the thresholds tell apart.
- **PerformanceTracker**, **AnomalyDetector**, **TradeNotifier**, **AlertQueue** - the
  monitoring classes, as coroutines between their awaits. `database` says whether the
  tracker was given a ClickHouse client; `known` are the symbols it keeps totals of,
  which have rows even when a reset has emptied them.
- **Backpressure**, **StateSnapshot**, **TokenCache** - what the services share, with
  Redis, threads and the token's server around it. Each question to the
  backpressure monitor is a call of its own that asks one group after another, and
  the groups read and acknowledge in between.
- **Pipeline** (market data, trend strategy, strategy manager), **Operations** (circuit
  breaker, alert service, health checker, daemon) and **Components** (broker, candles,
  backfill, backtest, contracts; its *workbench*: series and labels, training, offline
  backtests, indicators, trend engine; its *support*: the last seven above) - parts
  that share no state, side by side (see below).
- The theorems: **StreamConsumerProofs**, **WorkersProofs** (the two modules that extend
  the consumer: database logger and strategy manager), **TrendConfirmedProofs**,
  **PaperEngineProofs** (broker and engine), **MarketDataProofs** (collector, processor,
  prediction engine), **OperationsProofs** (circuit breaker, alert service, health
  checker, daemon), **ComponentsProofs** (the parts of `Components` but those of
  its workbench) and **WorkbenchProofs** (the latter).

```
AtLeastOnce <- StreamConsumer -> DbLogger (with BatchInserter)
                              -> LiveTrading (with Signals)
Strategy    <- TrendConfirmed (over TrendPosition, Signals)
VirtualBroker -> PaperEngine (with Signals)
TickCollector -> FeatureProcessor -> MarketData
MarketData, TrendConfirmed, LiveTrading -> Pipeline
CircuitBreaker, AlertService, HealthChecker, TradingService -> Operations
VirtualBroker, TickCollector, Backfill, Backtest, Contracts,
Research, Training, Replay, Indicators, TrendFilter,
PerformanceTracker, AnomalyDetector, TradeNotifier, AlertQueue,
Backpressure, StateSnapshot, TokenCache -> Components -> MCComponents
Research -> MCResearch -> MCComponents
                                    <- is implemented by, -> is extended by
```

`MCComponents` and `MCResearch` give the constants a configuration cannot write; the
other `MC*.cfg` files instantiate the modules directly. An operator whose comment
describes a fault (`AckBatch`, `LeaveResidue`, `CalibratedEarly`, ...) and which no action uses
is a variant used to test that the properties can fail.

## Runs

| run | configuration | what it shows | bounds |
|---|---|---|---|
| `stream` | MCStreamConsumer | no delivered entry is forgotten before its handler returned True (`NoneForgotten`); order and no repetition within a run; of the entries pending at a start, the oldest are retried before the loop begins (`OldestRetried`); the group implements AtLeastOnce; a living worker gets past every entry | 4 entries, windows of 2, cap of 2: pending lists longer than a window, trimming of pending and of undelivered entries, any number of crashes and restarts |
| `stream_pending_first` | MCStreamPendingFirst | **violated**: the comment "first handle the unhandled messages" holds for one window only | as above, cap of 4 |
| `db_logger` | MCDbLogger | acknowledged rows are stored, in memory, or were in hand when the process ended; no row in two batches; at most one batch at stake (`DbSound`); the buffer is flushed with an RLock | 3 entries, batches of 2, both kinds of lock: a full batch, a partial batch, a row added during a failing insert |
| `db_autoflush` | MCDbAutoFlush | **violated**: with the code's Lock nothing is flushed before stop() | Lock only |
| `broker_partial_close` | MCBrokerPartialClose | **violated**: profit is not cash flow when an order's quantity is not the position's | 3 orders, quantities 1-2, 2 prices |
| `paper_engine` | MCPaperEngine | strategy, broker and KIS account stay in step through stops, cancellations, Redis errors and exceptions; a session ends flat; equity equals cash plus position; stop() ends the session | 4 orders (two round trips), 2 processes, batches of up to 2+2 messages, 2 prices, spread of 2 ticks |
| `stale_prediction` | MCStalePrediction | **violated**: an entry uses a prediction older than the cache's N bars | cache of 3, as in the code |
| `pipeline` | MCPipeline | three parts one by one, see the next table | |
| `operations` | MCOperations | the four parts one by one, see the table after it | |
| `components` | MCComponents | seventeen parts one by one, see the last table | |
| `candle_date` | MCCandleDate | **violated**: a candle is not stored under the minute at which it began, if it is open at midnight | 2 trades, 5 minutes in days of 2 |
| `roll_adjustment` | MCAdjustRolls | **violated**: not the prices after a roll are scaled, but those before it | series of up to 4 bars of 6 shapes |

| part of `pipeline` | what it shows | bounds |
|---|---|---|
| trend strategy | stops tighten only and stay within the cap; no held position is beyond stop, target or time; the hard loss limit never decides; the cooldown holds for both ways in; TrendConfirmed implements Strategy | 7 prices, 3 ATRs, spread 0 or 2, steps of 1 or 2 minutes, time cut and cooldown of 2, cache of 2: the target, the stop, the hard limit and the time are each reached from both sides, by one bar or several |
| strategy manager | account and strategy part by counted slips only; orders are sent only for pending entries new to the run; the order stream tells of executed orders only (that the manager still implements AtLeastOnce is proved) | 3 entries, windows and cap of 2, 3 position changes: a round trip and a new entry, redelivery after any number of crashes |
| market data | a prediction is made from a full window of consecutive, unrepeated candles of one run of the processor; it has seen the candle whose feature caused it | 8 trades in 5 minutes, 1 fault of any kind anywhere, candles of 1 minute, windows of 2, 2 candles for the indicators, a key that lives 2 minutes: a first prediction, a window that has moved on before it is used, a restart with a window still in Redis, an expired key |

| part of `operations` | what it shows | bounds |
|---|---|---|
| circuit breaker | the circuit opens on enough failures and closes on enough successes only, late results included (`TransitionsEarned`); it closes again after the service has recovered (`Recovery`) | 2 callers, thresholds 3 and 2, a timeout of 2, 2 forced changes: a result of each kind recorded in each state |
| alert service | while it runs no alert is lost, sent twice or unaccounted for (`AlertsSound`); stop() ends unless the lock was taken twice before (`StopsEnd`) | 3 alerts, 2 retries, an audit batch of 4: worker, sender, retry and stopper side by side, a batch filled by retries |
| health checker | a silent service is known to be down within the detection time unless a delivery or an answer takes more than a unit of time meanwhile (`HealthSound`), one that works again as healthy as long as rounds end (`Recovery`) | 2 services with heartbeats and 1 probed, down after 2 failures |
| paper trading daemon | see `ServiceSound`; SIGTERM ends it (`StopsEnd`) | 2 processes, 4 days of which one is none to trade on, 2 exceptions: a session that fails and is begun again, a day after it |

| part of `components` | what it shows | bounds |
|---|---|---|
| broker | the books agree (`CapitalReconciles`), trades pair with positions (`LastTradeIsThePosition`), reached orders are filled (`NoneLeftBehind`) | 3 orders, quantities 1-2, 2 prices: entry, addition, partial and excess close, several fills in one update |
| candles | no trade is lost silently, counted twice or stored under another minute of the day; under a later day only in the candle that was open at midnight (`CandlesSound`; see `candle_date`) | 4 trades, 5 minutes in days of 2, 3 faults |
| backfill | bars are whole, days are stored from their end (`BackfillSound`) | 1 contract, 2 days, pages of 1 record, at most 3 pages, 5 seconds in minutes of 2, one broken run: a minute cut by a page, a day cut by the cap on pages |
| backtest | capital is cash, held positions are within every limit, the views part only when the engine closed on its own, time stops of the rules (`BacktestSound`) | 2 days of 4 slots, 3 prices, all strategies |
| contracts | the calculations agree but for the days between an expiry and the 15th; every code of a contract is read back as its own month (`ContractsSound`) | every day of 2023 to 2026 |
| series and labels (`OfflineSound`) | taking rolls out keeps every return and closes the gaps (which prices it scales: see `roll_adjustment`); a label is that of the first barrier reached; the scripts' labels differ only where a barrier was touched on the way; the features of no sample reach across the split, and only the labels of the last ones do | 5 bars of 6 shapes: a roll above and one below the threshold, and its return |
| training (`OfflineSound`) | the model kept is the best epoch's, whenever runs are killed; the scaler and the metadata are another run's only in the ways the code allows | 2 outputs, 2 runs, 3 epochs, patience of 2 |
| offline backtests (`OfflineSound`) | trades do not overlap and end at their first barrier; what the reported drawdown lacks | 4 bars, 3 prices, stops of 2 ticks, 2 bars held at most |
| indicators (`TrendSound`) | bounded windows give what all bars would; the two true ranges agree; the regime is confirmed | 5 bars of 4 kinds, periods of 2 and 3 and a cloud of 1, 2 and 4, detector windows of 3 |
| trend engine (`TrendSound`) | positions and checks are counted, entries are calibrated, a forecast that goes on does not reverse its own position | 5 checks, windows of 4, 3 forecasts of three horizons, 5 markets |
| performance (`MonitoringSound`) | each row is in one place, or dropped as there is no database; full batches are never stored; drawdowns are not hidden | 2 symbols, 3 trades, 3 passes, batches of 3, with a database and without |
| anomalies (`MonitoringSound`) | one alert for each anomaly; when a streak is critical; what a burst hides; no flapping | 4 records, windows of 4, 6 instants, restarts |
| notifier (`MonitoringSound`) | the counters of the day, what may be missing from them, a loss over the limit is said | 2 trades, 2 dates, 1 restart, each call may fail |
| alert queue (`MonitoringSound`) | every copy of an alert is accounted for; tries are limited; the last delay is never slept | 2 alerts, 3 attempts, 2 failures of Redis |
| backpressure (`CommonSound`) | each call's advice is right for lags the groups had during that call; what the cache may show; how far alerts are apart | 2 groups, 3 entries for each, 2 acknowledgements, 2 queries, levels of 1, 2 and 3, 3 moments, cooldown of 2: a group that falls behind or catches up between two queries |
| snapshots (`CommonSound`) | a snapshot is of the past and goes in time; an older one only by the race of two savers | 4 changes, 5 points in time, a key that lives 3 |
| token (`CommonSound`) | no token handed out has expired at the server; by how much the file may err | 2 processes, tokens that live 3, a margin and a delay of 1, 2 tokens |

Why these parts share three runs: each is a machine of its own, none reads what
another writes, and one behaviour of `Pipeline`, `Operations` or `Components` is a
behaviour of one of them. Separate runs would show the same; `stretch` and `part` keep
TLC from exploring their product. In `pipeline`, ticks become predictions in one part
and signals become orders in another; what passes between the parts (a feature
with its prediction) is any value it may have for the part that receives it. Only
`operations` checks liveness. The candles are also in `pipeline`, where the rows are
left out (`PersistCandles`) as no part of it reads them. The thresholds of the trend
engine are the code's; counts, periods and times are scaled down to the smallest
that keep the order in which the code compares them.

Why the bounds are enough: the interesting cases need two entries on either
side of a window's or the cap's edge, one batch more than full, two round
trips, and one restart; each is inside the bounds above. The theorems remove
them for every safety property but those listed at the end of Proofs.

Deadlock is checked except for `paper_engine`, where a session really ends
and the number of processes is bounded, `pipeline`, where trades and minutes run out,
`operations`, where the daemon ends and where a wedged alert service is a deadlock
the code has (`alert_service.py:320`; `StopsEnd` says that nothing else keeps it from
ending), and `components`, where bars, days, records and messages run out, and where
the performance tracker waits for itself (`FullBatchStuck`), and the two small runs
`candle_date` and `roll_adjustment`, which end.

Type invariants are conjuncts of the inductive invariants, and are proved with them.

### Fairness

- `stream`: weak fairness of the worker's own steps (the thread runs, calls
  return). No fairness of producers, restarts or failures: a handler may fail
  for ever, the worker may be down for ever.
- `db_logger`: weak fairness of both threads' steps and of the 100 ms poll of
  the flusher; strong fairness of a successful insert, i.e. ClickHouse does not
  fail every attempt for ever. `AutoFlush` is refuted under the same fairness,
  so the counterexample is a thread waiting for its own lock and not one that
  is simply not scheduled.
- `paper_engine`: weak fairness of the task's steps: the event loop runs it and
  `xreadgroup` returns within its block of one second. `stop()`, errors,
  cancellation and signals are not forced.
- `operations`: a disjunction, for the part that moves. Circuit breaker: callers
  keep calling, calls return, time passes. Alert service: the event loop runs its
  tasks, and calls to Telegram, Redis and ClickHouse return, with either result.
  Health checker: rounds begin, heartbeats of a working service are published, time
  passes; nothing makes a check or the delivery of its alert end, as
  `send_immediate()` hangs once the audit batch is full and `redis.get()` has no
  time-out, so `Recovery` supposes that rounds end. Daemon: its own steps, and
  time. Nothing forces services to recover, signals, failures or stops: `Recovery` and
  `StopsEnd` suppose them.
- `pipeline`, `components`: none, there is nothing live to check.

## Proofs

`StreamConsumerProofs`, for every ReadCount, MaxLen and MaxEntries:
`NoneForgotten` is not inductive by itself: an `Ack` removes an entry from the
pending list, so the handler must be known to have completed (`AckAfterDone`);
a restart must begin with empty hands (`DownHoldsNothing`) for `RunInOrder`; and
`OldestRetried` needs that what a run has not handled of the entries pending at its
start keeps a window of older ones before it, handled or still pending, all through
the run (`RetriedOrLeft`), and that the loop holds new entries only (`NewInLoop`).
`IInv` is their conjunction with the run's safety invariants. From it follow
type correctness, the four safety invariants and, step by step, that
`Spec` implements `AtLeastOnce!Spec` with settled entries mapped to delivered
ones that are neither pending nor skipped.

`WorkersProofs`, database logger, for both kinds of lock, every batch size and number of
entries: a flush by size or by time holds the lock from outside (`LockIsHeld`), so that
with the code's `Lock` none of them gets past its first line (`LockBlocks`); only a thread
inside a flush has rows of its own (`RowsInHand`), and no two hold the same row. While
`add()` has not returned, the entry in hand is the oldest of the batch, and every other
row in memory is of an entry already handled (`EntryInHand`). With the consumer's
`IInv`, reused by name, every acknowledged row is stored, in memory, or was in hand when
its process ended; and the logger implements AtLeastOnce.

`WorkersProofs`, strategy manager, for every window, cap, number of entries and of
trades: every step of the manager is a step of its consumer or leaves it alone
(`StepOfConsumer`), so the consumer's invariant and its refinement are reused by
name. `TradesPendingOnce` then follows from `HeldIsPending` (what a worker holds is
pending, proved here and not checked by a run) and `RunInOrder`, as
long as `process_message` runs in a living worker with nothing left to acknowledge
(`StageNeedsWorker`); `AccountFollowsView` needs that a process can forget one
contract at most (`CarriedIsOne`).

`PaperEngineProofs`, for every set of prices and quantities, fee, slippage and
number of orders. Broker: the three helpers of a fill are treated in one lemma each
(types, reconciliation, pairing). `NoneLeftBehind` needs that the loop has
filled every reached order behind it (`SeenAreServed`), which in turn needs
distinct ids (`IdsDistinct`). Engine: it trades one contract at a time and at the
market (`OneContract`), so that closed profit is the money that came in but for the
cost of what is held (`MoneySpent`), and a process that has not begun has a new broker
and a new strategy (`OffIsFresh`). From it follow that strategy, broker and account
stay in step, that a session ends flat and that equity is cash plus position.

`TrendConfirmedProofs`, for every set of prices, ATRs, spreads and gaps and every
setting: the stop lies at most `MaxStop` behind the best price (`RiskCapped`),
which is never behind the entry (`BestIsAhead`), so that the stop is at most
`MaxStop` from the entry whatever the ATR has done since; that makes the hard
limit of 1.5 `MaxStop` redundant. The cooldown needs that the manager's clock
`sinceStop` never runs ahead of the history clock `sinceLoss` (`CooldownCovers`).
The same step-by-step lemmas give the refinement of Strategy.

`MarketDataProofs`, for every number of trades, minutes and faults and every window, in
three layers. Candles: a trade received is in the open candle, in a row, or lost in a
way that was counted, and in one of these only (`InOnePlace`). That a row's date is at
worst a later one, and then only of the candle open at midnight, needs that no trade
of another minute has come since the open candle's first one (`CandleUnbroken`), and
that rows are of days that have begun (`RowsOfDaysBegun`). Processor: a window only
grows at its end, by candles of this run of the process, of trades before those being
gathered (`WindowGrows`); the copy in Redis is a window some run had, and has what a
published feature says it saved (`StoredGrows`). Prediction: a prediction is made from a
full copy, which has the candle whose feature caused it.

`OperationsProofs`, one section per part, put together for the specification the run
checks in `OperationsAreSound`.

- Circuit breaker, for every set of callers, thresholds and timeout: the
  breaker's two counters also count results of calls let through before its last
  change of state, and some are not reset where others are. `FailuresInARow` and
  `SuccessesInARow` tie each to the run of latest results, and below its threshold, in
  the one state in which it decides.
- Alert service, for every set of alerts, number of retries and size of batch: an alert
  that waits is in the queue or with one sender (`QueueIsPending`, `SendersAlone`), a
  dead letter with the one task whose failure made it one (`PushersAlone`), and until it
  is settled its retries are its messages (`RetriesCount`).
- Health checker, for every set of services and times: the number of failures on record
  bounds how overdue a heartbeat is, less what may still pass until the service's next
  check, which depends on the services before it and on alerts that hold the
  round up (`CheckedInTime`). That is said of the services that are not `late`; a wait of
  more than a unit makes all of them late, so that a delivery that hangs is in
  the theorem and not assumed away.
- Daemon, for every set of processes, trading days and number of
  failures: `ServiceInv` orders in time the day of the last engine, of the last result,
  of the last report and of the next morning (`ResultIsLatest`, `ReportIsPast`),
  which are set on different days, and says for each place of the daemon's loop what the
  pid files and the processes already begun with must be (`SessionInHours`,
  `AliveHavePidFile`); that a stopped service leaves nothing behind rests on these.

`ComponentsProofs` and, for the parts of the workbench, `WorkbenchProofs`, one section per
part, each theorem for the specification of `Components`, that is for the parts side by
side as the run checks them.

- Backtest, for every set of prices, limits, costs, hours and strategy: the
  engine's position and the strategy's are two books of one thing. A strategy that
  believes in a position has been shown enough bars to judge it (`ViewIsJudged`),
  even where the engine has closed it, so that its own time stop still binds it. A bar
  is cut as the code cuts it, with one lemma per stage (`SignalFacts`, `HeldFacts`,
  `CloseFacts`, `OpenFacts`), and put together in `ProcessBarKeeps`.
- Backfill, for every set of codes, length of day and minute and cap on pages: what a run
  has fetched of a code is all records from its cursor to the end of the day, or to the
  present if that came first (`UnderWay`), so that only the minutes at the borders can
  be cut; the rest of a batch is done or has yet to begin (`BatchInOrder`).
- Backpressure, for any groups: acknowledged entries were read (`AckedWereRead`); a lag that
  a call has got lies between the least and the greatest the group has had since the call
  began (`CallWatched`), which makes the advice right for those lags (`AdviceIsOfTheCall`);
  the time of the last alert stands for those of all (`LastAlertIsLast`).
- Snapshots: what the saving thread has read is no newer than the state, and no older than
  what was stored when it read (`GrabbedBetween`).
- Token: a request under way is no older than its timeout (`AskedInTime`); a token that a
  process or the file holds is one the server issued, and expires there when they say
  or within the margin after it (`HoldsIssued`).
- Anomaly detector: a streak beyond the threshold is active or was taken over from before
  a restart (`StreakSeen`), a last return beyond its threshold is active (`ReturnSeen`).
- Performance tracker: each row is in the buffer, in an insert, stored, or dropped for want of
  a database (`RowsPlaced`), and only stop() ever inserts, with less than a batch
  (`FlushInOrder`). That no drawdown is
  hidden compares a running peak over all trades with that over the trades of one symbol.
- Notifier: Redis has the trades of the day that reached it, unless a call failed or a
  reset took them (`RedisOfTheDay`); memory is what Redis answered, if no two tasks overlap
  (`MemoryFollows`); the last task to reach Redis tells what all came to (`LastTells`).
- Alert queue: of an alert that was never doubled there is one copy, tried as often as it
  was delivered or more (`CountsDeliveries`); what is tried again may be, what is put aside
  has been tried (`TakenInOrder`).
- Indicators, for every bar and period: what a window keeps is the end of what it would
  keep if nothing were ever dropped (`WindowsAre`), however often it was cut before
  (`KeptOfKept`, `KeptGrows`), so that each indicator sees the bars it would see with the
  whole history; the detector's copies go back as far as its longest period.
- Trend engine, for every window, threshold and set of forecasts: a verdict counts the
  forecast it is asked about (`CountsItself`), and as long as the forecast that opened a
  position goes on, less than the share that reverses lies beyond it
  (`SideTaken`). This rests on one fact of statistics, proved for every sequence of
  integers (`FarFromMean`): less than half of a window lies more than one standard
  deviation to one side of its mean.
- Series and labels, for every series, threshold, barrier and horizon: ratios are
  fractions in lowest terms, and equal when their cross products are (`SameRatio`), as
  Euclid's algorithm finds the greatest common divisor (`DivisorIs`, `DivisorScales`).
  What has been scaled by one ratio is to each other as it was (`ScaledAlike`), so that
  taking out a roll closes its gap and leaves every other return alone
  (`OneMoreTakenOut`). Labels and samples follow from where the first touch, the end of
  the series and the split are.
- Training, for every sequence of runs of the three scripts, killed or not: of a run the
  best score so far is known, and since when no epoch has beaten it (`LearnedFrom`); the
  model of an output is the best epoch's of the last run that had one (`KeptIn`); the
  scaler is the last run's, and metadata are of a run that came to its end
  (`FilesOfRuns`).
- Offline backtests, for every series and every answer of the models: a position that is
  open has met neither barrier nor the limit of time at any bar before this one
  (`HoldingWatched`), trades follow each other (`InTurn`), and the curve says what the
  trades made, but for the one closed at the end of the data (`CurveFollows`), which
  can deepen the drawdown by no more than it lost (`LastFall`).
- Contracts, for every day of any years from 2000 to 2098 (beyond them the codes' two
  digits say another century): months have 28 days to 31 and follow each other
  (`MonthLength`, `MonthsInOrder`), so that two expiries in a row are four weeks apart or
  five (`ExpiriesApart`) and one month is the first that has not expired
  (`TradedMonthIs`), whichever way it is looked for; a span of days goes through every month
  between its ends (`DaysGoneThrough`). The holidays in the code fall on an expiry once.

Sums and counts over sequences are folds, whose values the library gives by an
induction theorem that takes an operator and so cannot be cited. `ComponentsProofs`
proves what it needs of folds over finite sets (that one exists, that it does not depend
on the order, that it splits) by a minimal counterexample: a smallest cardinality for
which the statement fails exists among the naturals, and taking one element away
gives a smaller one (`FoldExists`, `SumRule`). The same way `WorkbenchProofs` shows that
the recursive functions of Research are defined for all their arguments
(`DivisorIs`, `MadeBackwards`) before it says what they compute.

Assumptions: only the named `ASSUME`s on constants in the modules, which TLC
evaluates in the runs above. Those that say more than a type: `EngineAssumption`, a
spread is no larger than a price (a fill is not negative); `TokenAssumption`, an
answer takes less time than a token lives; `QueueAssumption`, "none" is no alert;
`IndicatorsAssumption`, the periods of the cloud are in order (9, 26, 52 in the code), the
smoothing of the stochastic is no longer than its deque of 10, and the detector keeps as
many bars as its periods need; `ResearchAssumption`, prices are positive and a close is
between its bar's low and high; `TrainingAssumption`, every loss is below the infinity a
run begins with, and `NoRun` is the number of no run.

Every invariant of the passing runs is stated by a theorem. Only model-checked: liveness
(`EveryEntryReached`, `AutoFlushReentrant`, `StopEnds`, `Recovery`, `StopsEnd`), which is
out of the provers' reach.

## Not covered

Timestamps, metrics, log texts and exit reasons of the broker. Redis keys expire
only where something reads them later (the window key and snapshots).
The strategy's statistics and realised profit, its `reset()` (backtests only),
and `max_stop_points=None`. The `DL_REVERSAL` exit is in TrendFilter only, as
TrendConfirmedStrategy never reaches it. The dry-run executor, also where a live manager
falls back to it without a word because the KIS interface cannot be set up
(`strategy_manager.py:397-399`): orders are then announced that KIS never saw, and
`OrdersAnnounced` and `AccountFollowsView` do not speak of that mode. The broker's
floating-point rounding: amounts are exact integers. A quote of price 0. The
engine's simulation mode. `PROJECT.json` lists, under "hazards", what no property
covers yet and why.

Of the parts added beside the pipeline:

- Daemon: one SIGTERM; the window between Popen and the pid file; pid files left
  behind by a service before this one. What is modelled and may surprise: a SIGTERM
  while trading only ends the engine (`except CancelledError`), and the service
  lingers until the next morning (`paper_trading_service.py:651`); the failure of
  a start (:196) is never noticed, as a zombie answers kill(pid, 0); a report on a
  day without an engine repeats the last result.
- Backfill: the rate limiter, the retries of one fetch, verification and export.
  A day of the mini future with 200 bars counts as complete, and `count()` without FINAL
  (`backfill.py:567`) counts a row for every time it was inserted; an interrupted
  collection may replace a whole bar by a part of it; the collector's candles carry UTC
  times and the backfill's Korean ones, in one table.
- Backtest: statistics; profits of exactly 0, which count as neither win nor loss. The
  engine never tells the strategy of its exits (`strategy_adapter.py:49`), so the
  strategy may go on with a position that is gone (`overruled`).
- Contracts: what KIS makes of the codes `A05601`... (see Findings).
- Market data: order book and index, indicator values, the network, the warm-up
  over HTTP. The websocket is not connected again after a loss; SIGTERM loses the
  open candle.
- Alerts: alerts in the hands of a task that stop() cancels, and retries that sleep
  while it ends, are lost (the invariant speaks of a running service).
- Series, labels, training: features (computed column by column), the networks'
  arithmetic, what an epoch scores, which is any value; loading of models for a backtest.
- Trend engine: prices and the manager's decisions, which TrendPosition has; the
  single-side checks of the filter, which nothing calls. Historical volatility is any
  percentile for the regime detector.
- Monitoring: averages, profit factor and Sharpe ratio, Prometheus gauges, the text
  of messages, the daily summary.
- Not modelled at all: RawDataLogger, whose own code only renames fields over the
  same consumer and inserter; the older DataCollector and the index collector, which
  keep nothing between two polls; `common/metrics.py` (counters and gauges that nothing
  reads back); the decision logger, reports, queries and command line (SQL and printing);
  the order book's features (arithmetic on one message); the market briefing under
  `llm-research/` (fetches pages and has a model write about them; nothing reads it);
  dashboards and schemas. There is no protocol in any of these to get wrong.
- Small things in modelled files that no property covers: the broker's exit reason
  is set after the close was logged (`virtual_broker.py:233`), stream names are
  bytes when the engine is started by `run_paper_trading` (`paper_engine.py:270`),
  limit prices are cut to integers (`kis_order.py:220`; no caller).

## Findings

1. `run()` handles at most one window of pending entries before new ones
   (`redis_client.py:347`), against the comment above it.
2. `BatchInserter` deadlocks on its own lock whenever it flushes by size or by
   time (`clickhouse_client.py:68,94,132`).
3. `VirtualBroker` drops a whole position, and its money, on an opposite order of
   another quantity (`virtual_broker.py:308,328`). The engine only sends such
   orders for the position's quantity, and `paper_engine` checks that the books
   are then right.
4. The prediction cache of TrendConfirmedStrategy counts only bars that find it
   flat (`trend_confirmed.py:345`, after the return of :329), so an entry may
   follow a prediction of any age, against "Cache prediction for N bars" (:72).
5. `_flush_candle()` stores a candle under the date of the flush
   (`tick_collector.py:244-250`), against its comment "compute the candle's start
   time": one that is open at midnight UTC, 09:00 in Seoul, is dated a day late.
6. `apply_ratio_adjustment()` scales the prices before a roll
   (`adjust_rolls.py:115-117`), against its docstring, which says all subsequent ones
   (:79-80). Returns are kept either way (`ReturnsKept`).

What the models show of the code and a reader may not expect. These are stated by
the properties named, so that a change of them shows, but have no run that refutes the
text:

- Codes of contracts: `historical/futures.py:28-29` says that `A05601`, `A05602`, ...
  "always refer to the Nth nearest contract" (`futures_code.py:34-37` likewise); made and
  read as a code, `A05601` is January 2026. `CodesOfTheirMonth` says that making and
  reading a code agree; what KIS answers for it is not known here.
- Training: the scripts of one directory share `scaler.json`; a run that is killed, or
  never has an epoch better than nothing, leaves its scaler beside another run's model
  (`ScalerFits`). `train_lstm.py` and `train_regression.py` fit the scaler on all rows,
  and `train_lstm.py` reports of the last model, not of the one it kept (`MetadataFit`).
  The labels of the last training rows look over the split (`SplitSeparates`).
- Offline backtests: the drawdown is computed from a curve that lacks the trade closed
  at the end of the data (`CurveMissesTheEnd`). A window of the backtest ends one bar
  before the signal, that of live inference at the latest bar.
- Filter: the docstrings speak of z-scores of 1.5 and 1.0 and of a fall-back to absolute
  thresholds during the warm-up (`ensemble_filter.py:279-282`, :441); the code decides
  with 1.0, 0.5 and 0.0 (`MultiVerdict`), and enters nothing before calibration. A full
  window at one value turns calibration off (`EntersCalibrated`).
- Health checker: an alert that hangs ends the detection of everything (`DetectedInTime`
  says for whom): `send_immediate()` waits for its own lock once the audit batch is full
  (`alert_service.py:316-324`), `redis.get()` (`health_checker.py:287`) has no time-out, and
  `TIMEOUT_PIPELINE` (:36) is never used.
- Backfill: for the index and the full-size future a day counts as complete with one bar
  (`BackfillSound`).
- Performance: the buffer's lock is taken twice when a batch is full, so that nothing but
  the rest of less than a batch is stored (`FullBatchStuck`, the same pattern as finding
  2), against the batch insertion of `performance_tracker.py:42,60`. Without a ClickHouse
  client a flush drops its rows (:365-367); the drawdown takes the peak of all symbols
  (`DrawdownNotHidden`).
- Anomalies: a streak of losses becomes critical only after a restart in the middle of
  one (`CriticalOnlyRestored`); a burst of signals that fills the window is not seen
  (`FullBurstUnseen`).
- Notifier: the first trade after a restart wipes the counters that Redis was to keep
  over it (`TakenByResets`), against "daily P&L tracking with Redis persistence"
  (`trade_notifier.py:37`).
- Alert queue: the third of the delays is never used (`LastDelayUnused`) and nothing reads
  `alerts:failed` (`TriesLimited`); the loop ends on stop() only once the list is empty.
- Backpressure: lag is what was delivered and not acknowledged; a group that does not read
  at all never slows the producer (`AdviceOfTheCall`), and one that has caught up is shown
  with its last lag, as "Refresh cache" (`backpressure.py:115`) refreshes only what is
  behind (`CacheWithin`). `should_throttle()` and `get_throttle_delay()` query Redis each on
  their own and need not agree. The alerts of `backpressure.py:266` and
  `circuit_breaker.py:226` call a `send_alert` that `TelegramNotifier` does not have.

Not a finding, as no document promises otherwise: a refused order, a raising call
or the end of a process leaves the account and the strategy one contract apart, and
nothing in StrategyManager brings them together again. `AccountFollowsView` says
that nothing else does, and `slips` counts them.

## Plan

1. The daemon over the engine: TradingService's trading step refined by PaperEngine's
   session.
2. Two workers of one group (the names of consumers are fixed today, so a second
   process of a service shares its pending list).
