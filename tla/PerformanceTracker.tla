-------------------------- MODULE PerformanceTracker --------------------------
(***************************************************************************)
(* PerformanceTracker of src/monitoring/performance_tracker.py, for one    *)
(* strategy: what the trades of its symbols amount to, and the rows that   *)
(* the aggregation loop gathers for the database.                          *)
(*                                                                         *)
(* A coroutine runs until it awaits something that is not ready.  The lock *)
(* of the buffer is an asyncio.Lock, which its holder cannot take again.   *)
(* Averages, profit factor and Sharpe ratio are left out; a drawdown is    *)
(* the pair of what was lost and the peak it was lost from.                *)
(***************************************************************************)
EXTENDS Integers, FiniteSets, Sequences, Functions

CONSTANTS
    Symbols,
    Pnls,           \* realized_pnl of a trade
    KeepTrades,     \* maxlen of a trade history (1000)
    RowBatch,       \* BATCH_SIZE (1000)
    RowLimit,       \* MAX_BUFFER_SIZE (10000)
    MaxPasses,      \* bound: passes of the aggregation loop
    MaxTraded       \* bound: trades between two resets

ASSUME PerformanceAssumption ==
    /\ IsFiniteSet(Symbols) /\ Pnls \subseteq Int
    /\ {KeepTrades, RowBatch} \subseteq Nat \ {0}
    /\ RowLimit \in Nat /\ RowLimit >= RowBatch
    /\ {MaxPasses, MaxTraded} \subseteq Nat

VARIABLES
    tradeHistory,   \* _trade_history of the strategy: the pnl of each trade
    metric,         \* _performance of the strategy; `known`: the symbol is in it
    peak,           \* _peak_equity of the strategy
    rowBuffer,      \* _batch_buffer: rows by number
    aggregator,     \* the loop: "off", "on", or "stuck" on the lock it holds
    stopper,        \* stop(): "none", "flushing", or "stuck"
    database,       \* self.clickhouse: whether the service found one when it began
    insertingRows,  \* metrics_to_flush
    passes,         \* history: passes of the loop
    rowsMade,       \* history: number of the last row
    storedBatches,  \* history: what each insert has stored
    droppedRows     \* history: rows taken from the buffer for no database

performanceVars == <<tradeHistory, metric, peak, rowBuffer, aggregator, stopper, database,
                     insertingRows, passes, rowsMade, storedBatches, droppedRows>>

NoDrawdown == [lost |-> 0, from |-> 1]
Untraded == [known |-> FALSE, count |-> 0, pnl |-> 0, wins |-> 0, losses |-> 0,
             drawdown |-> NoDrawdown]

PerformanceInit ==
    /\ tradeHistory = [s \in Symbols |-> <<>>] /\ peak = 0
    /\ metric = [s \in Symbols |-> Untraded]
    /\ rowBuffer = <<>> /\ insertingRows = <<>>
    /\ aggregator = "off" /\ stopper = "none" /\ database \in BOOLEAN
    /\ passes = 0 /\ rowsMade = 0 /\ storedBatches = <<>> /\ droppedRows = <<>>

-----------------------------------------------------------------------------
(* Trades                                                                  *)

TotalPnl(trades) == FoldFunction(+, 0, trades)
Equity(trades) == [i \in DOMAIN trades |-> TotalPnl(SubSeq(trades, 1, i))]
TopOf(numbers, atLeast) ==
    CHOOSE n \in numbers \cup {atLeast} : \A m \in numbers \cup {atLeast} : m \leq n

(* One drawdown is deeper than another.                                    *)
Deeper(d, e) == d.lost * e.from > e.lost * d.from

(* _calculate_max_drawdown(): the peak before the first of the trades is   *)
(* the highest that any symbol had reached before.                         *)
DrawdownOf(trades, before) ==
    LET equity == Equity(trades)
        top(i) == TopOf({equity[j] : j \in 1..i}, before)
        all == {[lost |-> top(i) - equity[i], from |-> top(i)] :
                   i \in {j \in DOMAIN trades : top(j) > 0}} \cup {NoDrawdown}
    IN  CHOOSE d \in all : \A e \in all : ~Deeper(e, d)

(* _update_metrics()                                                       *)
Measured(trades) ==
    [known |-> TRUE, count |-> Len(trades), pnl |-> TotalPnl(trades),
     wins |-> Cardinality({i \in DOMAIN trades : trades[i] > 0}),
     losses |-> Cardinality({i \in DOMAIN trades : trades[i] < 0}),
     drawdown |-> DrawdownOf(trades, peak)]

RecordTrade(s, pnl) ==
    LET all == Append(tradeHistory[s], pnl)
        trades == IF Len(all) > KeepTrades THEN Tail(all) ELSE all
    IN  /\ FoldFunction(+, 0, [t \in Symbols |-> Len(tradeHistory[t])]) < MaxTraded
        /\ tradeHistory' = [tradeHistory EXCEPT ![s] = trades]
        /\ metric' = [metric EXCEPT ![s] = Measured(trades)]
        /\ peak' = TopOf(Range(Equity(trades)), peak)
        /\ UNCHANGED <<rowBuffer, aggregator, stopper, database, insertingRows, passes, rowsMade,
                       storedBatches, droppedRows>>

(* reset_daily_stats(): the drawdown stays, and so does the entry.         *)
ResetDailyStats ==
    /\ tradeHistory' = [s \in Symbols |-> <<>>] /\ peak' = 0
    /\ metric' = [s \in Symbols |->
          [known |-> metric[s].known, count |-> 0, pnl |-> 0, wins |-> 0, losses |-> 0,
           drawdown |-> metric[s].drawdown]]
    /\ UNCHANGED <<rowBuffer, aggregator, stopper, database, insertingRows, passes, rowsMade,
                   storedBatches, droppedRows>>

-----------------------------------------------------------------------------
(* Rows                                                                    *)

StartTracker ==
    /\ aggregator = "off" /\ stopper = "none"
    /\ aggregator' = "on"
    /\ UNCHANGED <<tradeHistory, metric, peak, rowBuffer, stopper, database, insertingRows,
                   passes, rowsMade, storedBatches, droppedRows>>

(* A pass adds a row for each symbol that has traded, also when a reset    *)
(* has zeroed it.  The row that fills the batch makes _add_to_batch()      *)
(* await, with the lock, a flush that waits for the lock: the pass does    *)
(* not end, with a database or without.                                    *)
AggregateAllMetrics ==
    LET traded == Cardinality({s \in Symbols : metric[s].known})
        room == RowBatch - Len(rowBuffer)
        added == IF traded >= room /\ traded > 0 THEN (IF room > 1 THEN room ELSE 1) ELSE traded
    IN  /\ aggregator = "on" /\ stopper = "none" /\ passes < MaxPasses
        /\ passes' = passes + 1
        /\ rowBuffer' = rowBuffer \o [i \in 1..added |-> rowsMade + i]
        /\ rowsMade' = rowsMade + added
        /\ aggregator' = IF added > 0 /\ Len(rowBuffer) + added >= RowBatch THEN "stuck" ELSE "on"
        /\ UNCHANGED <<tradeHistory, metric, peak, stopper, database, insertingRows,
                       storedBatches, droppedRows>>

(* stop() flushes before it cancels the loop; the flush takes what is in   *)
(* the buffer and inserts it without the lock, or drops it when there is   *)
(* no database.                                                            *)
StopTracker ==
    /\ aggregator # "off" /\ stopper = "none"
    /\ \/ /\ aggregator = "stuck" /\ stopper' = "stuck"
          /\ UNCHANGED <<rowBuffer, insertingRows, aggregator, droppedRows>>
       \/ /\ aggregator # "stuck" /\ (rowBuffer = <<>> \/ ~database)
          /\ droppedRows' = droppedRows \o rowBuffer /\ rowBuffer' = <<>>
          /\ aggregator' = "off" /\ UNCHANGED <<insertingRows, stopper>>
       \/ /\ aggregator # "stuck" /\ rowBuffer # <<>> /\ database
          /\ stopper' = "flushing" /\ insertingRows' = rowBuffer /\ rowBuffer' = <<>>
          /\ UNCHANGED <<aggregator, droppedRows>>
    /\ UNCHANGED <<tradeHistory, metric, peak, database, passes, rowsMade, storedBatches>>

(* What could not be stored goes behind what came since, as far as there   *)
(* is room: the newest of it.                                              *)
Restored(rows) ==
    LET space == RowLimit - Len(rowBuffer)
    IN  IF Len(rows) \leq space THEN rowBuffer \o rows
        ELSE IF space > 0 THEN rowBuffer \o SubSeq(rows, Len(rows) - space + 1, Len(rows))
        ELSE rowBuffer

FlushEnds ==
    /\ stopper = "flushing"
    /\ \/ storedBatches' = Append(storedBatches, insertingRows) /\ UNCHANGED rowBuffer
       \/ rowBuffer' = Restored(insertingRows) /\ UNCHANGED storedBatches
    /\ insertingRows' = <<>> /\ stopper' = "none" /\ aggregator' = "off"
    /\ UNCHANGED <<tradeHistory, metric, peak, database, passes, rowsMade, droppedRows>>

PerformanceNext ==
    \/ \E s \in Symbols, pnl \in Pnls : RecordTrade(s, pnl)
    \/ ResetDailyStats \/ StartTracker \/ AggregateAllMetrics \/ StopTracker \/ FlushEnds

-----------------------------------------------------------------------------
(* Properties                                                              *)

(* Every row made is in one place: none is stored twice, and none is lost  *)
(* between the buffer and the database, however often an insert fails.  A  *)
(* tracker that was started without a database drops the rows that stop()  *)
(* finds, and only such a one drops any.                                   *)
RowsInOnePlace ==
    LET stored == FoldFunction(LAMBDA b, all : b \o all, <<>>, storedBatches)
    IN  /\ Range(stored) \cup Range(insertingRows) \cup Range(rowBuffer)
              \cup Range(droppedRows) = 1..rowsMade
        /\ Len(stored) + Len(insertingRows) + Len(rowBuffer) + Len(droppedRows) = rowsMade
        /\ IF database THEN droppedRows = <<>> ELSE stored = <<>> /\ insertingRows = <<>>

(* A full batch is never stored: the loop that fills it waits for itself,  *)
(* and so does the stop() that comes after.  Only what stop() finds of     *)
(* less than a batch reaches the database: the very opposite of the "batch *)
(* insertion", of at least BATCH_SIZE records, that the class and the      *)
(* constant announce.                                                      *)
FullBatchStuck ==
    /\ aggregator = "stuck" <=> Len(rowBuffer) >= RowBatch
    /\ stopper = "stuck" => aggregator = "stuck"
    /\ \A i \in DOMAIN storedBatches : Len(storedBatches[i]) < RowBatch

(* The share of its gains that a symbol lost is never shown as less, and   *)
(* one that lost more than its gains is shown to have lost them all.  More *)
(* may be shown than was lost: the peak of another symbol, or a later one  *)
(* of its own, counts for it too.                                          *)
DrawdownNotHidden ==
    LET share(d) == IF d.lost > d.from THEN [lost |-> 1, from |-> 1] ELSE d
    IN  \A s \in Symbols : tradeHistory[s] # <<>> =>
           ~Deeper(share(DrawdownOf(tradeHistory[s], 0)), metric[s].drawdown)

(* No symbol stands above the peak of the strategy.                        *)
PeakCovers == \A s \in Symbols : metric[s].pnl \leq peak

PerformanceSound == RowsInOnePlace /\ FullBatchStuck /\ DrawdownNotHidden /\ PeakCovers
===============================================================================
