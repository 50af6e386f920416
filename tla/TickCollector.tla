---------------------------- MODULE TickCollector ----------------------------
(***************************************************************************)
(* TickDataCollector of src/collector/tick_collector.py on a KIS WebSocket *)
(* (src/collector/kis_websocket.py): trades of one symbol are published to *)
(* the raw stream and gathered into one-minute candles, which are inserted *)
(* into ClickHouse.  One thread does everything, so that a handler is one  *)
(* step; what interleaves is the clock, the connection and the process's   *)
(* death.  A trade whose publication fails reaches no candle either and is *)
(* a stuttering step.  Trades have a price; their contents are left out.   *)
(***************************************************************************)
EXTENDS Naturals, Sequences, FiniteSets

CONSTANTS
    MaxTicks,       \* bound: trades received
    LastMinute,     \* bound: the minute at which the clock stops
    MinutesPerDay,  \* 1440
    PersistCandles, \* config.persist_candles
    MaxFaults       \* bound: lost connections, deaths, failures of calls

ASSUME CollectorAssumption ==
    /\ MaxTicks \in Nat /\ LastMinute \in Nat /\ MaxFaults \in Nat
    /\ MinutesPerDay \in Nat \ {0} /\ PersistCandles \in BOOLEAN

VARIABLES
    clock,          \* the minute it is, from some midnight on
    raw,            \* the raw stream: the minute of each published trade
    collecting,     \* whether the process runs, connected and subscribed
    faults,         \* history: lost connections, deaths, failures of calls
    candle,         \* _candle_states[symbol]: its minute of the day and trades
    rows,           \* the candle table: the trades in the row of each minute
    lost            \* history: trades whose candle is nowhere any more

collectorVars == <<raw, collecting, candle, rows, lost>>

Tick == 1..MaxTicks
NoCandle == [start |-> 0, ticks |-> {}]

CollectorTypeOK ==
    /\ clock \in 0..LastMinute
    /\ raw \in Seq(0..LastMinute) /\ Len(raw) \leq MaxTicks
    /\ collecting \in BOOLEAN /\ faults \in 0..MaxFaults
    /\ candle \in [start : 0..MinutesPerDay - 1, ticks : SUBSET Tick]
    /\ rows \in [0..LastMinute + MinutesPerDay -> SUBSET Tick]
    /\ lost \subseteq Tick

CollectorInit ==
    /\ clock = 0 /\ raw = <<>>
    /\ collecting = FALSE /\ faults = 0
    /\ candle = NoCandle
    /\ rows = [m \in 0..LastMinute + MinutesPerDay |-> {}]
    /\ lost = {}

-----------------------------------------------------------------------------
Fault == faults < MaxFaults /\ faults' = faults + 1

(* The collector knows the minute of the day only.                         *)
MinuteOfDay == clock % MinutesPerDay

(* candle_dt: the date of the flush with the minute of the day at which    *)
(* the candle began.                                                       *)
CandleTime == clock - MinuteOfDay + candle.start

(* _flush_candle(): the table keeps the last row inserted for a minute     *)
(* (ReplacingMergeTree).  The caller resets the candle, inserted or not.   *)
FlushCandle(inserted) ==
    \/ /\ inserted
       /\ rows' = [rows EXCEPT ![CandleTime] = candle.ticks]
       /\ lost' = lost \cup rows[CandleTime]
    \/ ~inserted /\ lost' = lost \cup candle.ticks /\ UNCHANGED rows

StartCollector ==
    /\ ~collecting /\ collecting' = TRUE
    /\ UNCHANGED <<clock, faults, raw, candle, rows, lost>>

(* _on_trade() and _update_candle()                                        *)
OnTrade ==
    /\ collecting /\ Len(raw) < MaxTicks
    /\ raw' = Append(raw, clock)
    /\ \/ ~PersistCandles /\ UNCHANGED <<faults, candle, rows, lost>>
       \/ /\ PersistCandles
          /\ candle # NoCandle => candle.start = MinuteOfDay
          /\ candle' = [start |-> MinuteOfDay,
                        ticks |-> candle.ticks \cup {Len(raw) + 1}]
          /\ UNCHANGED <<faults, rows, lost>>
       \/ /\ candle # NoCandle /\ candle.start # MinuteOfDay
          /\ \/ FlushCandle(TRUE) /\ UNCHANGED faults
             \/ FlushCandle(FALSE) /\ Fault
          /\ candle' = [start |-> MinuteOfDay, ticks |-> {Len(raw) + 1}]
    /\ UNCHANGED <<clock, collecting>>

(* A stop that forgets the open candle.                                    *)
DisconnectUnflushed ==
    /\ collecting /\ collecting' = FALSE /\ Fault
    /\ candle' = NoCandle
    /\ UNCHANGED <<clock, raw, rows, lost>>

(* The connection closes: subscribe() returns or raises, nothing connects  *)
(* again, and stop() flushes the candle before the process ends.           *)
Disconnect ==
    /\ collecting /\ collecting' = FALSE /\ Fault
    /\ candle' = NoCandle
    /\ \/ candle = NoCandle /\ UNCHANGED <<rows, lost>>
       \/ candle # NoCandle /\ \E inserted \in BOOLEAN : FlushCandle(inserted)
    /\ UNCHANGED <<clock, raw>>

(* SIGTERM, which nothing handles, or a crash.                             *)
KillCollector ==
    /\ collecting /\ collecting' = FALSE /\ Fault
    /\ candle' = NoCandle /\ lost' = lost \cup candle.ticks
    /\ UNCHANGED <<clock, raw, rows>>

MinutePasses ==
    /\ clock < LastMinute /\ clock' = clock + 1
    /\ UNCHANGED <<faults, collectorVars>>

CollectorNext ==
    StartCollector \/ OnTrade \/ Disconnect \/ KillCollector \/ MinutePasses

CollectorSpec == CollectorInit /\ [][CollectorNext]_<<clock, faults, collectorVars>>

-----------------------------------------------------------------------------
(* Properties                                                              *)

(* Every published trade is in the open candle, in one row of the table or *)
(* known to be lost, and in no two of these: a flush, a stop or a restart  *)
(* neither drops a candle silently nor counts a trade twice.               *)
TicksAccounted ==
    PersistCandles => \A t \in DOMAIN raw :
        Cardinality({m \in DOMAIN rows : t \in rows[m]})
          + (IF t \in candle.ticks THEN 1 ELSE 0)
          + (IF t \in lost THEN 1 ELSE 0) = 1

(* The midnight before a minute.                                           *)
MidnightOf(m) == m - (m % MinutesPerDay)

(* A trade may be in the row of a minute: it is of that minute of the day, *)
(* and not of a later day; and if it is of an earlier day, its candle was  *)
(* still the open one at that row's midnight, as no trade of another       *)
(* minute had come after it.                                               *)
MayBeIn(t, m) ==
    /\ raw[t] % MinutesPerDay = m % MinutesPerDay
    /\ raw[t] \leq m
    /\ \A u \in DOMAIN raw :
          t < u /\ raw[u] < MidnightOf(m) => raw[u] % MinutesPerDay = m % MinutesPerDay

(* A row dates its trades by the day of the flush, not by their own (see   *)
(* CandleOnItsDay): this can put a trade under a later day only in the one *)
(* candle that no trade of another minute had ended by midnight, never     *)
(* under another minute of the day or an earlier day.                      *)
RowsOfTheirMinute == \A m \in DOMAIN rows : \A t \in rows[m] : MayBeIn(t, m)

(* No trade is lost silently or counted twice, nor stored under a minute   *)
(* of the day that is not its own; its day is that of the flush.           *)
CandlesSound == CollectorTypeOK /\ TicksAccounted /\ RowsOfTheirMinute

(* What _flush_candle() says it does, "compute the candle's start time",   *)
(* and what the row's datetime is read as: the minute at which the candle  *)
(* began.  It does not hold: the day is that of the flush.                 *)
CandleOnItsDay == \A m \in DOMAIN rows : \A t \in rows[m] : raw[t] = m
=============================================================================
