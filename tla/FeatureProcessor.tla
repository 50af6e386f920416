--------------------------- MODULE FeatureProcessor ---------------------------
(***************************************************************************)
(* FeatureProcessor of src/processor/feature_processor.py: reads the raw   *)
(* stream as a consumer group, gathers its trades into candles of its own  *)
(* (an interval from their first trade on), keeps a window of the latest   *)
(* ones in Redis for the prediction engine and publishes a feature for     *)
(* every trade.  Its state is in memory; what it had not acknowledged it   *)
(* handles first after a restart.  Indicators are computed from candles    *)
(* only, and their values are left out: a candle is valid if there were    *)
(* enough before it to compute them.                                       *)
(***************************************************************************)
EXTENDS TickCollector

CONSTANTS
    Interval,       \* minutes that complete a candle (interval_sec)
    MinCandles,     \* candles needed to compute indicators (20)
    Lookback,       \* size of the window (60)
    KeyLife,        \* minutes a window lives in Redis (5)
    Nothing

ASSUME ProcessorAssumption ==
    /\ Interval \in Nat \ {0} /\ MinCandles \in Nat \ {0}
    /\ Lookback \in Nat \ {0} /\ KeyLife \in Nat \ {0}
    /\ Nothing \notin Tick

VARIABLES
    handedOut,      \* entries of the raw stream the group has handed out
    unacked,        \* entries handed out and not acknowledged
    backlog,        \* those of them the running process has yet to handle
    job,            \* the entry in hand and its feature, or Nothing
    life,           \* runs of the process so far
    gathering,      \* candle_1m: the time it began and its trades
    closes,         \* candles in tech_indicators, not counted past MinCandles
    window,         \* feature_window
    stored,         \* Redis: feature_window:<symbol> and when it expires
    features,       \* the feature stream
    completed       \* history: candles completed

processorVars == <<handedOut, unacked, backlog, job, life, gathering, closes,
                   window, stored, features, completed>>

Candles == [number : Nat, life : 0..MaxFaults, ticks : SUBSET Tick, valid : BOOLEAN]
Empty == [start |-> 0, ticks |-> {}]

ProcessorTypeOK ==
    /\ handedOut \in 0..MaxTicks
    /\ unacked \subseteq Tick /\ backlog \subseteq unacked
    /\ job = Nothing \/ job \in [entry : Tick, candle : Nat, saved : BOOLEAN]
    /\ life \in 0..MaxFaults
    /\ gathering \in [start : 0..LastMinute, ticks : SUBSET Tick]
    /\ closes \in 0..MinCandles
    /\ window \in Seq(Candles) /\ Len(window) \leq Lookback
    /\ stored \in [candles : Seq(Candles), until : Nat]
    /\ features \in Seq([candle : Nat, saved : BOOLEAN])
    /\ completed \in Nat

ProcessorInit ==
    /\ handedOut = 0 /\ unacked = {} /\ backlog = {}
    /\ job = Nothing /\ life = 0
    /\ gathering = Empty /\ closes = 0 /\ window = <<>>
    /\ stored = [candles |-> <<>>, until |-> 0]
    /\ features = <<>> /\ completed = 0

-----------------------------------------------------------------------------
(* deque(maxlen=n)                                                         *)
Pushed(s, x, n) == IF Len(s) < n THEN Append(s, x) ELSE Append(Tail(s), x)

(* What the consumer handles next: the backlog in order, then new entries. *)
Upcoming == IF backlog # {} THEN CHOOSE e \in backlog : \A f \in backlog : e \leq f
            ELSE handedOut + 1

(* CandleAggregator.update(): the trade belongs to the candle it completes. *)
Gathered(e) ==
    [start |-> IF gathering = Empty THEN raw[e] ELSE gathering.start,
     ticks |-> gathering.ticks \cup {e}]

(* The window as it was before its newest candle.                          *)
StoredBefore(candles) == [candles |-> window, until |-> clock + KeyLife]

(* SETEX of the window.                                                    *)
Stored(candles) == [candles |-> candles, until |-> clock + KeyLife]

(* process_message() up to the publication, with _update_rolling_window(), *)
(* whose failure is only logged.                                           *)
HandleTick ==
    /\ job = Nothing /\ Upcoming \leq Len(raw)
    /\ LET e == Upcoming
           c == Gathered(e)
           complete == raw[e] - c.start >= Interval
           counted == IF closes < MinCandles THEN closes + 1 ELSE closes
           done == [number |-> completed + 1, life |-> life, ticks |-> c.ticks,
                    valid |-> counted = MinCandles]
       IN
       /\ handedOut' = IF backlog # {} THEN handedOut ELSE handedOut + 1
       /\ backlog' = backlog \ {e}
       /\ unacked' = unacked \cup {e}
       /\ \/ /\ ~complete
             /\ gathering' = c
             /\ job' = [entry |-> e, candle |-> 0, saved |-> FALSE]
             /\ UNCHANGED <<faults, closes, window, stored, completed>>
          \/ /\ complete
             /\ gathering' = Empty
             /\ closes' = counted
             /\ window' = Pushed(window, done, Lookback)
             /\ completed' = completed + 1
             /\ \E saved \in BOOLEAN :
                   /\ IF saved
                      THEN /\ stored' = Stored(window')
                           /\ UNCHANGED faults
                      ELSE Fault /\ UNCHANGED stored
                   /\ job' = [entry |-> e, candle |-> done.number, saved |-> saved]
    /\ UNCHANGED <<life, features>>

(* The feature is published and the entry acknowledged.  If the former     *)
(* fails the handler returns False, if the latter fails it is only logged, *)
(* and the entry stays pending although its trade is in the candle.        *)
PublishFeature ==
    /\ job # Nothing /\ job' = Nothing
    /\ \/ /\ features' = Append(features, [candle |-> job.candle, saved |-> job.saved])
          /\ \/ unacked' = unacked \ {job.entry} /\ UNCHANGED faults
             \/ Fault /\ UNCHANGED unacked
       \/ Fault /\ UNCHANGED <<features, unacked>>
    /\ UNCHANGED <<handedOut, backlog, life, gathering, closes, window, stored,
                   completed>>

(* A start from the indicators and the window of the run before.           *)
RestartWarm ==
    /\ Fault /\ life' = life + 1
    /\ backlog' = unacked
    /\ job' = Nothing
    /\ gathering' = Empty /\ window' = stored.candles
    /\ UNCHANGED <<handedOut, unacked, closes, stored, features, completed>>

(* The process ends in whatever it does, and a new one starts with nothing *)
(* but the pending entries and the window that is still in Redis.          *)
RestartProcessor ==
    /\ Fault /\ life' = life + 1
    /\ backlog' = unacked
    /\ job' = Nothing
    /\ gathering' = Empty /\ closes' = 0 /\ window' = <<>>
    /\ UNCHANGED <<handedOut, unacked, stored, features, completed>>

ProcessorNext == HandleTick \/ PublishFeature \/ RestartProcessor
=============================================================================
