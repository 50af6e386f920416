--------------------------- MODULE MarketDataProofs ---------------------------
(***************************************************************************)
(* What the way of a tick to a prediction promises for all values of the   *)
(* constants: that of the candles the collector stores, that of the window *)
(* and the features the processor makes of the same trades, and that of    *)
(* the predictions that are made of them.                                  *)
(***************************************************************************)
EXTENDS MarketData, TLAPS, FiniteSetTheorems

-----------------------------------------------------------------------------
(* The candles of the tick collector                                       *)

(* Every trade that is anywhere was received, at its time, and the open    *)
(* candle holds trades of one minute of the day.                           *)
TradesReceived ==
    /\ lost \subseteq DOMAIN raw
    /\ \A m \in DOMAIN rows : rows[m] \subseteq DOMAIN raw
    /\ \A t \in DOMAIN raw : raw[t] <= clock
    /\ \A t \in candle.ticks : t \in DOMAIN raw /\ raw[t] % MinutesPerDay = candle.start

(* A trade is in one place.                                                *)
InOnePlace ==
    PersistCandles =>
        /\ \A t \in DOMAIN raw : \/ t \in candle.ticks \cup lost
                                 \/ \E m \in DOMAIN rows : t \in rows[m]
        /\ candle.ticks \cap lost = {}
        /\ \A m \in DOMAIN rows : rows[m] \cap (candle.ticks \cup lost) = {}
        /\ \A m, n \in DOMAIN rows : m # n => rows[m] \cap rows[n] = {}

(* What came after a trade of the open candle is of the same minute of the *)
(* day: a trade of another one would have ended it.                        *)
CandleUnbroken ==
    /\ ~PersistCandles => candle = NoCandle
    /\ \A t \in candle.ticks : \A u \in DOMAIN raw :
          t < u => raw[u] % MinutesPerDay = candle.start

(* A row is of a day that has begun.                                       *)
RowsOfDaysBegun == \A m \in DOMAIN rows : rows[m] # {} => MidnightOf(m) <= clock

CandleInv ==
    /\ CollectorTypeOK /\ TradesReceived /\ InOnePlace
    /\ CandleUnbroken /\ RowsOfDaysBegun /\ RowsOfTheirMinute

(* The minute at which a candle is stamped: the last one, until midnight,  *)
(* that its trades can be of.                                              *)
LEMMA StampFacts ==
    ASSUME NEW c \in Nat, NEW m \in Nat \ {0}, NEW s \in 0..m - 1
    PROVE  /\ c % m \in 0..m - 1
           /\ c - (c % m) + s \in Nat /\ c - (c % m) + s <= c + (m - 1)
           /\ (c - (c % m) + s) % m = s
           /\ (c - (c % m) + s) - ((c - (c % m) + s) % m) = c - (c % m)
           /\ c - (c % m) <= c
           /\ \A x \in Nat : x <= c /\ x % m = s => x <= c - (c % m) + s
  <1>1. c % m \in 0..m - 1 /\ c = m * (c \div m) + (c % m) /\ c \div m \in Nat
    OBVIOUS
  <1> DEFINE q == c \div m
             b == m * q
  <1>2. q \in Nat /\ b \in Nat /\ b = c - (c % m)
    BY <1>1
  <1>3. (b + s) % m = s
    <2>1. \A j \in Nat, k \in Nat \ {0}, r \in Nat : r < k => (k * j + r) % k = r
      OBVIOUS
    <2>. HIDE DEF q
    <2>. QED
      BY <1>2, <2>1
  <1>4. ASSUME NEW x \in Nat, x <= c, x % m = s
        PROVE  x <= b + s
    <2> DEFINE p == x \div m
    <2>1. p \in Nat /\ x = m * p + s
      <3>1. x = m * (x \div m) + (x % m) /\ x \div m \in Nat
        OBVIOUS
      <3>. QED
        BY <1>4, <3>1
    <2>2. \A i, j \in Nat : i <= j => m * i <= m * j
      OBVIOUS
    <2>3. \A i, j \in Nat : j < i => m * j + m <= m * i
      OBVIOUS
    <2>4. c < m * q + m
      BY <1>1
    <2>. HIDE DEF p, q
    <2>5. p <= q
      BY <1>2, <1>4, <2>1, <2>3, <2>4
    <2>. QED
      BY <1>2, <2>1, <2>2, <2>5
  <1>5. b + s \in Nat /\ b + s <= c + (m - 1)
    BY <1>1, <1>2
  <1>7. (b + s) - ((b + s) % m) = b /\ b <= c
    BY <1>1, <1>2, <1>3
  <1>. HIDE DEF b
  <1>6. \A x : c - (c % m) + x = b + x
    BY <1>2
  <1>. QED
    BY <1>1, <1>2, <1>3, <1>4, <1>5, <1>6, <1>7

(* What the invariant says of the numbers of a step.                       *)
LEMMA CollectorFacts ==
    ASSUME CandleInv
    PROVE  /\ clock \in Nat /\ clock \in 0..LastMinute /\ MinutesPerDay \in Nat \ {0}
           /\ Len(raw) \in Nat /\ DOMAIN raw = 1..Len(raw) /\ raw \in Seq(0..LastMinute)
           /\ \A t \in DOMAIN raw : raw[t] \in Nat
           /\ candle.start \in 0..MinutesPerDay - 1
           /\ MinuteOfDay \in 0..MinutesPerDay - 1 /\ MinuteOfDay = clock % MinutesPerDay
           /\ DOMAIN rows = 0..LastMinute + MinutesPerDay
           /\ candle.ticks \subseteq DOMAIN raw
  <1>1. /\ clock \in 0..LastMinute /\ LastMinute \in Nat /\ MinutesPerDay \in Nat \ {0}
        /\ raw \in Seq(0..LastMinute)
        /\ candle \in [start : 0..MinutesPerDay - 1, ticks : SUBSET Tick]
        /\ rows \in [0..LastMinute + MinutesPerDay -> SUBSET Tick]
    BY CollectorAssumption DEF CandleInv, CollectorTypeOK
  <1>2. clock \in Nat /\ \A t \in DOMAIN raw : raw[t] \in Nat
    BY <1>1
  <1>3. clock % MinutesPerDay \in 0..MinutesPerDay - 1
    BY <1>1, <1>2
  <1>4. candle.ticks \subseteq DOMAIN raw
    BY DEF CandleInv, TradesReceived
  <1>. QED
    BY <1>1, <1>2, <1>3, <1>4 DEF MinuteOfDay

(* A flush leaves the candle's trades in their row, and those that were    *)
(* there lost, or the candle's lost if the insert failed.                  *)
LEMMA FlushLeaves ==
    ASSUME CandleInv, NEW inserted \in BOOLEAN, FlushCandle(inserted)
    PROVE  /\ rows' \in [0..LastMinute + MinutesPerDay -> SUBSET Tick]
           /\ lost' \subseteq DOMAIN raw /\ lost' \subseteq Tick
           /\ \A m \in DOMAIN rows : rows'[m] \subseteq DOMAIN raw
           /\ \A m \in DOMAIN rows : \A t \in rows'[m] : MayBeIn(t, m) /\ MidnightOf(m) <= clock
           /\ PersistCandles =>
                 /\ \A t \in DOMAIN raw : t \in lost' \/ \E m \in DOMAIN rows : t \in rows'[m]
                 /\ \A m \in DOMAIN rows : rows'[m] \cap lost' = {}
                 /\ \A m, n \in DOMAIN rows : m # n => rows'[m] \cap rows'[n] = {}
  <1>0. /\ rows \in [0..LastMinute + MinutesPerDay -> SUBSET Tick] /\ lost \subseteq Tick
        /\ candle.ticks \subseteq Tick /\ candle.ticks \subseteq DOMAIN raw
        /\ lost \subseteq DOMAIN raw
        /\ \A m \in DOMAIN rows : rows[m] \subseteq DOMAIN raw
    BY DEF CandleInv, CollectorTypeOK, TradesReceived
  <1>1. CASE ~inserted
    <2>1. lost' = lost \cup candle.ticks /\ rows' = rows
      BY <1>1 DEF FlushCandle
    <2>2. \A m \in DOMAIN rows : \A t \in rows'[m] : MayBeIn(t, m) /\ MidnightOf(m) <= clock
      BY <2>1 DEF CandleInv, RowsOfTheirMinute, RowsOfDaysBegun
    <2>. QED
      BY <1>0, <2>1, <2>2 DEF CandleInv, InOnePlace
  <1>2. CASE inserted
    <2> DEFINE at == CandleTime
    <2>1. /\ rows' = [rows EXCEPT ![at] = candle.ticks]
          /\ lost' = lost \cup rows[at]
      BY <1>2 DEF FlushCandle
    <2>2. /\ at \in DOMAIN rows /\ at \in Nat /\ at % MinutesPerDay = candle.start
          /\ MidnightOf(at) <= clock
          /\ \A x \in Nat : x <= clock /\ x % MinutesPerDay = candle.start => x <= at
      <3>1. /\ clock \in Nat /\ clock \in 0..LastMinute /\ MinutesPerDay \in Nat \ {0}
            /\ candle.start \in 0..MinutesPerDay - 1
            /\ DOMAIN rows = 0..LastMinute + MinutesPerDay
            /\ at = clock - (clock % MinutesPerDay) + candle.start
        BY CollectorFacts DEF CandleTime, MinuteOfDay
      <3>2. /\ at \in Nat /\ at <= clock + (MinutesPerDay - 1)
            /\ at % MinutesPerDay = candle.start
            /\ at - (at % MinutesPerDay) <= clock
            /\ \A x \in Nat : x <= clock /\ x % MinutesPerDay = candle.start => x <= at
        BY <3>1, StampFacts
      <3>. HIDE DEF at
      <3>3. at \in 0..LastMinute + MinutesPerDay
        BY <3>1, <3>2, CollectorAssumption
      <3>. QED
        BY <3>1, <3>2, <3>3 DEF MidnightOf
    <2>. HIDE DEF at
    <2>3. /\ rows'[at] = candle.ticks
          /\ \A m \in DOMAIN rows \ {at} : rows'[m] = rows[m]
          /\ rows' \in [0..LastMinute + MinutesPerDay -> SUBSET Tick]
      BY <1>0, <2>1, <2>2
    <2>4. \A t \in candle.ticks : MayBeIn(t, at)
      <3>1. \A t \in candle.ticks : /\ t \in DOMAIN raw /\ raw[t] \in Nat /\ raw[t] <= clock
                                    /\ raw[t] % MinutesPerDay = candle.start
        BY CollectorFacts DEF CandleInv, TradesReceived
      <3>2. \A t \in candle.ticks : \A u \in DOMAIN raw :
               t < u => raw[u] % MinutesPerDay = candle.start
        BY DEF CandleInv, CandleUnbroken
      <3>. QED
        BY <2>2, <3>1, <3>2 DEF MayBeIn
    <2>5. \A m \in DOMAIN rows : \A t \in rows'[m] : MayBeIn(t, m) /\ MidnightOf(m) <= clock
      BY <2>2, <2>3, <2>4 DEF CandleInv, RowsOfTheirMinute, RowsOfDaysBegun
    <2>6. ASSUME PersistCandles
          PROVE  /\ \A t \in DOMAIN raw : t \in lost' \/ \E m \in DOMAIN rows : t \in rows'[m]
                 /\ \A m \in DOMAIN rows : rows'[m] \cap lost' = {}
                 /\ \A m, n \in DOMAIN rows : m # n => rows'[m] \cap rows'[n] = {}
      <3>1. /\ \A t \in DOMAIN raw : \/ t \in candle.ticks \cup lost
                                     \/ \E m \in DOMAIN rows : t \in rows[m]
            /\ candle.ticks \cap lost = {}
            /\ \A m \in DOMAIN rows : rows[m] \cap (candle.ticks \cup lost) = {}
            /\ \A m, n \in DOMAIN rows : m # n => rows[m] \cap rows[n] = {}
        BY <2>6 DEF CandleInv, InOnePlace
      <3>2. ASSUME NEW t \in DOMAIN raw
            PROVE  t \in lost' \/ \E m \in DOMAIN rows : t \in rows'[m]
        <4>1. CASE t \in candle.ticks
          BY <2>2, <2>3, <4>1
        <4>2. CASE t \in lost
          BY <2>1, <4>2
        <4>3. CASE \E m \in DOMAIN rows : t \in rows[m]
          BY <2>1, <2>3, <4>3
        <4>. QED
          BY <3>1, <4>1, <4>2, <4>3
      <3>3. \A m \in DOMAIN rows : rows'[m] \cap lost' = {}
        BY <2>1, <2>2, <2>3, <3>1
      <3>4. \A m, n \in DOMAIN rows : m # n => rows'[m] \cap rows'[n] = {}
        BY <2>2, <2>3, <3>1
      <3>. QED
        BY <3>2, <3>3, <3>4
    <2>7. lost' \subseteq DOMAIN raw /\ lost' \subseteq Tick
          /\ \A m \in DOMAIN rows : rows'[m] \subseteq DOMAIN raw
      BY <1>0, <2>1, <2>2, <2>3
    <2>. QED
      BY <2>3, <2>5, <2>6, <2>7
  <1>. QED
    BY <1>1, <1>2

(* A trade comes in, and opens a candle, joins one, or ends one.           *)
LEMMA OnTradeKeeps == CandleInv /\ OnTrade => CandleInv'
  <1> SUFFICES ASSUME CandleInv, OnTrade PROVE CandleInv'
    OBVIOUS
  <1> DEFINE n == Len(raw) + 1
  <1>1. /\ raw' = Append(raw, clock) /\ UNCHANGED <<clock, collecting>>
        /\ Len(raw) < MaxTicks /\ collecting
    BY DEF OnTrade
  <1>2. /\ raw' \in Seq(0..LastMinute) /\ Len(raw') = n /\ n \in Nat /\ n \notin DOMAIN raw
        /\ DOMAIN raw' = DOMAIN raw \cup {n} /\ n \in Tick /\ n <= MaxTicks
        /\ raw'[n] = clock /\ \A t \in DOMAIN raw : raw'[t] = raw[t] /\ t < n
        /\ ~(n < n)
    <2>1. Len(raw) \in Nat /\ raw \in Seq(0..LastMinute) /\ clock \in 0..LastMinute
          /\ DOMAIN raw = 1..Len(raw) /\ MaxTicks \in Nat
      BY CollectorFacts, CollectorAssumption
    <2>2. /\ raw' \in Seq(0..LastMinute) /\ Len(raw') = n
          /\ raw'[n] = clock /\ \A t \in DOMAIN raw : raw'[t] = raw[t]
      BY <1>1, <2>1
    <2>3. n \in Nat /\ n \in Tick /\ n <= MaxTicks /\ n \notin 1..Len(raw) /\ ~(n < n)
          /\ (\A t \in 1..Len(raw) : t < n) /\ 1..n = (1..Len(raw)) \cup {n}
      BY <1>1, <2>1 DEF Tick
    <2>. HIDE DEF n
    <2>4. DOMAIN raw' = 1..n
      BY <2>2
    <2>. QED
      BY <2>1, <2>2, <2>3, <2>4
  <1>. HIDE DEF n
  <1>3. /\ clock \in Nat /\ clock <= clock
        /\ MinuteOfDay \in 0..MinutesPerDay - 1 /\ MinuteOfDay = clock % MinutesPerDay
        /\ DOMAIN rows = 0..LastMinute + MinutesPerDay
        /\ \A m \in DOMAIN rows : MidnightOf(m) <= clock => ~(clock < MidnightOf(m))
    <2>1. clock \in Nat
      BY CollectorFacts
    <2>2. /\ \A m \in DOMAIN rows : m \in Nat
          /\ \A m \in Nat : MidnightOf(m) \in Int
      <3>1. \A m \in Nat, k \in Nat \ {0} : m - (m % k) \in Int
        OBVIOUS
      <3>. QED
        BY <3>1, CollectorFacts DEF MidnightOf
    <2>. HIDE DEF MidnightOf
    <2>3. \A m \in DOMAIN rows : MidnightOf(m) <= clock => ~(clock < MidnightOf(m))
      BY <2>1, <2>2
    <2>. QED
      BY <2>1, <2>3, CollectorFacts
  <1>8. ASSUME NEW m \in DOMAIN rows, NEW t \in DOMAIN raw, MayBeIn(t, m), MidnightOf(m) <= clock
        PROVE  MayBeIn(t, m)'
    <2>. DEFINE x == MidnightOf(m)
    <2>1. MidnightOf(m)' = x
      BY DEF MidnightOf
    <2>2. /\ raw[t] % MinutesPerDay = m % MinutesPerDay /\ raw[t] <= m
          /\ \A u \in DOMAIN raw : t < u /\ raw[u] < x => raw[u] % MinutesPerDay = m % MinutesPerDay
      BY <1>8 DEF MayBeIn
    <2>3. ~(clock < x)
      BY <1>3, <1>8
    <2>. HIDE DEF x
    <2>4. \A u \in DOMAIN raw' : t < u /\ raw'[u] < x => raw'[u] % MinutesPerDay = m % MinutesPerDay
      BY <1>2, <2>2, <2>3
    <2>. QED
      BY <1>2, <2>1, <2>2, <2>4 DEF MayBeIn
  <1>4. CASE ~PersistCandles /\ UNCHANGED <<faults, candle, rows, lost>>
    <2>1. CollectorTypeOK'
      BY <1>1, <1>2, <1>4 DEF CandleInv, CollectorTypeOK
    <2>2. candle.ticks = {} /\ candle = NoCandle
      BY <1>4 DEF CandleInv, CandleUnbroken, NoCandle
    <2>3. TradesReceived'
      BY <1>1, <1>2, <1>3, <1>4, <2>2 DEF CandleInv, TradesReceived
    <2>4. RowsOfTheirMinute' /\ RowsOfDaysBegun'
      BY <1>1, <1>4, <1>8 DEF CandleInv, TradesReceived, RowsOfTheirMinute, RowsOfDaysBegun, MidnightOf
    <2>5. CandleUnbroken'
      BY <1>4, <2>2 DEF CandleUnbroken, NoCandle
    <2>. QED
      BY <1>4, <2>1, <2>3, <2>4, <2>5 DEF CandleInv, InOnePlace
  <1>5. CASE /\ PersistCandles
             /\ candle # NoCandle => candle.start = MinuteOfDay
             /\ candle' = [start |-> MinuteOfDay, ticks |-> candle.ticks \cup {n}]
             /\ UNCHANGED <<faults, rows, lost>>
    <2>1. candle'.start = MinuteOfDay /\ candle'.ticks = candle.ticks \cup {n}
      BY <1>5
    <2>2. CollectorTypeOK'
      BY <1>1, <1>2, <1>3, <1>5 DEF CandleInv, CollectorTypeOK
    <2>3. \A t \in candle.ticks : /\ t \in DOMAIN raw
                                  /\ raw[t] % MinutesPerDay = MinuteOfDay
      BY <1>5 DEF CandleInv, TradesReceived, NoCandle
    <2>4. TradesReceived'
      BY <1>1, <1>2, <1>3, <1>5, <2>1, <2>3 DEF CandleInv, TradesReceived
    <2>5. RowsOfTheirMinute' /\ RowsOfDaysBegun'
      BY <1>1, <1>5, <1>8 DEF CandleInv, TradesReceived, RowsOfTheirMinute, RowsOfDaysBegun, MidnightOf
    <2>6. InOnePlace'
      BY <1>2, <1>5, <2>1 DEF CandleInv, TradesReceived, InOnePlace
    <2>7. CandleUnbroken'
      <3>1. \A t \in candle.ticks : candle.start = MinuteOfDay
        BY <1>5 DEF NoCandle
      <3>2. \A t \in candle.ticks : /\ t \in DOMAIN raw
                                    /\ \A u \in DOMAIN raw : t < u => raw[u] % MinutesPerDay = MinuteOfDay
        BY <3>1 DEF CandleInv, CandleUnbroken, TradesReceived
      <3>3. \A u \in DOMAIN raw : ~(n < u)
        <4>1. \A u \in DOMAIN raw : u \in Nat /\ u < n /\ n \in Nat
          BY <1>2, CollectorFacts
        <4>. QED
          BY <4>1
      <3>. QED
        BY <1>2, <1>3, <1>5, <2>1, <3>2, <3>3 DEF CandleUnbroken
    <2>. QED
      BY <2>2, <2>4, <2>5, <2>6, <2>7 DEF CandleInv
  <1>6. ASSUME NEW inserted \in BOOLEAN, FlushCandle(inserted), candle # NoCandle,
               faults' \in 0..MaxFaults,
               candle' = [start |-> MinuteOfDay, ticks |-> {n}]
        PROVE  CandleInv'
    <2>1. candle'.start = MinuteOfDay /\ candle'.ticks = {n}
      BY <1>6
    <2>2. /\ rows' \in [0..LastMinute + MinutesPerDay -> SUBSET Tick] /\ DOMAIN rows' = DOMAIN rows
          /\ lost' \subseteq DOMAIN raw /\ lost' \subseteq Tick
          /\ \A m \in DOMAIN rows : rows'[m] \subseteq DOMAIN raw
          /\ \A m \in DOMAIN rows : \A t \in rows'[m] : MayBeIn(t, m) /\ MidnightOf(m) <= clock
          /\ PersistCandles =>
                /\ \A t \in DOMAIN raw : t \in lost' \/ \E m \in DOMAIN rows : t \in rows'[m]
                /\ \A m \in DOMAIN rows : rows'[m] \cap lost' = {}
                /\ \A m, k \in DOMAIN rows : m # k => rows'[m] \cap rows'[k] = {}
      BY <1>3, <1>6, FlushLeaves
    <2>3. CollectorTypeOK'
      BY <1>1, <1>2, <1>3, <1>6, <2>2 DEF CandleInv, CollectorTypeOK
    <2>4. TradesReceived'
      BY <1>1, <1>2, <1>3, <2>1, <2>2 DEF CandleInv, TradesReceived
    <2>5. RowsOfTheirMinute'
      <3> SUFFICES ASSUME NEW m \in DOMAIN rows, NEW t \in rows'[m] PROVE MayBeIn(t, m)'
        BY <2>2 DEF RowsOfTheirMinute
      <3>1. t \in DOMAIN raw /\ MayBeIn(t, m) /\ MidnightOf(m) <= clock
        BY <2>2
      <3>. QED
        BY <1>8, <3>1
    <2>8. RowsOfDaysBegun'
      BY <1>1, <2>2 DEF RowsOfDaysBegun, MidnightOf
    <2>6. InOnePlace'
      <3>1. DOMAIN raw' = DOMAIN raw \cup {n} /\ n \notin DOMAIN raw
        BY <1>2
      <3>. QED
        BY <2>1, <2>2, <3>1 DEF InOnePlace
    <2>7. CandleUnbroken'
      <3>1. \A u \in DOMAIN raw : ~(n < u)
        <4>1. \A u \in DOMAIN raw : u \in Nat /\ u < n /\ n \in Nat
          BY <1>2, CollectorFacts
        <4>. QED
          BY <4>1
      <3>2. PersistCandles
        BY <1>6 DEF CandleInv, CandleUnbroken
      <3>. QED
        BY <1>2, <2>1, <3>1, <3>2 DEF CandleUnbroken
    <2>. QED
      BY <2>3, <2>4, <2>5, <2>6, <2>7, <2>8 DEF CandleInv
  <1>7. /\ faults' = faults => faults' \in 0..MaxFaults
        /\ Fault => faults' \in 0..MaxFaults
    BY CollectorAssumption DEF CandleInv, CollectorTypeOK, Fault
  <1>. QED
    BY <1>4, <1>5, <1>6, <1>7 DEF OnTrade, n

(* The collector stops, with its candle flushed or without.                *)
LEMMA CollectorStopKeeps == CandleInv /\ (Disconnect \/ KillCollector) => CandleInv'
  <1> SUFFICES ASSUME CandleInv, Disconnect \/ KillCollector PROVE CandleInv'
    OBVIOUS
  <1>1. /\ collecting' = FALSE /\ faults' \in 0..MaxFaults /\ candle' = NoCandle
        /\ UNCHANGED <<clock, raw>>
    BY CollectorAssumption DEF Disconnect, KillCollector, Fault, CandleInv, CollectorTypeOK
  <1>2. candle'.ticks = {} /\ candle'.start = 0 /\ 0 \in 0..MinutesPerDay - 1
    BY <1>1, CollectorAssumption DEF NoCandle
  <1>3. /\ rows' \in [0..LastMinute + MinutesPerDay -> SUBSET Tick] /\ DOMAIN rows' = DOMAIN rows
        /\ lost' \subseteq DOMAIN raw /\ lost' \subseteq Tick
        /\ \A m \in DOMAIN rows : rows'[m] \subseteq DOMAIN raw
        /\ \A m \in DOMAIN rows : \A t \in rows'[m] : MayBeIn(t, m) /\ MidnightOf(m) <= clock
        /\ PersistCandles =>
              /\ \A t \in DOMAIN raw : t \in lost' \/ \E m \in DOMAIN rows : t \in rows'[m]
              /\ \A m \in DOMAIN rows : rows'[m] \cap lost' = {}
              /\ \A m, k \in DOMAIN rows : m # k => rows'[m] \cap rows'[k] = {}
    <2>0. rows \in [0..LastMinute + MinutesPerDay -> SUBSET Tick]
      BY DEF CandleInv, CollectorTypeOK
    <2>1. CASE \E inserted \in BOOLEAN : FlushCandle(inserted)
      BY <2>0, <2>1, FlushLeaves
    <2>2. CASE /\ candle = NoCandle \/ candle = candle
               /\ rows' = rows /\ lost' = lost \cup candle.ticks
      BY <2>0, <2>2 DEF CandleInv, CollectorTypeOK, TradesReceived, InOnePlace, RowsOfTheirMinute,
                        RowsOfDaysBegun
    <2>3. CASE candle = NoCandle /\ rows' = rows /\ lost' = lost
      <3>1. lost' = lost \cup candle.ticks
        BY <2>3 DEF NoCandle
      <3>. QED
        BY <2>2, <2>3, <3>1
    <2>. QED
      BY <2>1, <2>2, <2>3 DEF Disconnect, KillCollector
  <1>4. CollectorTypeOK'
    BY <1>1, <1>2, <1>3 DEF CandleInv, CollectorTypeOK, NoCandle
  <1>5. TradesReceived' /\ InOnePlace' /\ CandleUnbroken'
    BY <1>1, <1>2, <1>3 DEF CandleInv, TradesReceived, InOnePlace, CandleUnbroken, NoCandle
  <1>6. RowsOfTheirMinute' /\ RowsOfDaysBegun'
    BY <1>1, <1>3 DEF RowsOfTheirMinute, RowsOfDaysBegun, MayBeIn, MidnightOf
  <1>. QED
    BY <1>4, <1>5, <1>6 DEF CandleInv

(* Every step of the collector keeps the invariant of its candles.         *)
LEMMA CandleKeeps == CandleInv /\ [CollectorNext]_<<clock, faults, collectorVars>> => CandleInv'
  <1> SUFFICES ASSUME CandleInv, [CollectorNext]_<<clock, faults, collectorVars>> PROVE CandleInv'
    OBVIOUS
  <1>1. CASE StartCollector
    <2>1. collecting' = TRUE /\ UNCHANGED <<clock, faults, raw, candle, rows, lost>>
      BY <1>1 DEF StartCollector
    <2>. QED
      BY <2>1 DEF CandleInv, CollectorTypeOK, TradesReceived, InOnePlace, RowsOfTheirMinute,
                  CandleUnbroken, RowsOfDaysBegun, MayBeIn, MidnightOf, NoCandle
  <1>2. CASE MinutePasses
    <2>1. /\ clock' \in 0..LastMinute /\ clock' = clock + 1
          /\ UNCHANGED <<faults, collecting, raw, candle, rows, lost>>
      BY <1>2, CollectorFacts, CollectorAssumption DEF MinutePasses, collectorVars
    <2>2. TradesReceived'
      <3>1. \A t \in DOMAIN raw : raw[t] \in Nat /\ raw[t] <= clock /\ clock \in Nat
        BY CollectorFacts DEF CandleInv, TradesReceived
      <3>2. \A t \in DOMAIN raw : raw[t] <= clock'
        BY <2>1, <3>1
      <3>. QED
        BY <2>1, <3>2 DEF CandleInv, TradesReceived
    <2>3. RowsOfDaysBegun'
      <3>1. \A x \in Int : x <= clock => x <= clock'
        BY <2>1, CollectorFacts
      <3>2. \A m \in DOMAIN rows : MidnightOf(m) \in Int
        <4>1. \A m \in Nat, k \in Nat \ {0} : m - (m % k) \in Int
          OBVIOUS
        <4>. QED
          BY <4>1, CollectorFacts DEF MidnightOf
      <3>. QED
        BY <2>1, <3>1, <3>2 DEF CandleInv, RowsOfDaysBegun, MidnightOf
    <2>4. RowsOfTheirMinute' /\ CandleUnbroken'
      BY <2>1 DEF CandleInv, RowsOfTheirMinute, CandleUnbroken, MayBeIn, MidnightOf, NoCandle
    <2>. QED
      BY <2>1, <2>2, <2>3, <2>4 DEF CandleInv, CollectorTypeOK, InOnePlace
  <1>3. CASE UNCHANGED <<clock, faults, collectorVars>>
    BY <1>3 DEF collectorVars, CandleInv, CollectorTypeOK, TradesReceived, InOnePlace,
                RowsOfTheirMinute, CandleUnbroken, RowsOfDaysBegun, MayBeIn, MidnightOf, NoCandle
  <1>. QED
    BY <1>1, <1>2, <1>3, OnTradeKeeps, CollectorStopKeeps DEF CollectorNext

(* The collector begins without a candle.                                  *)
LEMMA InitCandleInv == CollectorInit => CandleInv
  <1> SUFFICES ASSUME CollectorInit PROVE CandleInv
    OBVIOUS
  <1>1. 0 \in 0..LastMinute /\ 0 \in 0..MaxFaults /\ 0 \in 0..MinutesPerDay - 1 /\ MaxTicks \in Nat
    BY CollectorAssumption
  <1>2. rows \in [0..LastMinute + MinutesPerDay -> SUBSET Tick] /\ \A m \in DOMAIN rows : rows[m] = {}
    BY DEF CollectorInit
  <1>3. candle \in [start : 0..MinutesPerDay - 1, ticks : SUBSET Tick] /\ candle.ticks = {}
    BY <1>1 DEF CollectorInit, NoCandle
  <1>4. raw \in Seq(0..LastMinute) /\ Len(raw) <= MaxTicks /\ DOMAIN raw = {}
    BY <1>1 DEF CollectorInit
  <1>5. CollectorTypeOK
    BY <1>1, <1>2, <1>3, <1>4 DEF CollectorInit, CollectorTypeOK
  <1>. QED
    BY <1>2, <1>3, <1>4, <1>5 DEF CollectorInit, CandleInv, TradesReceived, InOnePlace,
                                  RowsOfTheirMinute, CandleUnbroken, RowsOfDaysBegun

(* A trade in one place is counted once.                                   *)
LEMMA PlacedOnceIsAccounted == CandleInv => TicksAccounted
  <1> SUFFICES ASSUME CandleInv, PersistCandles, NEW t \in DOMAIN raw
               PROVE  Cardinality({m \in DOMAIN rows : t \in rows[m]})
                        + (IF t \in candle.ticks THEN 1 ELSE 0)
                        + (IF t \in lost THEN 1 ELSE 0) = 1
    BY DEF TicksAccounted
  <1> DEFINE at == {m \in DOMAIN rows : t \in rows[m]}
  <1>1. /\ t \in candle.ticks \cup lost \/ \E m \in DOMAIN rows : t \in rows[m]
        /\ ~(t \in candle.ticks /\ t \in lost)
        /\ \A m \in DOMAIN rows : t \in rows[m] => t \notin candle.ticks /\ t \notin lost
        /\ \A m, k \in DOMAIN rows : t \in rows[m] /\ t \in rows[k] => m = k
    BY DEF CandleInv, InOnePlace
  <1>2. CASE at = {}
    <2>1. Cardinality(at) = 0
      BY <1>2, FS_EmptySet
    <2>. HIDE DEF at
    <2>2. \/ t \in candle.ticks /\ t \notin lost
          \/ t \notin candle.ticks /\ t \in lost
      BY <1>1, <1>2 DEF at
    <2>. QED
      BY <2>1, <2>2 DEF at
  <1>3. CASE at # {}
    <2>1. PICK m \in DOMAIN rows : at = {m}
      BY <1>1, <1>3
    <2>2. Cardinality(at) = 1
      BY <2>1, FS_Singleton
    <2>3. t \notin candle.ticks /\ t \notin lost
      BY <1>1, <1>3
    <2>. QED
      BY <2>2, <2>3
  <1>. QED
    BY <1>2, <1>3

-----------------------------------------------------------------------------
(* The processor                                                           *)

(* A trade that has been handed out, and comes before all that the running *)
(* process has still to handle.                                            *)
Handled(t) == t \in 1..handedOut /\ \A b \in backlog : t < b
HandledThen(t) == t \in 1..handedOut' /\ \A b \in backlog' : t < b

(* One candle is the next one of the same run.                             *)
Follows(c, d) ==
    /\ d.number = c.number + 1 /\ d.life = c.life
    /\ \A s \in c.ticks, t \in d.ticks : s < t

InOrder(w) == \A i \in 1..Len(w) - 1 : Follows(w[i], w[i + 1])
Latest(w) == w[Len(w)]

(* The entries of the stream that the group knows.                         *)
EntriesKnown ==
    /\ life <= faults /\ handedOut <= Len(raw) /\ unacked \subseteq 1..handedOut
    /\ job # Nothing => Handled(job.entry)

(* The window ends with the latest candle completed, which this run of the *)
(* process has completed, before any trade of the candle it gathers.       *)
WindowGrows ==
    /\ \A t \in gathering.ticks : Handled(t)
    /\ InOrder(window)
    /\ window # <<>> =>
          /\ Latest(window).number = completed /\ Latest(window).life = life
          /\ \A s \in Latest(window).ticks :
                Handled(s) /\ \A t \in gathering.ticks : s < t

(* The stored window has the candle, or later ones, if it was saved.       *)
HasSeen(number, saved) ==
    saved => stored.candles # <<>> /\ Latest(stored.candles).number >= number

(* The stored window is one that a run of the process had, and has what    *)
(* the features say is in it.                                              *)
StoredGrows ==
    /\ InOrder(stored.candles) /\ Len(stored.candles) <= Lookback
    /\ stored.candles # <<>> => Latest(stored.candles).number <= completed
    /\ job # Nothing => HasSeen(job.candle, job.saved)
    /\ \A i \in DOMAIN features : HasSeen(features[i].candle, features[i].saved)

ProcessorInv ==
    ProcessorTypeOK /\ EntriesKnown /\ WindowGrows /\ StoredGrows

(* A set of entries has a first one, which CHOOSE finds.                   *)
LEMMA FirstIs ==
    ASSUME NEW S \in SUBSET Nat, S # {}
    PROVE  LET e == CHOOSE e \in S : \A f \in S : e <= f
           IN  e \in S /\ \A f \in S : e <= f
  <1>1. PICK m \in S : \A x \in S : ~ (<<x, m>> \in OpToRel(<, Nat))
    BY NatLessThanWellFounded, WFMin
  <1>2. \A x \in S : ~ (x < m)
    BY <1>1 DEF OpToRel
  <1>3. \A x \in S : m <= x
    BY <1>2
  <1>. QED
    BY <1>3

(* What a sequence has at a place.                                         *)
LEMMA ElementIs ==
    ASSUME NEW T, NEW w \in Seq(T)
    PROVE  DOMAIN w = 1..Len(w) /\ \A i \in 1..Len(w) : w[i] \in T
  OBVIOUS

(* The latest of a sequence is one of its elements.                        *)
LEMMA LatestIs ==
    ASSUME NEW T, NEW w \in Seq(T), w # <<>>
    PROVE  Latest(w) \in T /\ Len(w) \in Nat \ {0}
  BY DEF Latest

(* A full window drops its oldest candle for a new one.                    *)
LEMMA PushedFacts ==
    ASSUME NEW T, NEW w \in Seq(T), NEW x \in T, NEW n \in Nat \ {0}, Len(w) <= n
    PROVE  LET p == Pushed(w, x, n)
           IN  /\ p \in Seq(T) /\ p # <<>> /\ Len(p) <= n /\ Latest(p) = x
               /\ \A i \in 1..Len(p) - 1 :
                     \/ p[i + 1] = x /\ w # <<>> /\ p[i] = Latest(w)
                     \/ \E j \in 1..Len(w) - 1 : p[i] = w[j] /\ p[i + 1] = w[j + 1]
  <1> DEFINE p == Pushed(w, x, n)
  <1>1. CASE Len(w) < n
    <2>1. p = Append(w, x) /\ Len(p) = Len(w) + 1
      BY <1>1 DEF Pushed
    <2>2. p \in Seq(T) /\ p # <<>> /\ Len(p) <= n /\ Latest(p) = x
      BY <1>1, <2>1 DEF Latest
    <2>3. ASSUME NEW i \in 1..Len(p) - 1
          PROVE  \/ p[i + 1] = x /\ w # <<>> /\ p[i] = Latest(w)
                 \/ \E j \in 1..Len(w) - 1 : p[i] = w[j] /\ p[i + 1] = w[j + 1]
      <3>1. CASE i = Len(w)
        BY <2>1, <3>1 DEF Latest
      <3>2. CASE i # Len(w)
        <4>1. i \in 1..Len(w) - 1 /\ p[i] = w[i] /\ p[i + 1] = w[i + 1]
          BY <2>1, <3>2
        <4>. QED
          BY <4>1
      <3>. QED
        BY <3>1, <3>2
    <2>. QED
      BY <2>2, <2>3
  <1>2. CASE Len(w) >= n
    <2>1. p = Append(Tail(w), x) /\ Tail(w) \in Seq(T) /\ Len(Tail(w)) = Len(w) - 1 /\ Len(w) = n
          /\ w # <<>>
      BY <1>2 DEF Pushed
    <2>2. p \in Seq(T) /\ p # <<>> /\ Len(p) <= n /\ Latest(p) = x /\ Len(p) = n
      BY <2>1 DEF Latest
    <2>3. ASSUME NEW i \in 1..Len(p) - 1
          PROVE  \/ p[i + 1] = x /\ w # <<>> /\ p[i] = Latest(w)
                 \/ \E j \in 1..Len(w) - 1 : p[i] = w[j] /\ p[i + 1] = w[j + 1]
      <3>0. p[i] = w[i + 1]
        BY <2>1, <2>2
      <3>1. CASE i = n - 1
        BY <2>1, <2>2, <3>0, <3>1 DEF Latest
      <3>2. CASE i # n - 1
        <4>1. i + 1 \in 1..Len(w) - 1 /\ p[i + 1] = w[i + 1 + 1]
          BY <2>1, <2>2, <3>2
        <4>. QED
          BY <3>0, <4>1
      <3>. QED
        BY <3>1, <3>2
    <2>. QED
      BY <2>2, <2>3
  <1>. QED
    BY <1>1, <1>2

(* The entry that is handled next comes after all that were, and is one of *)
(* them then.                                                              *)
LEMMA UpcomingFacts ==
    ASSUME CollectorTypeOK, ProcessorTypeOK, EntriesKnown, Upcoming <= Len(raw),
           handedOut' = IF backlog # {} THEN handedOut ELSE handedOut + 1,
           backlog' = backlog \ {Upcoming}, unacked' = unacked \cup {Upcoming}, raw' = raw
    PROVE  /\ Upcoming \in Tick /\ Upcoming \in DOMAIN raw /\ raw[Upcoming] \in 0..LastMinute
           /\ handedOut' \in 0..MaxTicks /\ handedOut' <= Len(raw)
           /\ unacked' \subseteq Tick /\ unacked' \subseteq 1..handedOut'
           /\ backlog' \subseteq unacked'
           /\ \A t : Handled(t) => t < Upcoming /\ HandledThen(t)
           /\ HandledThen(Upcoming)
  <1>0. /\ handedOut \in Nat /\ handedOut <= Len(raw) /\ unacked \subseteq 1..handedOut
        /\ backlog \subseteq unacked /\ raw \in Seq(0..LastMinute) /\ Len(raw) <= MaxTicks
        /\ MaxTicks \in Nat
    BY CollectorAssumption DEF CollectorTypeOK, ProcessorTypeOK, EntriesKnown
  <1>1. CASE backlog # {}
    <2>1. backlog \in SUBSET Nat
      BY <1>0
    <2>2. Upcoming \in backlog /\ \A b \in backlog : Upcoming <= b
      BY <1>1, <2>1, FirstIs DEF Upcoming
    <2>. HIDE DEF Upcoming
    <2>3. handedOut' = handedOut /\ Upcoming \in 1..handedOut
      BY <1>0, <1>1, <2>2
    <2>4. Upcoming \in Tick /\ Upcoming \in DOMAIN raw /\ raw[Upcoming] \in 0..LastMinute
      <3>1. Upcoming \in 1..Len(raw) /\ Upcoming \in 1..MaxTicks
        BY <1>0, <2>3
      <3>. QED
        BY <1>0, <3>1, ElementIs DEF Tick
    <2>5. \A t : Handled(t) => t < Upcoming /\ HandledThen(t)
      BY <2>2, <2>3 DEF Handled, HandledThen
    <2>6. HandledThen(Upcoming)
      <3>1. \A b \in backlog : b # Upcoming => Upcoming < b
        BY <1>0, <2>2, <2>3
      <3>. QED
        BY <2>3, <3>1 DEF HandledThen
    <2>. QED
      BY <1>0, <2>2, <2>3, <2>4, <2>5, <2>6 DEF Tick
  <1>2. CASE backlog = {}
    <2>1. Upcoming = handedOut + 1 /\ handedOut' = handedOut + 1 /\ backlog' = {}
      BY <1>2 DEF Upcoming
    <2>. HIDE DEF Upcoming
    <2>2. Upcoming \in 1..Len(raw) /\ Upcoming \in 1..MaxTicks
      BY <1>0, <2>1
    <2>3. Upcoming \in Tick /\ Upcoming \in DOMAIN raw /\ raw[Upcoming] \in 0..LastMinute
      BY <1>0, <2>2, ElementIs DEF Tick
    <2>4. (\A t : Handled(t) => t < Upcoming /\ HandledThen(t)) /\ HandledThen(Upcoming)
      BY <1>0, <2>1, <2>2 DEF Handled, HandledThen
    <2>5. unacked' \subseteq 1..handedOut' /\ handedOut' \in 0..MaxTicks
      BY <1>0, <2>1, <2>2
    <2>. QED
      BY <1>0, <2>1, <2>2, <2>3, <2>4, <2>5 DEF Tick
  <1>. QED
    BY <1>1, <1>2

(* A trade goes into the candle that is gathered, or ends it.              *)
LEMMA HandleTickKeeps ==
    ASSUME CollectorTypeOK, ProcessorInv, HandleTick, UNCHANGED <<clock, collectorVars>>
    PROVE  ProcessorInv'
  <1> DEFINE e == Upcoming
             c == Gathered(e)
             complete == raw[e] - c.start >= Interval
             counted == IF closes < MinCandles THEN closes + 1 ELSE closes
             done == [number |-> completed + 1, life |-> life, ticks |-> c.ticks,
                      valid |-> counted = MinCandles]
  <1>1. /\ job = Nothing /\ e <= Len(raw)
        /\ handedOut' = IF backlog # {} THEN handedOut ELSE handedOut + 1
        /\ backlog' = backlog \ {e} /\ unacked' = unacked \cup {e}
        /\ UNCHANGED <<life, features, clock, raw>>
    BY DEF HandleTick, collectorVars
  <1>2. \/ /\ ~complete /\ gathering' = c
           /\ job' = [entry |-> e, candle |-> 0, saved |-> FALSE]
           /\ UNCHANGED <<faults, closes, window, stored, completed>>
        \/ /\ complete /\ gathering' = Empty
           /\ closes' = counted /\ window' = Pushed(window, done, Lookback)
           /\ completed' = completed + 1
           /\ \E saved \in BOOLEAN :
                 /\ IF saved THEN stored' = Stored(window') /\ UNCHANGED faults
                    ELSE Fault /\ UNCHANGED stored
                 /\ job' = [entry |-> e, candle |-> done.number, saved |-> saved]
    BY DEF HandleTick
  <1>3. /\ e \in Tick /\ raw[e] \in 0..LastMinute
        /\ handedOut' \in 0..MaxTicks /\ handedOut' <= Len(raw)
        /\ unacked' \subseteq Tick /\ unacked' \subseteq 1..handedOut'
        /\ backlog' \subseteq unacked'
        /\ \A t : Handled(t) => t < e /\ HandledThen(t)
        /\ HandledThen(e)
    BY <1>1, UpcomingFacts DEF ProcessorInv
  <1>. HIDE DEF e
  <1>4. /\ gathering \in [start : 0..LastMinute, ticks : SUBSET Tick]
        /\ completed \in Nat /\ life \in 0..MaxFaults /\ closes \in 0..MinCandles
        /\ window \in Seq(Candles) /\ Len(window) <= Lookback
        /\ stored \in [candles : Seq(Candles), until : Nat]
        /\ features \in Seq([candle : Nat, saved : BOOLEAN])
        /\ MinCandles \in Nat \ {0} /\ Lookback \in Nat \ {0} /\ KeyLife \in Nat /\ clock \in Nat
        /\ life <= faults /\ faults \in Nat /\ WindowGrows /\ StoredGrows
    BY ProcessorAssumption, CollectorAssumption
       DEF ProcessorInv, ProcessorTypeOK, EntriesKnown, CollectorTypeOK
  <1>5. /\ c \in [start : 0..LastMinute, ticks : SUBSET Tick]
        /\ c.ticks = gathering.ticks \cup {e}
    <2>1. c.ticks = gathering.ticks \cup {e} /\ c.start = IF gathering = Empty THEN raw[e] ELSE gathering.start
      BY DEF Gathered
    <2>2. c.ticks \in SUBSET Tick /\ c.start \in 0..LastMinute
      BY <1>3, <1>4, <2>1
    <2>. QED
      BY <2>1, <2>2 DEF Gathered
  <1>. HIDE DEF c
  <1>6. \A t \in c.ticks : HandledThen(t)
    BY <1>3, <1>4, <1>5 DEF WindowGrows
  <1>7. counted \in 0..MinCandles
    BY <1>4
  <1>8. CASE /\ ~complete /\ gathering' = c
             /\ job' = [entry |-> e, candle |-> 0, saved |-> FALSE]
             /\ UNCHANGED <<faults, closes, window, stored, completed>>
    <2>1. ProcessorTypeOK'
      BY <1>1, <1>3, <1>4, <1>5, <1>8 DEF ProcessorTypeOK, Tick, Candles
    <2>2. EntriesKnown'
      BY <1>1, <1>3, <1>4, <1>8 DEF EntriesKnown, Handled, HandledThen
    <2>3. WindowGrows'
      <3>1. window # <<>> => \A s \in Latest(window).ticks : HandledThen(s) /\ \A t \in c.ticks : s < t
        BY <1>3, <1>4, <1>5 DEF WindowGrows
      <3>. QED
        BY <1>1, <1>4, <1>6, <1>8, <3>1 DEF WindowGrows, Handled, HandledThen
    <2>4. StoredGrows'
      BY <1>1, <1>4, <1>8 DEF StoredGrows, HasSeen
    <2>. QED
      BY <2>1, <2>2, <2>3, <2>4 DEF ProcessorInv
  <1>9. CASE /\ complete /\ gathering' = Empty
             /\ closes' = counted /\ window' = Pushed(window, done, Lookback)
             /\ completed' = completed + 1
             /\ \E saved \in BOOLEAN :
                   /\ IF saved THEN stored' = Stored(window') /\ UNCHANGED faults
                      ELSE Fault /\ UNCHANGED stored
                   /\ job' = [entry |-> e, candle |-> done.number, saved |-> saved]
    <2>1. PICK saved \in BOOLEAN :
             /\ IF saved THEN stored' = Stored(window') /\ UNCHANGED faults
                ELSE Fault /\ UNCHANGED stored
             /\ job' = [entry |-> e, candle |-> done.number, saved |-> saved]
      BY <1>9
    <2>2. done \in Candles /\ done.number = completed + 1 /\ done.life = life /\ done.ticks = c.ticks
      <3>1. completed + 1 \in Nat /\ (counted = MinCandles) \in BOOLEAN /\ c.ticks \in SUBSET Tick
        BY <1>4, <1>5
      <3>. QED
        BY <1>4, <3>1 DEF Candles
    <2>. HIDE DEF done
    <2>3. /\ window' \in Seq(Candles) /\ window' # <<>> /\ Len(window') <= Lookback
          /\ Latest(window') = done
          /\ \A i \in 1..Len(window') - 1 :
                \/ window'[i + 1] = done /\ window # <<>> /\ window'[i] = Latest(window)
                \/ \E j \in 1..Len(window) - 1 :
                      window'[i] = window[j] /\ window'[i + 1] = window[j + 1]
      BY <1>4, <1>9, <2>2, PushedFacts
    <2>4. window # <<>> => Follows(Latest(window), done)
      BY <1>3, <1>4, <1>5, <2>2 DEF WindowGrows, Follows
    <2>5. InOrder(window')
      BY <1>4, <2>3, <2>4 DEF InOrder, WindowGrows
    <2>6. faults' \in Nat /\ faults <= faults'
      BY <1>4, <2>1 DEF Fault
    <2>7. stored' \in [candles : Seq(Candles), until : Nat]
      <3>1. CASE saved
        <4>1. clock + KeyLife \in Nat
          BY <1>4
        <4>. QED
          BY <2>1, <2>3, <3>1, <4>1 DEF Stored
      <3>2. CASE ~saved
        BY <1>4, <2>1, <3>2
      <3>. QED
        BY <3>1, <3>2
    <2>8. job' \in [entry : Tick, candle : Nat, saved : BOOLEAN] /\ job'.candle = completed + 1
          /\ job'.saved = saved
      <3>1. completed + 1 \in Nat
        BY <1>4
      <3>. QED
        BY <1>3, <2>1, <2>2, <3>1
    <2>9. Empty \in [start : 0..LastMinute, ticks : SUBSET Tick] /\ Empty.ticks = {}
      BY CollectorAssumption DEF Empty
    <2>10. ProcessorTypeOK'
      <3>1. completed' \in Nat
        BY <1>4, <1>9
      <3>. QED
        BY <1>1, <1>3, <1>4, <1>7, <1>9, <2>3, <2>7, <2>8, <2>9, <3>1 DEF ProcessorTypeOK, Tick, Candles
    <2>11. EntriesKnown'
      <3>1. life <= faults'
        BY <1>4, <2>6
      <3>. QED
        BY <1>1, <1>3, <2>1, <3>1 DEF EntriesKnown, Handled, HandledThen
    <2>12. WindowGrows'
      BY <1>1, <1>6, <1>9, <2>2, <2>3, <2>5, <2>9 DEF WindowGrows, InOrder, Latest, Handled, HandledThen
    <2>13. StoredGrows'
      <3>1. CASE saved
        <4>1. stored'.candles = window'
          BY <2>1, <3>1 DEF Stored
        <4>2. stored'.candles # <<>> /\ Latest(stored'.candles).number = completed + 1
              /\ InOrder(stored'.candles) /\ Len(stored'.candles) <= Lookback
          BY <2>2, <2>3, <2>5, <4>1
        <4>3. \A i \in DOMAIN features : features[i].saved => features[i].candle <= completed + 1
          <5>1. \A i \in DOMAIN features : features[i].saved => 
                   /\ features[i].candle \in Nat /\ stored.candles # <<>>
                   /\ Latest(stored.candles).number >= features[i].candle
            <6>1. features \in Seq([candle : Nat, saved : BOOLEAN])
              BY <1>4
            <6>2. \A i \in DOMAIN features : features[i] \in [candle : Nat, saved : BOOLEAN]
              BY <6>1, ElementIs
            <6>. QED
              BY <1>4, <6>2 DEF StoredGrows, HasSeen
          <5>2. stored.candles # <<>> =>
                   Latest(stored.candles).number \in Nat /\ Latest(stored.candles).number <= completed
            <6>1. stored.candles \in Seq(Candles)
              BY <1>4
            <6>2. stored.candles # <<>> => Latest(stored.candles) \in Candles
              BY <6>1, LatestIs
            <6>. QED
              BY <1>4, <6>2 DEF StoredGrows, Candles
          <5>. QED
            BY <1>4, <5>1, <5>2
        <4>4. \A i \in DOMAIN features' : HasSeen(features[i].candle, features[i].saved)'
          BY <1>1, <1>4, <4>2, <4>3 DEF HasSeen, Latest
        <4>. QED
          BY <1>1, <1>4, <1>9, <2>8, <4>2, <4>4 DEF StoredGrows, HasSeen, InOrder, Latest, Follows
      <3>2. CASE ~saved
        <4>1. stored' = stored /\ features' = features /\ completed' = completed + 1
          BY <1>1, <1>9, <2>1, <3>2
        <4>2. stored.candles # <<>> =>
                 Latest(stored.candles).number \in Nat /\ Latest(stored.candles).number <= completed
          <5>1. stored.candles \in Seq(Candles)
            BY <1>4
          <5>2. stored.candles # <<>> => Latest(stored.candles) \in Candles
            BY <5>1, LatestIs
          <5>. QED
            BY <1>4, <5>2 DEF StoredGrows, Candles
        <4>. QED
          BY <1>4, <2>8, <3>2, <4>1, <4>2 DEF StoredGrows, HasSeen, InOrder, Latest, Follows
      <3>. QED
        BY <3>1, <3>2
    <2>. QED
      BY <2>10, <2>11, <2>12, <2>13 DEF ProcessorInv
  <1>. QED
    BY <1>2, <1>8, <1>9


(* The feature is published, or not, and its entry acknowledged, or not.   *)
LEMMA PublishKeeps ==
    ASSUME CollectorTypeOK, ProcessorInv, PublishFeature, UNCHANGED <<clock, collectorVars>>
    PROVE  ProcessorInv'
  <1> DEFINE Published == [candle : Nat, saved : BOOLEAN]
             f == [candle |-> job.candle, saved |-> job.saved]
  <1>1. /\ job # Nothing /\ job' = Nothing /\ raw' = raw
        /\ UNCHANGED <<handedOut, backlog, life, gathering, closes, window, stored, completed>>
        /\ features' = features \/ features' = Append(features, f)
        /\ unacked' = unacked \/ unacked' = unacked \ {job.entry}
        /\ faults' = faults \/ faults' = faults + 1
    BY DEF PublishFeature, Fault, collectorVars
  <1>2. faults \in Nat /\ faults' \in Nat /\ faults <= faults'
    BY <1>1, CollectorAssumption DEF CollectorTypeOK
  <1>3. /\ features \in Seq(Published) /\ job \in [entry : Tick, candle : Nat, saved : BOOLEAN]
        /\ Handled(job.entry) /\ HasSeen(job.candle, job.saved)
        /\ \A i \in DOMAIN features : HasSeen(features[i].candle, features[i].saved)
    BY <1>1 DEF ProcessorInv, ProcessorTypeOK, EntriesKnown, StoredGrows
  <1>4. f \in Published /\ HasSeen(f.candle, f.saved)
    BY <1>3
  <1>. HIDE DEF f
  <1>5. features' \in Seq(Published) /\ \A i \in DOMAIN features' :
           \/ features'[i] = f
           \/ i \in DOMAIN features /\ features'[i] = features[i]
    <2>1. CASE features' = features
      BY <1>3, <2>1
    <2>2. CASE features' = Append(features, f)
      <3>1. features' \in Seq(Published) /\ Len(features') = Len(features) + 1 /\ Len(features) \in Nat
        BY <1>3, <1>4, <2>2
      <3>2. ASSUME NEW i \in 1..Len(features) + 1
            PROVE  features'[i] = IF i <= Len(features) THEN features[i] ELSE f
        BY <1>3, <1>4, <2>2
      <3>. QED
        BY <3>1, <3>2
    <2>. QED
      BY <1>1, <2>1, <2>2
  <1>6. \A i \in DOMAIN features' : HasSeen(features[i].candle, features[i].saved)'
    BY <1>1, <1>3, <1>4, <1>5 DEF HasSeen
  <1>7. backlog' \subseteq unacked' /\ unacked' \subseteq unacked
    <2>1. job.entry \notin backlog
      <3>1. job.entry \in Nat
        BY <1>3 DEF Tick
      <3>. QED
        BY <1>3, <3>1 DEF Handled
    <2>. QED
      BY <1>1, <2>1 DEF ProcessorInv, ProcessorTypeOK
  <1>8. ProcessorTypeOK'
    BY <1>1, <1>5, <1>7 DEF ProcessorInv, ProcessorTypeOK, Candles, Tick
  <1>9. EntriesKnown'
    <2>1. life \in Nat /\ life <= faults /\ life' = life
      BY <1>1, CollectorAssumption DEF ProcessorInv, EntriesKnown, ProcessorTypeOK
    <2>. QED
      BY <1>1, <1>2, <1>7, <2>1 DEF ProcessorInv, EntriesKnown
  <1>10. WindowGrows'
    BY <1>1 DEF ProcessorInv, WindowGrows, Handled, InOrder, Follows, Latest
  <1>11. StoredGrows'
    BY <1>1, <1>6 DEF ProcessorInv, StoredGrows, InOrder, Follows, Latest
  <1>. QED
    BY <1>8, <1>9, <1>10, <1>11 DEF ProcessorInv

(* A new run of the process begins with what the last one left pending.    *)
LEMMA RestartProcessorKeeps ==
    ASSUME CollectorTypeOK, ProcessorInv, RestartProcessor, UNCHANGED <<clock, collectorVars>>
    PROVE  ProcessorInv'
  <1>1. /\ faults < MaxFaults /\ faults' = faults + 1 /\ life' = life + 1
        /\ backlog' = unacked /\ job' = Nothing /\ raw' = raw
        /\ gathering' = Empty /\ closes' = 0 /\ window' = <<>>
        /\ UNCHANGED <<handedOut, unacked, stored, features, completed>>
    BY DEF RestartProcessor, Fault, collectorVars
  <1>2. /\ faults \in Nat /\ life \in Nat /\ life <= faults /\ MaxFaults \in Nat
    BY CollectorAssumption DEF CollectorTypeOK, ProcessorInv, ProcessorTypeOK, EntriesKnown
  <1>3. life' \in 0..MaxFaults /\ life' <= faults'
    BY <1>1, <1>2
  <1>4. /\ Empty \in [start : 0..LastMinute, ticks : SUBSET Tick] /\ Empty.ticks = {}
        /\ window' \in Seq(Candles) /\ Len(window') = 0 /\ 0 <= Lookback /\ 0 \in 0..MinCandles
    BY <1>1, CollectorAssumption, ProcessorAssumption DEF Empty
  <1>5. ProcessorTypeOK'
    BY <1>1, <1>3, <1>4 DEF ProcessorInv, ProcessorTypeOK, Candles, Tick
  <1>6. EntriesKnown'
    BY <1>1, <1>3 DEF ProcessorInv, EntriesKnown
  <1>7. WindowGrows'
    BY <1>1, <1>4 DEF WindowGrows, InOrder
  <1>8. StoredGrows'
    BY <1>1 DEF ProcessorInv, StoredGrows, InOrder, Follows, Latest, HasSeen
  <1>. QED
    BY <1>5, <1>6, <1>7, <1>8 DEF ProcessorInv

(* What the collector and the engine do only adds trades and faults.       *)
LEMMA OthersKeepProcessor ==
    ASSUME CollectorTypeOK, ProcessorInv, CollectorTypeOK', UNCHANGED processorVars,
           Len(raw) <= Len(raw'), faults <= faults'
    PROVE  ProcessorInv'
  <1>1. UNCHANGED <<handedOut, unacked, backlog, job, life, gathering, closes,
                    window, stored, features, completed>>
    BY DEF processorVars
  <1>2. ProcessorTypeOK'
    BY <1>1 DEF ProcessorInv, ProcessorTypeOK, Candles, Tick
  <1>3. EntriesKnown'
    <2>1. /\ life \in Nat /\ faults \in Nat /\ faults' \in Nat /\ life <= faults
          /\ handedOut \in Nat /\ Len(raw) \in Nat /\ Len(raw') \in Nat /\ handedOut <= Len(raw)
      BY CollectorAssumption DEF CollectorTypeOK, ProcessorInv, ProcessorTypeOK, EntriesKnown
    <2>2. life <= faults' /\ handedOut <= Len(raw')
      BY <2>1
    <2>. QED
      BY <1>1, <2>2 DEF ProcessorInv, EntriesKnown, Handled
  <1>4. WindowGrows' /\ StoredGrows'
    BY <1>1 DEF ProcessorInv, WindowGrows, StoredGrows, Handled, InOrder, Follows, Latest, HasSeen
  <1>. QED
    BY <1>2, <1>3, <1>4 DEF ProcessorInv

(* The processor begins with nothing handled and nothing stored.           *)
LEMMA InitProcessorInv == CollectorInit /\ ProcessorInit => ProcessorInv
  <1> SUFFICES ASSUME CollectorInit, ProcessorInit PROVE ProcessorInv
    OBVIOUS
  <1>1. /\ 0 \in 0..MaxTicks /\ 0 \in 0..MaxFaults /\ 0 \in 0..MinCandles /\ 0 <= Lookback
        /\ Empty \in [start : 0..LastMinute, ticks : SUBSET Tick] /\ Empty.ticks = {}
    BY CollectorAssumption, ProcessorAssumption DEF Empty
  <1>2. /\ window \in Seq(Candles) /\ Len(window) = 0 /\ features \in Seq([candle : Nat, saved : BOOLEAN])
        /\ stored.candles \in Seq(Candles) /\ Len(stored.candles) = 0 /\ Len(features) = 0 /\ Len(raw) = 0
        /\ DOMAIN features = {} /\ window = <<>> /\ stored.candles = <<>>
    BY DEF ProcessorInit, CollectorInit
  <1>3. stored \in [candles : Seq(Candles), until : Nat]
    BY DEF ProcessorInit
  <1>4. ProcessorTypeOK
    BY <1>1, <1>2, <1>3 DEF ProcessorInit, ProcessorTypeOK
  <1>. QED
    BY <1>1, <1>2, <1>4 DEF ProcessorInit, CollectorInit, ProcessorInv, EntriesKnown, WindowGrows,
                            StoredGrows, InOrder


-----------------------------------------------------------------------------
(* The engine                                                              *)

EngineInv == EngineTypeOK /\ WindowSound /\ PredictionSeesCandle

(* If enough of the stored candles have indicators, it is all of them: the *)
(* window has no more than the model reads.                                *)
LEMMA SequenceFacts ==
    ASSUME ProcessorInv, Len(Sequence) >= Lookback
    PROVE  /\ Sequence = stored.candles /\ Sequence \in Seq(Candles)
           /\ Len(Sequence) = Lookback /\ \A i \in 1..Lookback : Sequence[i].valid
  <1> DEFINE found == FeatureWindow
             valid == {i \in DOMAIN found : found[i].valid}
             count == Cardinality(valid)
             nth(n) == CHOOSE i \in valid : Cardinality({j \in valid : j <= i}) = n
             length == IF count < Lookback THEN count ELSE Lookback
  <1>1. /\ found \in Seq(Candles) /\ Len(found) <= Lookback /\ Lookback \in Nat \ {0}
        /\ found = stored.candles \/ Len(found) = 0
    BY ProcessorAssumption DEF FeatureWindow, ProcessorInv, ProcessorTypeOK, StoredGrows
  <1>2. Sequence = [k \in 1..length |-> found[nth(count - length + k)]]
    BY DEF Sequence
  <1>. HIDE DEF found
  <1>3. /\ IsFiniteSet(1..Len(found)) /\ Cardinality(1..Len(found)) = Len(found)
        /\ valid \subseteq 1..Len(found)
    <2>1. DOMAIN found = 1..Len(found) /\ Len(found) \in Nat
      BY <1>1, ElementIs
    <2>2. \A n \in Nat : IsFiniteSet(1..n) /\ Cardinality(1..n) = n
      <3>1. \A n \in Nat : /\ IsFiniteSet(1..n)
                           /\ Cardinality(1..n) = IF 1 > n THEN 0 ELSE n - 1 + 1
        BY FS_Interval
      <3>. QED
        BY <3>1
    <2>. QED
      BY <2>1, <2>2
  <1>4. count \in Nat /\ count <= Len(found) /\ (count = Len(found) => valid = 1..Len(found))
    BY <1>3, FS_Subset, FS_CardinalityType
  <1>. HIDE DEF count
  <1>5. length \in Nat /\ Len(Sequence) = length
    BY <1>1, <1>2, <1>4
  <1>6. count = Lookback /\ length = Lookback /\ Len(found) = Lookback /\ valid = 1..Lookback
    BY <1>1, <1>4, <1>5
  <1>7. ASSUME NEW k \in 1..Lookback PROVE nth(k) = k
    <2>1. ASSUME NEW i \in 1..Lookback PROVE Cardinality({j \in valid : j <= i}) = i
      <3>1. {j \in valid : j <= i} = 1..i
        BY <1>1, <1>6
      <3>2. i \in Nat /\ Cardinality(1..i) = i
        BY <1>1, FS_Interval
      <3>. QED
        BY <3>1, <3>2
    <2>. HIDE DEF valid
    <2>. QED
      BY <1>6, <2>1
  <1>8. \A k \in 1..Lookback : count - length + k = k
    BY <1>1, <1>6
  <1>. HIDE DEF nth, length
  <1>9. Sequence = [k \in 1..Lookback |-> found[k]]
    BY <1>2, <1>6, <1>7, <1>8
  <1>10. Sequence = found
    BY <1>1, <1>6, <1>9
  <1>11. found = stored.candles
    BY <1>1, <1>6
  <1>12. \A i \in 1..Lookback : found[i].valid
    BY <1>6
  <1>. QED
    BY <1>1, <1>6, <1>10, <1>11, <1>12

(* The feature that is handled next is one of the stream.                  *)
LEMMA NextFeatureFacts ==
    ASSUME EngineTypeOK, ProcessorTypeOK, NextFeature <= Len(features),
           seen' = IF retrying # {} THEN seen ELSE seen + 1
    PROVE  /\ NextFeature \in 1..seen' /\ NextFeature \in DOMAIN features
           /\ seen' \in Nat /\ seen' <= Len(features) /\ seen <= seen' /\ seen \in Nat
  <1>0. /\ seen \in Nat /\ seen <= Len(features) /\ unsettled \subseteq 1..seen
        /\ retrying \subseteq unsettled /\ Len(features) \in Nat /\ DOMAIN features = 1..Len(features)
    BY DEF EngineTypeOK, ProcessorTypeOK
  <1>1. CASE retrying # {}
    <2>1. retrying \in SUBSET Nat
      BY <1>0
    <2>2. NextFeature \in retrying
      BY <1>1, <2>1, FirstIs DEF NextFeature
    <2>. QED
      BY <1>0, <1>1, <2>2
  <1>2. CASE retrying = {}
    <2>1. NextFeature = seen + 1 /\ seen' = seen + 1
      BY <1>2 DEF NextFeature
    <2>. QED
      BY <1>0, <2>1
  <1>. QED
    BY <1>1, <1>2

(* A feature is settled, predicted from or left for the next run.          *)
LEMMA HandleFeatureKeeps ==
    ASSUME ProcessorInv, EngineInv, HandleFeature, UNCHANGED <<clock, collectorVars, processorVars>>
    PROVE  EngineInv'
  <1> DEFINE e == NextFeature
             f == features[e]
  <1>1. /\ e <= Len(features)
        /\ seen' = IF retrying # {} THEN seen ELSE seen + 1
        /\ retrying' = retrying \ {e}
        /\ unsettled' = unsettled \ {e} \/ unsettled' = unsettled \cup {e}
        /\ \/ prediction' = prediction
           \/ /\ Len(Sequence) >= Lookback
              /\ prediction' = [window |-> Sequence, candle |-> f.candle, saved |-> f.saved]
        /\ features' = features
    BY DEF HandleFeature, processorVars
  <1>2. /\ e \in 1..seen' /\ e \in DOMAIN features
        /\ seen' \in Nat /\ seen' <= Len(features) /\ seen <= seen' /\ seen \in Nat
    BY <1>1, NextFeatureFacts DEF EngineInv, ProcessorInv
  <1>. HIDE DEF e
  <1>3. /\ unsettled \subseteq 1..seen /\ retrying \subseteq unsettled
        /\ prediction = Nothing \/ prediction \in [window : Seq(Candles), candle : Nat, saved : BOOLEAN]
    BY DEF EngineInv, EngineTypeOK
  <1>4. unsettled' \subseteq 1..seen' /\ retrying' \subseteq unsettled'
    <2>1. 1..seen \subseteq 1..seen'
      BY <1>2
    <2>. QED
      BY <1>1, <1>2, <1>3, <2>1
  <1>5. features[e] \in [candle : Nat, saved : BOOLEAN]
    <2>1. features \in Seq([candle : Nat, saved : BOOLEAN])
      BY DEF ProcessorInv, ProcessorTypeOK
    <2>. QED
      BY <1>2, <2>1, ElementIs
  <1>6. CASE prediction' = prediction
    <2>1. EngineTypeOK'
      BY <1>1, <1>2, <1>3, <1>4, <1>6 DEF EngineTypeOK, Candles
    <2>. QED
      BY <1>6, <2>1 DEF EngineInv, WindowSound, PredictionSeesCandle
  <1>7. CASE /\ Len(Sequence) >= Lookback
             /\ prediction' = [window |-> Sequence, candle |-> f.candle, saved |-> f.saved]
    <2>1. /\ Sequence = stored.candles /\ Sequence \in Seq(Candles)
          /\ Len(Sequence) = Lookback /\ \A i \in 1..Lookback : Sequence[i].valid
      BY <1>7, SequenceFacts
    <2>2. prediction' \in [window : Seq(Candles), candle : Nat, saved : BOOLEAN]
          /\ prediction'.window = stored.candles /\ prediction'.candle = features[e].candle
          /\ prediction'.saved = features[e].saved
      BY <1>5, <1>7, <2>1
    <2>3. EngineTypeOK'
      BY <1>1, <1>2, <1>4, <2>2 DEF EngineTypeOK, Candles
    <2>4. InOrder(stored.candles) /\ HasSeen(features[e].candle, features[e].saved)
      BY <1>2 DEF ProcessorInv, StoredGrows
    <2>5. WindowSound'
      BY <2>1, <2>2, <2>4 DEF WindowSound, InOrder, Follows
    <2>6. PredictionSeesCandle'
      BY <2>1, <2>2, <2>4 DEF PredictionSeesCandle, HasSeen, Latest
    <2>. QED
      BY <2>3, <2>5, <2>6 DEF EngineInv
  <1>. QED
    BY <1>1, <1>6, <1>7

(* Nothing else changes a prediction, and features only come.              *)
LEMMA OthersKeepEngine ==
    ASSUME EngineInv, ProcessorTypeOK, ProcessorTypeOK', UNCHANGED <<seen, unsettled, prediction>>,
           Len(features) <= Len(features'), retrying' \subseteq unsettled
    PROVE  EngineInv'
  <1>1. seen \in Nat /\ seen <= Len(features) /\ Len(features) \in Nat /\ Len(features') \in Nat
    <2>1. \A S : \A s \in Seq(S) : Len(s) \in Nat
      OBVIOUS
    <2>2. /\ features \in Seq([candle : Nat, saved : BOOLEAN])
          /\ features' \in Seq([candle : Nat, saved : BOOLEAN])
      BY DEF ProcessorTypeOK
    <2>3. seen \in Nat /\ seen <= Len(features)
      BY DEF EngineInv, EngineTypeOK
    <2>. QED
      BY <2>1, <2>2, <2>3
  <1>2. seen <= Len(features')
    BY <1>1
  <1>3. EngineTypeOK'
    BY <1>1, <1>2 DEF EngineInv, EngineTypeOK, Candles
  <1>. QED
    BY <1>3 DEF EngineInv, WindowSound, PredictionSeesCandle

-----------------------------------------------------------------------------
(* The three of them                                                       *)

MarketInv == CandleInv /\ ProcessorInv /\ EngineInv

(* A step of the processor leaves the collector with its candles, and the  *)
(* features it has published where they were.                              *)
LEMMA ProcessorNextKeeps ==
    ASSUME MarketInv, ProcessorNext, UNCHANGED <<clock, collectorVars, engineVars>>
    PROVE  MarketInv'
  <1>1. CollectorTypeOK
    BY DEF MarketInv, CandleInv
  <1>2. ProcessorInv'
    BY <1>1, HandleTickKeeps, PublishKeeps, RestartProcessorKeeps DEF MarketInv, ProcessorNext
  <1>3. faults' \in 0..MaxFaults
    <2>1. faults' = faults \/ (faults < MaxFaults /\ faults' = faults + 1)
      BY DEF ProcessorNext, HandleTick, PublishFeature, RestartProcessor, Fault
    <2>. QED
      BY <1>1, <2>1, CollectorAssumption DEF CollectorTypeOK
  <1>4. CandleInv'
    BY <1>3 DEF MarketInv, CandleInv, CollectorTypeOK, TradesReceived, InOnePlace, RowsOfTheirMinute,
                CandleUnbroken, RowsOfDaysBegun, MayBeIn, MidnightOf, NoCandle, collectorVars, Tick
  <1>5. Len(features) <= Len(features')
    <2>1. features' = features \/ \E x : features' = Append(features, x)
      BY DEF ProcessorNext, HandleTick, PublishFeature, RestartProcessor
    <2>2. features \in Seq([candle : Nat, saved : BOOLEAN]) /\ features' \in Seq([candle : Nat, saved : BOOLEAN])
      BY <1>2 DEF MarketInv, ProcessorInv, ProcessorTypeOK
    <2>. QED
      BY <2>1, <2>2
  <1>6. EngineInv'
    BY <1>2, <1>5, OthersKeepEngine DEF MarketInv, ProcessorInv, engineVars, EngineInv, EngineTypeOK
  <1>. QED
    BY <1>2, <1>4, <1>6 DEF MarketInv

(* Every step of one of the three processes keeps the invariant.           *)
LEMMA MarketKeeps == MarketInv /\ [MarketNext]_marketVars => MarketInv'
  <1> SUFFICES ASSUME MarketInv, [MarketNext]_marketVars PROVE MarketInv'
    OBVIOUS
  <1>1. CASE CollectorNext /\ UNCHANGED <<processorVars, engineVars>>
    <2>1. CandleInv'
      BY <1>1, CandleKeeps DEF MarketInv
    <2>2. CollectorTypeOK /\ CollectorTypeOK'
      BY <2>1 DEF MarketInv, CandleInv
    <2>3. Len(raw) <= Len(raw')
      <3>1. raw' = raw \/ raw' = Append(raw, clock)
        BY <1>1 DEF CollectorNext, StartCollector, OnTrade, Disconnect, KillCollector, MinutePasses,
                    collectorVars
      <3>. QED
        BY <2>2, <3>1 DEF CollectorTypeOK
    <2>4. faults <= faults'
      <3>1. faults' = faults \/ faults' = faults + 1
        BY <1>1 DEF CollectorNext, StartCollector, OnTrade, Disconnect, KillCollector, MinutePasses,
                    Fault
      <3>. QED
        BY <2>2, <3>1, CollectorAssumption DEF CollectorTypeOK
    <2>5. ProcessorInv'
      BY <1>1, <2>2, <2>3, <2>4, OthersKeepProcessor DEF MarketInv
    <2>6. EngineInv'
      <3>1. UNCHANGED <<seen, unsettled, retrying, prediction, features>> /\ retrying \subseteq unsettled
        BY <1>1 DEF engineVars, processorVars, MarketInv, EngineInv, EngineTypeOK
      <3>2. Len(features) <= Len(features')
        BY <3>1 DEF MarketInv, ProcessorInv, ProcessorTypeOK
      <3>. QED
        BY <2>5, <3>1, <3>2, OthersKeepEngine DEF MarketInv, ProcessorInv
    <2>. QED
      BY <2>1, <2>5, <2>6 DEF MarketInv
  <1>2. CASE ProcessorNext /\ UNCHANGED <<clock, collectorVars, engineVars>>
    BY <1>2, ProcessorNextKeeps
  <1>3. CASE EngineNext /\ UNCHANGED <<clock, collectorVars, processorVars>>
    <2>1. CollectorTypeOK
      BY DEF MarketInv, CandleInv
    <2>2. faults' \in 0..MaxFaults /\ faults <= faults'
      <3>1. faults' = faults \/ (faults < MaxFaults /\ faults' = faults + 1)
        BY <1>3 DEF EngineNext, HandleFeature, RestartEngine, Fault
      <3>. QED
        BY <2>1, <3>1, CollectorAssumption DEF CollectorTypeOK
    <2>3. CandleInv'
      BY <1>3, <2>2 DEF MarketInv, CandleInv, CollectorTypeOK, TradesReceived, InOnePlace,
                        RowsOfTheirMinute, CandleUnbroken, RowsOfDaysBegun, MayBeIn, MidnightOf,
                        NoCandle, collectorVars, Tick
    <2>4. CollectorTypeOK' /\ Len(raw) <= Len(raw')
      BY <1>3, <2>1, <2>3 DEF CandleInv, collectorVars, CollectorTypeOK
    <2>5. ProcessorInv'
      BY <1>3, <2>1, <2>2, <2>4, OthersKeepProcessor DEF MarketInv
    <2>6. CASE HandleFeature
      BY <1>3, <2>3, <2>5, <2>6, HandleFeatureKeeps DEF MarketInv
    <2>7. CASE RestartEngine
      <3>1. UNCHANGED <<seen, unsettled, prediction, features>> /\ retrying' = unsettled
        BY <1>3, <2>7 DEF RestartEngine, processorVars
      <3>2. Len(features) <= Len(features')
        BY <3>1 DEF MarketInv, ProcessorInv, ProcessorTypeOK
      <3>3. EngineInv'
        BY <2>5, <3>1, <3>2, OthersKeepEngine DEF MarketInv, ProcessorInv
      <3>. QED
        BY <2>3, <2>5, <3>3 DEF MarketInv
    <2>. QED
      BY <1>3, <2>6, <2>7 DEF EngineNext
  <1>4. CASE UNCHANGED marketVars
    <2>1. CandleInv'
      BY <1>4 DEF marketVars, collectorVars, MarketInv, CandleInv, CollectorTypeOK, TradesReceived, InOnePlace,
                  RowsOfTheirMinute, CandleUnbroken, RowsOfDaysBegun, MayBeIn, MidnightOf, NoCandle
    <2>2. /\ CollectorTypeOK /\ CollectorTypeOK' /\ UNCHANGED processorVars
          /\ Len(raw) <= Len(raw') /\ faults <= faults'
      BY <1>4, <2>1, CollectorAssumption DEF marketVars, collectorVars, MarketInv, CandleInv, CollectorTypeOK
    <2>3. ProcessorInv'
      BY <2>2, OthersKeepProcessor DEF MarketInv
    <2>4. UNCHANGED <<seen, unsettled, retrying, prediction, features>> /\ retrying \subseteq unsettled
      BY <1>4 DEF marketVars, engineVars, processorVars, MarketInv, EngineInv, EngineTypeOK
    <2>5. Len(features) <= Len(features')
      BY <2>4 DEF MarketInv, ProcessorInv, ProcessorTypeOK
    <2>6. EngineInv'
      BY <2>3, <2>4, <2>5, OthersKeepEngine DEF MarketInv, ProcessorInv
    <2>. QED
      BY <2>1, <2>3, <2>6 DEF MarketInv
  <1>. QED
    BY <1>1, <1>2, <1>3, <1>4 DEF MarketNext

(* The three begin with empty streams.                                     *)
LEMMA InitMarketInv == MarketInit => MarketInv
  <1> SUFFICES ASSUME MarketInit PROVE MarketInv
    OBVIOUS
  <1>1. CandleInv /\ ProcessorInv
    BY InitCandleInv, InitProcessorInv DEF MarketInit
  <1>2. Len(features) \in Nat /\ 0 <= Len(features)
    BY <1>1 DEF ProcessorInv, ProcessorTypeOK
  <1>3. EngineInv
    BY <1>2 DEF MarketInit, EngineInit, EngineInv, EngineTypeOK, WindowSound, PredictionSeesCandle
  <1>. QED
    BY <1>1, <1>3 DEF MarketInv

-----------------------------------------------------------------------------
(* The invariant of the three processes: what one of them knows of the     *)
(* others is behind what they have done, never ahead.                      *)
THEOREM MarketInvariant == MarketSpec => []MarketInv
  <1>1. MarketInit => MarketInv
    BY InitMarketInv
  <1>. QED
    BY <1>1, MarketKeeps, PTL DEF MarketSpec

(* The streams, windows and candles keep their shape, and a prediction is  *)
(* made from a full window of candles with indicators that one run of the  *)
(* processor completed one after the other, whatever the three processes   *)
(* miss, repeat or forget when they fail and start again.                  *)
THEOREM MarketIsSound == MarketSpec => []MarketSound
  <1>1. MarketInv => MarketSound
    BY DEF MarketInv, CandleInv, ProcessorInv, EngineInv, MarketSound
  <1>. QED
    BY <1>1, MarketInvariant, PTL

(* A prediction that the feature of a completed candle caused has seen     *)
(* that candle, or later ones, however far the engine is behind and        *)
(* whichever features it handles again.                                    *)
THEOREM CandlesAreSeen == MarketSpec => []PredictionSeesCandle
  <1>1. MarketInv => PredictionSeesCandle
    BY DEF MarketInv, EngineInv
  <1>. QED
    BY <1>1, MarketInvariant, PTL

(* No trade is lost silently or counted twice by the collector, and none   *)
(* is stored under a minute that is not its own, whatever flushes, stops,  *)
(* crashes and midnights come between; alone, and with those who read its  *)
(* stream.                                                                 *)
THEOREM CandlesAreSound ==
    /\ CollectorSpec => []CandlesSound
    /\ MarketSpec => []CandlesSound
  <1>1. CandleInv => CandlesSound
    BY PlacedOnceIsAccounted DEF CandleInv, CandlesSound
  <1>2. CollectorSpec => []CandlesSound
    BY <1>1, InitCandleInv, CandleKeeps, PTL DEF CollectorSpec
  <1>3. MarketInv => CandlesSound
    BY <1>1 DEF MarketInv
  <1>4. MarketSpec => []CandlesSound
    BY <1>3, MarketInvariant, PTL
  <1>. QED
    BY <1>2, <1>4
===============================================================================
