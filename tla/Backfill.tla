------------------------------- MODULE Backfill -------------------------------
(***************************************************************************)
(* src/collector/historical/backfill.py: the records of a contract's       *)
(* trading day are fetched in pages from the latest to the earliest,       *)
(* aggregated to one-minute bars and inserted into a table that keeps the  *)
(* last row inserted for a minute.  Days that have enough bars when the    *)
(* run begins are left out; of the index and of the full-size future one   *)
(* bar is enough.  Each of the three products has a table of its own: a    *)
(* behaviour is that of one of them.                                       *)
(*                                                                         *)
(* A bar is modelled by how often each record of its minute went into it.  *)
(* What fetch_minute_async() tries again is one call here; calls are made  *)
(* one after the other, so that the rate limiter only takes time.          *)
(***************************************************************************)
EXTENDS Integers, FiniteSets, FiniteSetsExt

CONSTANTS
    Codes,          \* get_active_codes_for_date()
    Days,           \* the trading days of the range, the last of them today
    LastSecond,     \* the last second of a trading day
    MinuteLength,   \* 60
    PageSize,       \* records on a page that is not the last one (100)
    MaxPages,       \* max_pages (200)
    MinBars,        \* min_bars (200)
    MaxBroken       \* bound: calls that fail and runs that are killed

ASSUME BackfillAssumption ==
    /\ Days \subseteq Nat /\ Days # {} /\ IsFiniteSet(Days)
    /\ {LastSecond, MinuteLength, PageSize, MaxPages, MinBars} \subseteq Nat \ {0}
    /\ MaxBroken \in Nat

VARIABLES
    product,    \* what the table is of: the mini future, the index, the future
    traded,     \* KIS: the seconds of each task for which there is a record
    elapsed,    \* seconds of today gone by
    table,      \* how often each record is in the stored bar of its minute
    tasks,      \* (code, day) pairs that the run has still to fetch
    day,        \* the day of the batch, 0 between two runs
    output,     \* all_output: how often each record of the batch was fetched
    page,       \* page and
    cursor,     \* next_hour of the task that is being fetched
    cut,        \* minutes of the batch that may lack records
    partial,    \* history: minutes stored from a batch that might lack some
    young,      \* history: tasks fetched while their day was not over
    broken      \* history: calls that failed, runs that were killed

backfillVars == <<product, traded, elapsed, table, tasks, day, output, page, cursor, cut,
                  partial, young, broken>>

Second == 1..LastSecond
Today == Max(Days)
Tasks == Codes \X Days
MinuteOf(s) == (s - 1) \div MinuteLength
Minutes == {MinuteOf(s) : s \in Second}
Nothing == [s \in Second |-> 0]
Bars(counts) == {MinuteOf(s) : s \in {x \in Second : counts[x] > 0}}

Products == {"mini", "index", "future"}

BackfillTypeOK ==
    /\ product \in Products
    /\ traded \in [Tasks -> SUBSET Second]
    /\ elapsed \in 0..LastSecond
    /\ table \in [Tasks -> [Second -> Nat]]
    /\ tasks \subseteq Tasks /\ day \in Days \cup {0}
    /\ output \in [Codes -> [Second -> Nat]]
    /\ page \in 0..MaxPages /\ cursor \in 0..LastSecond
    /\ cut \subseteq Codes \X Minutes
    /\ partial \subseteq Tasks \X Minutes /\ young \subseteq Tasks
    /\ broken \in 0..MaxBroken

BackfillInit ==
    /\ product \in Products
    /\ traded \in [Tasks -> SUBSET Second]
    /\ elapsed \in 0..LastSecond
    /\ table = [t \in Tasks |-> Nothing]
    /\ tasks = {} /\ day = 0
    /\ output = [c \in Codes |-> Nothing]
    /\ page = 0 /\ cursor = LastSecond
    /\ cut = {} /\ partial = {} /\ young = {} /\ broken = 0

-----------------------------------------------------------------------------
Breaks == broken < MaxBroken /\ broken' = broken + 1

(* The next day of the run, and nothing gathered for it yet.               *)
NextDay(left) ==
    /\ tasks' = left
    /\ day' = IF left = {} THEN 0 ELSE Max({t[2] : t \in left})
    /\ output' = [c \in Codes |-> Nothing]
    /\ page' = 0 /\ cursor' = LastSecond /\ cut' = {}

AtLeast(bars) == {t \in Tasks : Cardinality(Bars(table[t])) >= bars}

(* get_collected_pairs_in_range() of the mini future counts a bar once for *)
(* every time that it was inserted and not merged since.  How often that   *)
(* is, is left open: a task with any bar may count enough.  The query of   *)
(* the other two is for days of which there is anything at all.            *)
MayCount ==
    IF product = "mini"
    THEN {collected \in SUBSET AtLeast(1) : AtLeast(MinBars) \subseteq collected}
    ELSE {AtLeast(1)}

(* A run over the range goes on without the query if it fails.             *)
StartRange(of) ==
    /\ day = 0 /\ product = of
    /\ \/ (\E collected \in MayCount : NextDay(Tasks \ collected)) /\ UNCHANGED broken
       \/ NextDay(Tasks) /\ Breaks
    /\ UNCHANGED <<product, traded, elapsed, table, partial, young>>

(* A run for today waits for the end of the day, but fetches it whatever   *)
(* the table has.                                                          *)
StartToday(of) ==
    /\ day = 0 /\ product = of
    /\ elapsed = LastSecond
    /\ NextDay(Codes \X {Today})
    /\ UNCHANGED <<product, traded, elapsed, table, partial, young, broken>>

StartBackfill == StartRange("mini")
StartIndexBackfill == StartRange("index")
StartFutureBackfill == StartRange("future")
CollectToday == StartToday("mini")
CollectTodayIndex == StartToday("index")
CollectTodayFuture == StartToday("future")

(* The tasks of a batch are fetched in the order of their codes.           *)
Batch == {t \in tasks : t[2] = day}
Current == CHOOSE t \in Batch : TRUE

(* What KIS has for the task, and the page that ends at the cursor.        *)
Available == {s \in traded[Current] : day = Today => s \leq elapsed}
Page ==
    LET upTo == {s \in Available : s \leq cursor}
    IN  {s \in upTo : Cardinality({x \in upTo : x > s}) < PageSize}

(* The next page begins with the record at which this one ended.           *)
SameCursor(found) == Min(found)

(* _extract_earliest_time(): the next page ends a second earlier.          *)
NextCursor(found) == Min(found) - 1

TaskDone == tasks' = tasks \ {Current} /\ page' = 0 /\ cursor' = LastSecond

(* A page of a day.  The minute of today that is not over is fetched as    *)
(* far as it goes.                                                         *)
Gather ==
    /\ day # 0 /\ Batch # {}
    /\ LET code == Current[1]
           full == Cardinality(Page) = PageSize
       IN
       /\ output' = [output EXCEPT ![code] =
                        [s \in Second |-> @[s] + (IF s \in Page THEN 1 ELSE 0)]]
       /\ IF full /\ page + 1 < MaxPages
          THEN page' = page + 1 /\ cursor' = NextCursor(Page) /\ UNCHANGED tasks
          ELSE TaskDone
       /\ cut' = cut
            \cup (IF full /\ page + 1 = MaxPages
                  THEN {<<code, MinuteOf(Min(Page))>>} ELSE {})
            \cup (IF day = Today /\ page = 0 /\ elapsed % MinuteLength # 0
                  THEN {<<code, MinuteOf(elapsed)>>} ELSE {})
       /\ young' = IF day = Today /\ page = 0 /\ elapsed < LastSecond
                   THEN young \cup {Current} ELSE young
    /\ UNCHANGED <<product, traded, elapsed, table, day, partial, broken>>

(* fetch_all_minutes_for_day(), fetch_all_index_minutes_for_day()          *)
FetchPage == product # "index" /\ Gather
FetchIndexPage == product = "index" /\ Gather

(* The page cannot be had: the task is skipped if it was the first one,    *)
(* and is taken to be complete otherwise.                                  *)
CallFails ==
    /\ day # 0 /\ Batch # {} /\ Breaks
    /\ cut' = IF page = 0 THEN cut
              ELSE cut \cup {<<Current[1], MinuteOf(cursor + 1)>>}
    /\ TaskDone
    /\ UNCHANGED <<product, traded, elapsed, table, day, output, partial, young>>

FetchFails == product # "index" /\ CallFails
FetchIndexFails == product = "index" /\ CallFails

(* The end of collect_batch(): parse_ohlcv() and insert_batch(), all codes *)
(* of the day in one statement.                                            *)
Store ==
    /\ day # 0 /\ Batch = {}
    /\ table' = [t \in Tasks |->
          IF t[2] # day THEN table[t]
          ELSE [s \in Second |-> IF MinuteOf(s) \in Bars(output[t[1]])
                                 THEN output[t[1]][s] ELSE table[t][s]]]
    /\ partial' = {p \in partial : p[1][2] = day => p[2] \notin Bars(output[p[1][1]])}
          \cup {<<<<x[1], day>>, x[2]>> : x \in {y \in cut : y[2] \in Bars(output[y[1]])}}
    /\ NextDay(tasks)
    /\ UNCHANGED <<product, traded, elapsed, young, broken>>

InsertBatch == product # "index" /\ Store
InsertIndexBatch == product = "index" /\ Store

(* The insert raises, which ends the run, or the process is killed.        *)
RunBreaks ==
    /\ day # 0 /\ Breaks
    /\ NextDay({})
    /\ UNCHANGED <<product, traded, elapsed, table, partial, young>>

SecondPasses ==
    /\ elapsed < LastSecond /\ elapsed' = elapsed + 1
    /\ UNCHANGED <<product, traded, table, tasks, day, output, page, cursor, cut, partial,
                   young, broken>>

BackfillNext ==
    \/ StartBackfill \/ StartIndexBackfill \/ StartFutureBackfill
    \/ CollectToday \/ CollectTodayIndex \/ CollectTodayFuture
    \/ FetchPage \/ FetchFails \/ InsertBatch
    \/ FetchIndexPage \/ FetchIndexFails \/ InsertIndexBatch
    \/ RunBreaks \/ SecondPasses

BackfillSpec == BackfillInit /\ [][BackfillNext]_backfillVars

-----------------------------------------------------------------------------
(* Properties                                                              *)

(* A stored bar is made of all records of its minute, each of them once,   *)
(* unless its latest fetch was cut within that minute: neither the borders *)
(* of pages nor repeated or broken runs leave others short or count a      *)
(* record twice.                                                           *)
BarsWhole ==
    \A t \in Tasks : \A s \in Second :
        MinuteOf(s) \in Bars(table[t]) =>
            \/ table[t][s] = (IF s \in traded[t] THEN 1 ELSE 0)
            \/ <<t, MinuteOf(s)>> \in partial /\ table[t][s] \in {0, 1}

(* Since pages run backwards, what is stored of a day reaches to its end:  *)
(* there is no hole after a stored bar, unless the day was once fetched    *)
(* before it was over.                                                     *)
NoHoles ==
    \A t \in Tasks \ young : \A s, u \in traded[t] :
        s < u /\ MinuteOf(s) \in Bars(table[t]) => MinuteOf(u) \in Bars(table[t])

(* Both together: after any runs, failures and kills the table has whole   *)
(* bars and days that are stored from their end.                           *)
BackfillSound == BackfillTypeOK /\ BarsWhole /\ NoHoles
=============================================================================
