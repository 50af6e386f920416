----------------------------- MODULE WorkersProofs -----------------------------
(***************************************************************************)
(* Theorems about the two workers that read a stream: DbLogger, for every  *)
(* batch size, every kind of lock and any stream, and LiveTrading, for     *)
(* every window, cap, number of entries and number of trades.  Both are    *)
(* consumers: every step of theirs is a step of StreamConsumer, or none at *)
(* all, so that its inductive invariant and its refinement are used here   *)
(* by name.                                                                *)
(***************************************************************************)
EXTENDS DbLogger, LiveTrading, StreamConsumerProofs, FiniteSetTheorems

-----------------------------------------------------------------------------
(* The logger: where the rows of the handled entries are.                  *)

(* A thread inside _flush(), and the main thread inside add(): there       *)
(* _flush() is called with the lock held, or add() is about to return.     *)
Flushing(t) == pc[t] \in {"flush", "insert", "restore"}
InAdd == pc["main"] = "added" \/ (Flushing("main") /\ active)

Stored == table \cup InMemory \cup lost

(* pc is a function, which the type invariant does not say; stop() has     *)
(* been called when the main thread waits for the flusher; a process that  *)
(* is gone has left nothing in memory.                                     *)
ThreadsOK ==
    /\ pc \in [Thread -> MainPC \cup FlusherPC]
    /\ pc["main"] = "join" => ~active
    /\ pc["main"] = "off" => InMemory = {}

(* A flush of the timer or of add() holds the lock from outside.           *)
LockIsHeld ==
    /\ Flushing("flusher") => owner = "flusher"
    /\ Flushing("main") /\ active => owner = "main"

(* Only a thread between its copy and the end of its flush has rows of its *)
(* own.                                                                    *)
RowsInHand == \A t \in Thread : pc[t] \notin {"insert", "restore"} => inflight[t] = {}

(* The entry in hand is the oldest of the batch, and its row is stored     *)
(* already; all other rows in memory are of entries this run has handled,  *)
(* so that the next one is new to it.                                      *)
EntryInHand ==
    /\ pc["main"] = "idle" => InMemory \subseteq handled
    /\ InAdd => \E i \in batch : /\ \A j \in batch : i <= j
                                 /\ i \in Stored
                                 /\ InMemory \subseteq handled \cup {i}

(* With the code's Lock nobody who calls _flush() with the lock held gets  *)
(* through it: only stop() does, with a buffer that nobody fills any more. *)
LockBlocks ==
    kind = "Lock" =>
        /\ pc["flusher"] \notin {"insert", "restore"}
        /\ pc["main"] \in {"insert", "restore"} => ~active /\ buffer = {}
        /\ pc["main"] \in {"idle", "added"} => Cardinality(buffer) < BatchSize
        /\ Cardinality(buffer \cup inflight["main"]) <= BatchSize

InserterInv == InserterTypeOK /\ ThreadsOK /\ LockIsHeld /\ RowsInHand /\ RowsOnce /\ LockBlocks

DbInv == IInv /\ InserterInv /\ RowsAccounted /\ EntryInHand
-----------------------------------------------------------------------------
(* Rows and threads                                                        *)

(* What is in memory is in the buffer or in the hands of one of two.       *)
LEMMA InMemoryIs ==
    /\ InMemory = buffer \cup inflight["main"] \cup inflight["flusher"]
    /\ InMemory' = buffer' \cup inflight'["main"] \cup inflight'["flusher"]
BY DEF InMemory, Thread

(* Buffers and batches are finite; a smaller set has no more elements, and *)
(* one more row makes one more element at most.                            *)
LEMMA RowSetsFinite ==
    ASSUME NEW S \in SUBSET Row
    PROVE  /\ IsFiniteSet(S) /\ Cardinality(S) \in Nat
           /\ \A U \in SUBSET S : Cardinality(U) \in Nat /\ Cardinality(U) <= Cardinality(S)
           /\ \A r \in Row : Cardinality(S \cup {r}) <= Cardinality(S) + 1
<1>1. IsFiniteSet(S)
    BY InserterAssumption, FS_Subset
<1>2. \A U \in SUBSET S : IsFiniteSet(U) /\ Cardinality(U) <= Cardinality(S)
    BY <1>1, FS_Subset
<1>3. \A U \in SUBSET S : Cardinality(U) \in Nat
    BY <1>2, FS_CardinalityType
<1>4. Cardinality(S) \in Nat
    BY <1>3
<1>5. ASSUME NEW r \in Row
      PROVE  Cardinality(S \cup {r}) <= Cardinality(S) + 1
    <2>1. Cardinality(S \cup {r}) = IF r \in S THEN Cardinality(S) ELSE Cardinality(S) + 1
        BY <1>1, FS_AddElement
    <2> QED
        BY <1>4, <2>1
<1> QED
    BY <1>1, <1>2, <1>3, <1>4, <1>5

(* The steps of the two threads: flushes, the timer, the end of the        *)
(* flusher and the wait for it.                                            *)
ThreadStep == (\E t \in Thread : FlushStep(t)) \/ FlushDue \/ FlusherExits \/ Join

(* No step of theirs loses a row that is stored or in memory, brings one   *)
(* into memory, or takes the main thread in or out of a handler's add()    *)
(* but by its own return.                                                  *)
LEMMA ThreadStepRows ==
    ASSUME InserterInv, ThreadStep
    PROVE  /\ InMemory' \subseteq InMemory
           /\ Stored \subseteq Stored'
           /\ InAdd' => InAdd
           /\ pc'["main"] = "idle" => pc["main"] = "idle"
<1> USE InMemoryIs DEF InserterInv, InserterTypeOK, ThreadsOK, Thread, GoTo
<1>1. ASSUME NEW t \in Thread, Flush(t)
      PROVE  /\ InMemory' \subseteq InMemory
             /\ table' = table /\ lost' = lost /\ InMemory \subseteq InMemory'
    BY <1>1 DEF Flush, RowsInHand
<1>2. ASSUME NEW t \in Thread, InsertOk(t)
      PROVE  InMemory' \subseteq InMemory /\ Stored \subseteq Stored'
    BY <1>2 DEF InsertOk, Stored
<1>3. ASSUME NEW t \in Thread, InsertFails(t)
      PROVE  InMemory' = InMemory /\ lost' = lost /\ table \subseteq table'
    BY <1>3 DEF InsertFails
<1>4. ASSUME NEW t \in Thread, Restore(t)
      PROVE  InMemory' = InMemory /\ lost' = lost /\ table' = table
    BY <1>4 DEF Restore
<1>5. CASE FlushDue \/ FlusherExits \/ Join
    BY <1>5 DEF FlushDue, FlusherExits, Join, Stored, InAdd, Flushing
<1>6. ASSUME NEW t \in Thread, FlushStep(t)
      PROVE  /\ InAdd' => InAdd
             /\ pc'["main"] = "idle" => pc["main"] = "idle"
    BY <1>6 DEF FlushStep, Flush, InsertOk, InsertFails, Restore, FlushReturns, AfterFlush,
                InAdd, Flushing
<1>7. ASSUME NEW t \in Thread, FlushStep(t)
      PROVE  InMemory' \subseteq InMemory /\ Stored \subseteq Stored'
    BY <1>1, <1>2, <1>3, <1>4, <1>7 DEF FlushStep, Stored
<1> QED
    BY <1>5, <1>6, <1>7 DEF ThreadStep

(* They keep the inserter's own invariant.                                 *)
LEMMA ThreadStepKeeps ==
    ASSUME InserterInv, ThreadStep
    PROVE  InserterInv'
<1> USE InMemoryIs DEF InserterInv, InserterTypeOK, ThreadsOK, Thread, GoTo, Flushing
<1>1. ASSUME NEW t \in Thread, Flush(t)
      PROVE  InserterInv'
    <2>1. InserterTypeOK' /\ ThreadsOK'
        BY <1>1, InserterAssumption DEF Flush, FlushReturns, AfterFlush, MainPC, FlusherPC, RowsInHand
    <2>2. LockIsHeld' /\ RowsInHand' /\ RowsOnce'
        BY <1>1 DEF Flush, FlushReturns, AfterFlush, LockIsHeld, RowsInHand, RowsOnce, CanAcquire
    <2>3. LockBlocks'
        BY <1>1 DEF Flush, FlushReturns, AfterFlush, LockIsHeld, RowsInHand, LockBlocks, CanAcquire
    <2> QED
        BY <2>1, <2>2, <2>3
<1>2. ASSUME NEW t \in Thread, InsertOk(t)
      PROVE  InserterInv'
    <2>1. InserterTypeOK' /\ ThreadsOK'
        BY <1>2 DEF InsertOk, FlushReturns, AfterFlush, MainPC, FlusherPC, RowsInHand
    <2>2. LockIsHeld' /\ RowsInHand' /\ RowsOnce'
        BY <1>2 DEF InsertOk, FlushReturns, AfterFlush, LockIsHeld, RowsInHand, RowsOnce
    <2>3. ASSUME kind = "Lock"
          PROVE  /\ t = "main" /\ ~active /\ buffer = {}
                 /\ buffer' \cup inflight'["main"] = {}
        BY <1>2, <2>3 DEF InsertOk, LockBlocks
    <2>4. LockBlocks'
        BY <1>2, <2>3, RowSetsFinite, InserterAssumption, FS_EmptySet
           DEF InsertOk, FlushReturns, AfterFlush, LockBlocks
    <2> QED
        BY <2>1, <2>2, <2>4
<1>3. ASSUME NEW t \in Thread, InsertFails(t)
      PROVE  InserterInv'
    BY <1>3 DEF InsertFails, MainPC, FlusherPC, RowsInHand, LockIsHeld, RowsOnce, LockBlocks
<1>4. ASSUME NEW t \in Thread, Restore(t)
      PROVE  InserterInv'
    <2>1. InserterTypeOK' /\ ThreadsOK'
        BY <1>4 DEF Restore, FlushReturns, AfterFlush, MainPC, FlusherPC, RowsInHand
    <2>2. LockIsHeld' /\ RowsInHand' /\ RowsOnce'
        BY <1>4 DEF Restore, FlushReturns, AfterFlush, LockIsHeld, RowsInHand, RowsOnce, CanAcquire
    <2>3. LockBlocks'
        BY <1>4 DEF Restore, FlushReturns, AfterFlush, LockBlocks, CanAcquire
    <2> QED
        BY <2>1, <2>2, <2>3
<1>5. CASE FlushDue \/ FlusherExits \/ Join
    BY <1>5 DEF FlushDue, FlusherExits, Join, MainPC, FlusherPC, RowsInHand, LockIsHeld,
                RowsOnce, LockBlocks
<1> QED
    BY <1>1, <1>2, <1>3, <1>4, <1>5 DEF ThreadStep, FlushStep
-----------------------------------------------------------------------------
(* add(), stop() and the two ends of a process                             *)

(* A row that is nowhere in memory yet.                                    *)
LEMMA AddKeeps ==
    ASSUME InserterInv, NEW row \in Row, row \notin InMemory, Add(row)
    PROVE  /\ InserterInv'
           /\ InMemory' = InMemory \cup {row} /\ Stored' = Stored \cup {row}
           /\ InAdd' => active' = active
           /\ pc'["main"] # "idle" /\ active' = active
<1> USE InMemoryIs DEF InserterInv, InserterTypeOK, ThreadsOK, Thread, GoTo, Flushing
<1>1. InserterTypeOK' /\ ThreadsOK'
    BY DEF Add, MainPC, FlusherPC
<1>2. LockIsHeld' /\ RowsInHand' /\ RowsOnce'
    BY DEF Add, LockIsHeld, RowsInHand, RowsOnce
<1>3. LockBlocks'
    <2> SUFFICES ASSUME kind = "Lock"
                 PROVE  LockBlocks'
        BY DEF Add, LockBlocks
    <2>1. /\ Cardinality(buffer) < BatchSize /\ inflight["main"] = {}
          /\ Cardinality(buffer) \in Nat
        BY RowSetsFinite DEF Add, LockBlocks, RowsInHand
    <2>2. Cardinality(buffer') \in Nat /\ Cardinality(buffer') <= Cardinality(buffer) + 1
        BY RowSetsFinite, <1>1 DEF Add
    <2>3. Cardinality(buffer') <= BatchSize
        BY <2>1, <2>2, InserterAssumption
    <2>4. ~BatchFull(buffer') => Cardinality(buffer') < BatchSize
        BY <2>2, InserterAssumption DEF BatchFull
    <2>5. buffer' \cup inflight'["main"] = buffer'
        BY <2>1 DEF Add
    <2> QED
        BY <2>3, <2>4, <2>5 DEF Add, LockBlocks, RowsInHand
<1> QED
    BY <1>1, <1>2, <1>3 DEF Add, Stored

(* The return of add() moves no row. *)
LEMMA AddReturnsKeeps ==
    ASSUME InserterInv, AddReturns
    PROVE  InserterInv' /\ UNCHANGED <<InMemory, Stored, table, lost>>
<1> USE InMemoryIs DEF InserterInv, InserterTypeOK, ThreadsOK, Thread, GoTo, Flushing
<1> QED
    BY DEF AddReturns, MainPC, FlusherPC, RowsInHand, LockIsHeld, RowsOnce, LockBlocks, Stored

(* A new process starts with nothing in memory. *)
LEMMA StartKeeps ==
    ASSUME InserterInv, StartThreads
    PROVE  InserterInv' /\ InMemory' = {} /\ Stored' = Stored /\ pc'["main"] = "idle"
<1> USE InMemoryIs DEF InserterInv, InserterTypeOK, ThreadsOK, Thread, Flushing
<1>1. Cardinality({}) = 0
    BY FS_EmptySet
<1> QED
    BY <1>1, InserterAssumption
       DEF StartThreads, MainPC, FlusherPC, RowsInHand, LockIsHeld, RowsOnce, LockBlocks, Stored

(* Ctrl-C loses at most what the main thread had in hand, and that is noted. *)
LEMMA InterruptKeeps ==
    ASSUME InserterInv, Interrupt
    PROVE  /\ InserterInv' /\ Stored \subseteq Stored'
           /\ ~InAdd' /\ pc'["main"] = "join"
<1> USE InMemoryIs DEF InserterInv, InserterTypeOK, ThreadsOK, Thread, GoTo, Flushing
<1>1. InserterTypeOK' /\ ThreadsOK'
    BY DEF Interrupt, MainPC, FlusherPC
<1>2. LockIsHeld' /\ RowsInHand' /\ RowsOnce'
    BY DEF Interrupt, LockIsHeld, RowsInHand, RowsOnce
<1>3. LockBlocks'
    <2>1. buffer' \cup inflight'["main"] \in SUBSET (buffer \cup inflight["main"])
        BY DEF Interrupt
    <2>2. /\ Cardinality(buffer' \cup inflight'["main"]) \in Nat
          /\ Cardinality(buffer \cup inflight["main"]) \in Nat
          /\ Cardinality(buffer' \cup inflight'["main"])
                <= Cardinality(buffer \cup inflight["main"])
        BY <2>1, RowSetsFinite
    <2> QED
        BY <2>2, InserterAssumption DEF Interrupt, LockBlocks
<1> QED
    BY <1>1, <1>2, <1>3 DEF Interrupt, Stored, InAdd

(* The end of the process gives up all that is in memory, and that is noted. *)
LEMMA EndsKeeps ==
    ASSUME InserterInv, ProcessEnds
    PROVE  /\ InserterInv' /\ Stored' = Stored
           /\ ~InAdd' /\ pc'["main"] = "off"
<1> USE InMemoryIs DEF InserterInv, InserterTypeOK, ThreadsOK, Thread, Flushing
<1>1. Cardinality({}) = 0
    BY FS_EmptySet
<1>2. /\ pc' = [t \in {"main", "flusher"} |-> "off"]
      /\ buffer' = {} /\ inflight' = [t \in {"main", "flusher"} |-> {}]
      /\ owner' = "free" /\ active' = FALSE /\ kind' = kind /\ table' = table
      /\ lost' = lost \cup InMemory
    BY DEF ProcessEnds
<1>3. InMemory' = {} /\ InMemory \subseteq Row
    BY <1>2
<1>4. InserterTypeOK' /\ ThreadsOK'
    BY <1>2, <1>3 DEF MainPC, FlusherPC
<1>5. LockIsHeld' /\ RowsInHand' /\ RowsOnce'
    BY <1>2 DEF RowsInHand, LockIsHeld, RowsOnce
<1>6. LockBlocks'
    <2>1. buffer' \cup inflight'["main"] = {}
        BY <1>2
    <2> QED
        BY <1>1, <1>2, <2>1, InserterAssumption DEF LockBlocks
<1>7. Stored' = Stored /\ ~InAdd' /\ pc'["main"] = "off"
    BY <1>2, <1>3 DEF Stored, InAdd
<1> QED
    BY <1>4, <1>5, <1>6, <1>7

-----------------------------------------------------------------------------
(* The logger is a consumer                                                *)

(* Every step of the logger is a step of the consumer, or none. *)
LEMMA StepOfLogger ==
    ASSUME IInv, [DbNext]_dbVars
    PROVE  [Next]_vars
<1>1. \A i \in batch : i \in Entry
    BY ConsumerAssumption DEF IInv, BooksInv, TypeOK, Entry
<1> QED
    BY <1>1 DEF DbNext, dbVars, Boot, Produce, HandleBegins, HandleReturns, HandleRejects,
                ConsumerStep, InserterStep, Shutdown, Exit, Next, WorkerStep

-----------------------------------------------------------------------------
(* The two together                                                        *)

(* The invariant holds before the first process ... *)
LEMMA DbInitInv == DbInit => DbInv
<1> SUFFICES ASSUME DbInit
             PROVE  DbInv
    OBVIOUS
<1> USE InMemoryIs DEF DbInit, InserterInit
<1>1. IInv
    BY InitIInv
<1>2. Cardinality({}) = 0
    BY FS_EmptySet
<1>3. InserterInv
    <2> USE DEF Thread, Flushing
    <2>1. InMemory = {} /\ buffer \cup inflight["main"] = {}
        OBVIOUS
    <2>2. InserterTypeOK /\ ThreadsOK
        BY <2>1 DEF InserterTypeOK, ThreadsOK, MainPC, FlusherPC
    <2>3. RowsInHand /\ LockIsHeld /\ RowsOnce
        BY DEF RowsInHand, LockIsHeld, RowsOnce
    <2>4. LockBlocks
        BY <1>2, <2>1, InserterAssumption DEF LockBlocks
    <2> QED
        BY <2>2, <2>3, <2>4 DEF InserterInv
<1>4. RowsAccounted /\ EntryInHand
    BY DEF RowsAccounted, EntryInHand, InAdd, Flushing, Thread, Init
<1> QED
    BY <1>1, <1>3, <1>4 DEF DbInv

(* A step that keeps the consumer's part of what is in hand.               *)
LEMMA HandKept ==
    ASSUME DbInv, ThreadStep, UNCHANGED <<done, batch, handled>>
    PROVE  RowsAccounted' /\ EntryInHand'
<1>1. /\ InMemory' \subseteq InMemory /\ Stored \subseteq Stored'
      /\ InAdd' => InAdd
      /\ pc'["main"] = "idle" => pc["main"] = "idle"
    BY ThreadStepRows DEF DbInv
<1> QED
    BY <1>1 DEF DbInv, RowsAccounted, EntryInHand, Stored

(* ... and every step of the two keeps it. *)
LEMMA DbNextInv == DbInv /\ [DbNext]_dbVars => DbInv'
<1> SUFFICES ASSUME DbInv, [DbNext]_dbVars
             PROVE  DbInv'
    OBVIOUS
<1>1. IInv'
    BY StepOfLogger, NextIInv DEF DbInv
<1>2. CASE Boot
    <2>1. done' = done /\ handled' = {}
        BY <1>2 DEF Boot, Start
    <2>2. InserterInv' /\ InMemory' = {} /\ Stored' = Stored /\ pc'["main"] = "idle"
        BY <1>2, StartKeeps DEF Boot, DbInv
    <2> QED
        BY <1>1, <2>1, <2>2 DEF DbInv, RowsAccounted, EntryInHand, Stored, InAdd, Flushing
<1>3. CASE Produce
    BY <1>1, <1>3 DEF Produce, Publish, worker, history, inserterVars, DbInv, RowsAccounted,
                      EntryInHand, Stored, InAdd, Flushing, InMemory, InserterInv, InserterTypeOK,
                      ThreadsOK, LockIsHeld, RowsInHand, RowsOnce, LockBlocks
<1>4. CASE HandleBegins
    <2>1. PICK i \in batch : (\A j \in batch : i <= j) /\ Add(i)
        BY <1>4 DEF HandleBegins
    <2>2. UNCHANGED <<done, batch, handled>>
        BY <1>4 DEF HandleBegins, vars, worker, history
    <2>3. i \in Row /\ i \notin handled
        <3>1. i \in Entry
            BY ConsumerAssumption DEF DbInv, IInv, BooksInv, TypeOK, Entry
        <3>2. ~(i < i)
            BY <3>1 DEF Entry
        <3> QED
            BY <3>1, <3>2, RowIsEntry DEF DbInv, IInv, BooksInv, RunInOrder
    <2>4. InMemory \subseteq handled
        BY <2>1 DEF Add, DbInv, EntryInHand
    <2>5. /\ InserterInv' /\ InMemory' = InMemory \cup {i} /\ Stored' = Stored \cup {i}
          /\ pc'["main"] # "idle"
        BY <2>1, <2>3, <2>4, AddKeeps DEF DbInv
    <2>6. EntryInHand'
        BY <2>1, <2>2, <2>4, <2>5 DEF EntryInHand
    <2> QED
        BY <1>1, <2>2, <2>5, <2>6 DEF DbInv, RowsAccounted, Stored
<1>5. CASE HandleReturns
    <2>1. PICK i \in batch : HandleOk(i)
        BY <1>5 DEF HandleReturns
    <2>2. /\ \A j \in batch : i <= j
          /\ done' = done \cup {i} /\ handled' = handled \cup {i}
        BY <2>1 DEF HandleOk, Take
    <2>3. PICK k \in batch : (\A j \in batch : k <= j) /\ k \in Stored
                            /\ InMemory \subseteq handled \cup {k}
        BY <1>5 DEF HandleReturns, AddReturns, DbInv, EntryInHand, InAdd
    <2>4. i = k
        BY <2>2, <2>3 DEF DbInv, IInv, BooksInv, TypeOK
    <2>5. InserterInv' /\ InMemory' = InMemory /\ Stored' = Stored /\ pc'["main"] = "idle"
        BY <1>5, AddReturnsKeeps DEF HandleReturns, AddReturns, DbInv, InserterInv, ThreadsOK,
                                     GoTo, Thread
    <2> QED
        BY <1>1, <2>2, <2>3, <2>4, <2>5 DEF DbInv, RowsAccounted, EntryInHand, Stored, InAdd, Flushing
<1>6. CASE HandleRejects \/ ConsumerStep
    <2>1. UNCHANGED inserterVars /\ done' = done /\ handled \subseteq handled'
          /\ pc["main"] = "idle"
        BY <1>6 DEF HandleRejects, HandleFails, Take, ConsumerStep, EnterLoop, ReadNew, ReadNewFails,
                    Ack, AckFails, history
    <2> QED
        BY <1>1, <2>1 DEF inserterVars, DbInv, RowsAccounted,
                      EntryInHand, Stored, InAdd, Flushing, InMemory, InserterInv, InserterTypeOK,
                      ThreadsOK, LockIsHeld, RowsInHand, RowsOnce, LockBlocks
<1>7. CASE InserterStep
    <2>1. ThreadStep /\ UNCHANGED <<done, batch, handled>>
        BY <1>7 DEF InserterStep, ThreadStep, vars, worker, history
    <2> QED
        BY <1>1, <2>1, ThreadStepKeeps, HandKept DEF DbInv
<1>8. CASE Shutdown
    <2>1. done' = done
        BY <1>8 DEF Shutdown, Die, vars, history
    <2>2. InserterInv' /\ Stored \subseteq Stored' /\ ~InAdd' /\ pc'["main"] = "join"
        BY <1>8, InterruptKeeps DEF Shutdown, DbInv
    <2> QED
        BY <1>1, <2>1, <2>2 DEF DbInv, RowsAccounted, EntryInHand, Stored
<1>9. CASE Exit
    <2>1. done' = done
        BY <1>9 DEF Exit, Die, vars, history
    <2>2. InserterInv' /\ Stored' = Stored /\ ~InAdd' /\ pc'["main"] = "off"
        BY <1>9, EndsKeeps DEF Exit, DbInv
    <2> QED
        BY <1>1, <2>1, <2>2 DEF DbInv, RowsAccounted, EntryInHand, Stored
<1>10. CASE UNCHANGED dbVars
    BY <1>1, <1>10 DEF dbVars, vars, worker, history, inserterVars, DbInv, RowsAccounted,
                      EntryInHand, Stored, InAdd, Flushing, InMemory, InserterInv, InserterTypeOK,
                      ThreadsOK, LockIsHeld, RowsInHand, RowsOnce, LockBlocks
<1> QED
    BY <1>2, <1>3, <1>4, <1>5, <1>6, <1>7, <1>8, <1>9, <1>10 DEF DbNext

(* The inductive invariant of consumer and inserter together.              *)
THEOREM LoggerInvariant == DbSpec => []DbInv
BY DbInitInv, DbNextInv, PTL DEF DbSpec

(* With the code's Lock at most one batch is in memory.                    *)
LEMMA OneBatch == InserterInv => AtStakeBounded
<1> SUFFICES ASSUME InserterInv, kind = "Lock"
             PROVE  Cardinality(InMemory) <= BatchSize
    BY DEF AtStakeBounded
<1>1. InMemory = buffer \cup inflight["main"]
    BY InMemoryIs DEF InserterInv, LockBlocks, RowsInHand, Thread
<1> QED
    BY <1>1 DEF InserterInv, LockBlocks

(* No acknowledged row is lost but with the process that held it or with   *)
(* an insert cut short by Ctrl-C, no row is in two batches, and with the   *)
(* code's Lock no more than one batch is ever at stake.                    *)
THEOREM RowsSafe == DbSpec => []DbSound
<1>1. DbInv => DbSound
    BY OneBatch DEF DbInv, InserterInv, DbSound, DbTypeOK, IInv, BooksInv
<1> QED
    BY <1>1, LoggerInvariant, PTL

(* Acknowledging what is only in memory keeps the consumer group's promise *)
(* as the group sees it: it speaks of handlers, not of the table.          *)
THEOREM LoggerIsAtLeastOnce == DbSpec => ImplementsAtLeastOnce
<1>1. DbInit => Abstract!Init
    BY InitRefines DEF DbInit
<1>2. DbInv /\ [DbNext]_dbVars => [Abstract!Next]_Abstract!vars
    BY StepOfLogger, NextRefines DEF DbInv
<1> QED
    BY <1>1, <1>2, LoggerInvariant, PTL DEF DbSpec, ImplementsAtLeastOnce, Abstract!Spec

-----------------------------------------------------------------------------
(* The manager: what it was told, what it holds, and what its orders did.  *)

(* process_message runs in a living worker with nothing left to            *)
(* acknowledge.                                                            *)
StageNeedsWorker == stage # "idle" => mode # "down" /\ acking = None

(* The account is owed one contract at most.                               *)
CarriedIsOne == Carried \in -1..1

LiveInv ==
    /\ LiveTypeOK /\ IInv
    /\ StageNeedsWorker /\ CarriedIsOne
    /\ AccountFollowsView /\ TradesPendingOnce /\ OrdersAnnounced

-----------------------------------------------------------------------------
(* Signals and contracts                                                   *)

(* An answer to trade is the order that leads to the new position.         *)
LEMMA AnswerIsOrder ==
    ASSUME NEW v \in View, NEW a \in Answers(v), a[1] # "HOLD"
    PROVE  /\ a[1] \in {"BUY", "SELL"} /\ a[2] \in View
           /\ Net(a[2]) - Contracts(a[1]) = Net(v)
BY DEF View, Answers, Net, Contracts

(* An answer moves the position by one contract at most.                   *)
LEMMA AnswerIsOne ==
    ASSUME NEW v \in View, NEW a \in Answers(v)
    PROVE  /\ a[2] \in View
           /\ Net(a[2]) - Net(v) \in -1..1
BY DEF View, Answers, Net

(* The contracts that the account is compared with are whole numbers.      *)
LEMMA CarriedTypes ==
    ASSUME LiveTypeOK
    PROVE  Net(view) \in -1..1 /\ Contracts(order) \in {-1, 1} /\ Carried \in Int
<1>1. Net(view) \in -1..1 /\ Contracts(order) \in {-1, 1}
    BY DEF LiveTypeOK, View, Net, Contracts
<1> QED
    BY <1>1 DEF Carried

(* One contract more or less is within one slip more.                      *)
LEMMA OneMore ==
    ASSUME NEW s \in Nat, NEW x \in -s..s, NEW d \in -1..1
    PROVE  x + d \in -(s + 1)..(s + 1)
OBVIOUS

-----------------------------------------------------------------------------
(* The manager is a consumer                                               *)

(* Every step of the manager is a step of its consumer or leaves it alone. *)
LEMMA StepOfConsumer ==
    ASSUME IInv, [LiveNext]_liveVars
    PROVE  [Next]_vars
<1> USE DEF vars, WorkerStep, Next
<1>1. \A i \in batch : i \in Entry
    BY ConsumerAssumption DEF IInv, BooksInv, TypeOK, Entry
<1>2. CASE ManagerStarts \/ EntryArrives \/ Interrupted
    BY <1>2 DEF ManagerStarts, EntryArrives, Interrupted
<1>3. CASE ManagerReads
    BY <1>3 DEF ManagerReads
<1>4. CASE ManagerEnds
    BY <1>4 DEF ManagerEnds
<1>5. CASE NoOrder \/ StrategyRaises
    BY <1>1, <1>5 DEF NoOrder, StrategyRaises
<1>6. CASE Decide \/ OrderAccepted
    BY <1>6 DEF Decide, OrderAccepted
<1>7. CASE OrderRefused \/ OrderRaises \/ OrderUnanswered
    BY <1>1, <1>7 DEF OrderRefused, OrderRaises, OrderUnanswered
<1>8. CASE Announce \/ AnnounceRaises
    BY <1>1, <1>8 DEF Announce, AnnounceRaises
<1>9. CASE UNCHANGED liveVars
    BY <1>9 DEF liveVars
<1> QED
    BY <1>2, <1>3, <1>4, <1>5, <1>6, <1>7, <1>8, <1>9 DEF LiveNext

-----------------------------------------------------------------------------
(* The inductive step, action by action                                    *)

(* Steps of the consumer that leave the trading state alone, and the batch *)
(* too unless nothing is in hand.                                          *)
LEMMA ConsumerKeeps ==
    ASSUME LiveInv, IInv', ManagerStarts \/ EntryArrives \/ Interrupted \/ ManagerReads
    PROVE  LiveInv'
<1>1. UNCHANGED trading
    BY DEF ManagerStarts, EntryArrives, Interrupted, ManagerReads
<1>2. StageNeedsWorker' /\ TradesPendingOnce'
    <2>1. CASE stage = "idle"
        BY <1>1, <2>1 DEF trading, StageNeedsWorker, TradesPendingOnce
    <2>2. CASE stage # "idle"
        <3>1. EntryArrives \/ Interrupted
            BY <2>2 DEF LiveInv, StageNeedsWorker, ManagerStarts, Start, ManagerReads
        <3>2. /\ mode' = mode /\ acking' = acking /\ batch' = batch
              /\ pending' = pending /\ handled' = handled /\ stage' = stage
            BY <1>1, <3>1 DEF EntryArrives, Publish, Interrupted, Stop, worker, history, redis, trading
        <3> QED
            BY <3>2 DEF LiveInv, StageNeedsWorker, TradesPendingOnce
    <2> QED
        BY <2>1, <2>2
<1>3. LiveTypeOK' /\ CarriedIsOne'
    BY <1>1 DEF LiveInv, LiveTypeOK, CarriedIsOne, Carried, trading, IInv, BooksInv
<1>4. AccountFollowsView' /\ OrdersAnnounced'
    BY <1>1 DEF LiveInv, AccountFollowsView, OrdersAnnounced, Carried, trading
<1> QED
    BY <1>2, <1>3, <1>4 DEF LiveInv

(* The end of a process: at most one contract is forgotten.                *)
LEMMA EndKeeps ==
    ASSUME LiveInv, IInv', ManagerEnds
    PROVE  LiveInv'
<1>1. /\ view' = "FLAT" /\ stage' = "idle"
      /\ slips' = (IF Carried = 0 THEN slips ELSE slips + 1)
      /\ unsaid' = (IF stage = "executed" THEN unsaid + 1 ELSE unsaid)
      /\ order' = order /\ account' = account /\ executed' = executed
      /\ announced' = announced /\ changes' = changes
    BY DEF ManagerEnds
<1>2. LiveTypeOK'
    BY <1>1 DEF LiveInv, LiveTypeOK, IInv, BooksInv, View
<1>3. Carried' = 0
    BY <1>1 DEF Carried, Net
<1>4. AccountFollowsView'
    <2>1. Carried \in -1..1 /\ account \in Int /\ slips \in Nat /\ account - Carried \in -slips..slips
        BY DEF LiveInv, CarriedIsOne, LiveTypeOK, AccountFollowsView
    <2>2. CASE Carried = 0
        BY <1>1, <1>3, <2>1, <2>2 DEF AccountFollowsView
    <2>3. CASE Carried # 0
        <3>1. (account - Carried) + Carried \in -(slips + 1)..(slips + 1)
            BY <2>1, OneMore
        <3> QED
            BY <1>1, <1>3, <2>1, <2>3, <3>1 DEF AccountFollowsView
    <2> QED
        BY <2>2, <2>3
<1>5. OrdersAnnounced'
    BY <1>1 DEF LiveInv, LiveTypeOK, OrdersAnnounced
<1> QED
    BY <1>1, <1>2, <1>3, <1>4, <1>5 DEF LiveInv, StageNeedsWorker, CarriedIsOne, TradesPendingOnce

(* Once process_message has returned there is nothing in hand.             *)
LEMMA ReturnKeeps ==
    ASSUME LiveInv, IInv', stage' = "idle", view' \in View, order' = order,
           account' \in Int, executed' \in Nat, announced' \in Nat, unsaid' \in Nat,
           slips' \in Nat, changes' \in 0..MaxChanges,
           account' - Net(view') \in -slips'..slips',
           executed' = announced' + unsaid'
    PROVE  LiveInv'
<1>1. Carried' = Net(view') /\ Net(view') \in -1..1
    BY DEF Carried, Net, View
<1>2. LiveTypeOK'
    BY DEF LiveInv, LiveTypeOK, IInv, BooksInv
<1> QED
    BY <1>1, <1>2 DEF LiveInv, StageNeedsWorker, CarriedIsOne, TradesPendingOnce,
                      AccountFollowsView, OrdersAnnounced

(* What an idle manager knows.                                             *)
LEMMA WhenIdle ==
    ASSUME LiveInv, stage = "idle"
    PROVE  Carried = Net(view) /\ account - Net(view) \in -slips..slips
           /\ executed = announced + unsaid
<1>1. Carried = Net(view)
    BY CarriedTypes DEF LiveInv, Carried
<1> QED
    BY <1>1 DEF LiveInv, LiveTypeOK, AccountFollowsView, OrdersAnnounced

(* What a manager with a decision in hand knows.                           *)
LEMMA WhenDecided ==
    ASSUME LiveInv, stage = "decided"
    PROVE  Contracts(order) \in {-1, 1}
           /\ (account + Contracts(order)) - Net(view) \in -slips..slips
           /\ executed = announced + unsaid
<1>1. Net(view) \in Int /\ Contracts(order) \in {-1, 1} /\ account \in Int
    BY CarriedTypes DEF LiveInv, LiveTypeOK
<1>2. Carried = Net(view) - Contracts(order)
    BY DEF Carried
<1>3. account - Carried \in -slips..slips
    BY DEF LiveInv, AccountFollowsView
<1>4. account - Carried = (account + Contracts(order)) - Net(view)
    BY <1>1, <1>2
<1> QED
    BY <1>1, <1>3, <1>4 DEF LiveInv, LiveTypeOK, OrdersAnnounced

(* What a manager with an executed order in hand knows.                    *)
LEMMA WhenExecuted ==
    ASSUME LiveInv, stage = "executed"
    PROVE  account - Net(view) \in -slips..slips
           /\ executed = announced + unsaid + 1
<1>1. Carried = Net(view)
    BY CarriedTypes DEF LiveInv, Carried
<1> QED
    BY <1>1 DEF LiveInv, LiveTypeOK, AccountFollowsView, OrdersAnnounced

(* No order, or a strategy that raises with its position changed or not.   *)
LEMMA NothingSentKeeps ==
    ASSUME LiveInv, IInv', NoOrder \/ StrategyRaises
    PROVE  LiveInv'
<1>1. stage = "idle" /\ stage' = "idle"
    BY DEF NoOrder, StrategyRaises, trading
<1>2. /\ account - Net(view) \in -slips..slips /\ executed = announced + unsaid
      /\ account \in Int /\ slips \in Nat /\ Net(view) \in -1..1
    BY <1>1, WhenIdle, CarriedTypes DEF LiveInv, LiveTypeOK
<1>3. CASE NoOrder
    BY <1>1, <1>2, <1>3, ReturnKeeps DEF NoOrder, trading, LiveInv, LiveTypeOK
<1>4. CASE StrategyRaises
    <2>1. PICK a \in Answers(view) : view' = a[2]
        BY <1>4 DEF StrategyRaises
    <2>2. a[2] \in View /\ Net(a[2]) - Net(view) \in -1..1 /\ Net(a[2]) \in Int
        BY AnswerIsOne DEF LiveInv, LiveTypeOK, View, Net
    <2>3. /\ order' = order /\ account' = account /\ executed' = executed
          /\ announced' = announced /\ unsaid' = unsaid
        BY <1>4 DEF StrategyRaises
    <2>4. CASE view' = view
        <3>1. slips' = slips /\ changes' = changes
            BY <1>4, <2>4 DEF StrategyRaises
        <3> QED
            BY <1>1, <1>2, <2>3, <2>4, <3>1, ReturnKeeps DEF LiveInv, LiveTypeOK
    <2>5. CASE view' # view
        <3>1. changes < MaxChanges /\ changes' = changes + 1 /\ slips' = slips + 1
            BY <1>4, <2>5 DEF StrategyRaises
        <3>2. changes' \in 0..MaxChanges
            BY <3>1, LiveAssumption DEF LiveInv, LiveTypeOK
        <3>3. Net(view) - Net(a[2]) \in -1..1
            BY <1>2, <2>2
        <3>4. (account - Net(view)) + (Net(view) - Net(a[2])) \in -(slips + 1)..(slips + 1)
            BY <1>2, <3>3, OneMore
        <3>5. account - Net(a[2]) \in -(slips + 1)..(slips + 1)
            BY <1>2, <2>2, <3>4
        <3> QED
            BY <1>1, <1>2, <2>1, <2>2, <2>3, <3>1, <3>2, <3>5, ReturnKeeps DEF LiveInv, LiveTypeOK
    <2> QED
        BY <2>4, <2>5
<1> QED
    BY <1>3, <1>4

(* A decision is about the oldest entry of the batch, which is pending     *)
(* (HeldIsPending) and which this run has not handled (RunInOrder).        *)
LEMMA DecideKeeps ==
    ASSUME LiveInv, IInv', Decide
    PROVE  LiveInv'
<1>1. PICK a \in Answers(view) : a[1] # "HOLD" /\ order' = a[1] /\ view' = a[2]
    BY DEF Decide
<1>2. a[1] \in {"BUY", "SELL"} /\ a[2] \in View /\ Net(a[2]) - Contracts(a[1]) = Net(view)
    BY <1>1, AnswerIsOrder DEF LiveInv, LiveTypeOK
<1>3. /\ stage = "idle" /\ stage' = "decided" /\ changes' = changes + 1
      /\ changes < MaxChanges /\ mode # "down" /\ acking = None
      /\ account' = account /\ executed' = executed /\ announced' = announced
      /\ slips' = slips /\ unsaid' = unsaid
    BY DEF Decide
<1>4. mode' = mode /\ acking' = acking /\ batch' = batch /\ pending' = pending /\ handled' = handled
    BY DEF Decide, vars, worker, redis, history
<1>5. LiveTypeOK'
    <2>1. changes' \in 0..MaxChanges
        BY <1>3, LiveAssumption DEF LiveInv, LiveTypeOK
    <2> QED
        BY <1>1, <1>2, <1>3, <2>1 DEF LiveInv, LiveTypeOK, IInv, BooksInv
<1>6. Carried' = Carried
    <2>1. Carried = Net(view)
        BY <1>3, WhenIdle
    <2>2. Carried' = Net(a[2]) - Contracts(a[1])
        BY <1>1, <1>3 DEF Carried
    <2> QED
        BY <1>2, <2>1, <2>2
<1>7. TradesPendingOnce'
    <2>1. PICK i \in batch : \A j \in batch : i <= j
        BY DEF Decide
    <2>2. i \in pending
        BY DEF LiveInv, IInv, BooksInv, HeldIsPending
    <2>3. i \notin handled
        BY DEF LiveInv, IInv, BooksInv, RunInOrder, TypeOK
    <2> QED
        BY <1>4, <2>1, <2>2, <2>3 DEF TradesPendingOnce
<1>8. StageNeedsWorker' /\ OrdersAnnounced'
    BY <1>3, <1>4 DEF LiveInv, StageNeedsWorker, OrdersAnnounced
<1>9. CarriedIsOne' /\ AccountFollowsView'
    BY <1>3, <1>6 DEF LiveInv, CarriedIsOne, AccountFollowsView
<1> QED
    BY <1>5, <1>7, <1>8, <1>9 DEF LiveInv

(* An accepted order makes the account follow the decision.                *)
LEMMA AcceptedKeeps ==
    ASSUME LiveInv, IInv', OrderAccepted
    PROVE  LiveInv'
<1>1. /\ stage = "decided" /\ stage' = "executed"
      /\ account' = account + Contracts(order) /\ executed' = executed + 1
      /\ view' = view /\ order' = order /\ announced' = announced
      /\ changes' = changes /\ slips' = slips /\ unsaid' = unsaid
    BY DEF OrderAccepted
<1>2. mode' = mode /\ acking' = acking /\ batch' = batch /\ pending' = pending /\ handled' = handled
    BY DEF OrderAccepted, vars, worker, redis, history
<1>3. /\ Contracts(order) \in {-1, 1} /\ (account + Contracts(order)) - Net(view) \in -slips..slips
      /\ executed = announced + unsaid
    BY <1>1, WhenDecided
<1>4. LiveTypeOK'
    BY <1>1, <1>3 DEF LiveInv, LiveTypeOK, IInv, BooksInv
<1>5. Carried' = Net(view) /\ Net(view) \in -1..1
    BY <1>1, CarriedTypes DEF LiveInv, Carried
<1>6. AccountFollowsView' /\ CarriedIsOne'
    BY <1>1, <1>3, <1>5 DEF AccountFollowsView, CarriedIsOne
<1>7. OrdersAnnounced'
    BY <1>1, <1>3 DEF OrdersAnnounced
<1>8. StageNeedsWorker' /\ TradesPendingOnce'
    BY <1>1, <1>2 DEF LiveInv, StageNeedsWorker, TradesPendingOnce
<1> QED
    BY <1>4, <1>6, <1>7, <1>8 DEF LiveInv

(* An order that was not carried out, or whose answer was lost.            *)
LEMMA UnfilledKeeps ==
    ASSUME LiveInv, IInv', OrderRefused \/ OrderRaises \/ OrderUnanswered
    PROVE  LiveInv'
<1>1. stage = "decided" /\ stage' = "idle" /\ view' = view /\ order' = order
      /\ announced' = announced /\ changes' = changes
    BY DEF OrderRefused, OrderRaises, OrderUnanswered
<1>2. /\ Contracts(order) \in {-1, 1} /\ (account + Contracts(order)) - Net(view) \in -slips..slips
      /\ executed = announced + unsaid
    BY <1>1, WhenDecided
<1>3. /\ account \in Int /\ slips \in Nat /\ Net(view) \in Int /\ view \in View
      /\ executed \in Nat /\ announced \in Nat /\ unsaid \in Nat /\ changes \in 0..MaxChanges
    BY CarriedTypes DEF LiveInv, LiveTypeOK
<1>4. CASE OrderRefused \/ OrderRaises
    <2>1. account' = account /\ executed' = executed /\ unsaid' = unsaid /\ slips' = slips + 1
        BY <1>4 DEF OrderRefused, OrderRaises
    <2>2. account - Net(view) \in -(slips + 1)..(slips + 1)
        <3>1. -Contracts(order) \in -1..1
            BY <1>2
        <3>2. ((account + Contracts(order)) - Net(view)) + (-Contracts(order)) \in -(slips + 1)..(slips + 1)
            BY <1>2, <1>3, <3>1, OneMore
        <3>3. Contracts(order) \in Int
            BY <1>2
        <3> QED
            BY <1>3, <3>2, <3>3
    <2> QED
        BY <1>1, <1>2, <1>3, <2>1, <2>2, ReturnKeeps
<1>5. CASE OrderUnanswered
    <2>1. /\ account' = account + Contracts(order) /\ executed' = executed + 1
          /\ unsaid' = unsaid + 1 /\ slips' = slips
        BY <1>5 DEF OrderUnanswered
    <2>2. account' \in Int /\ executed' = announced + (unsaid + 1)
        BY <1>2, <1>3, <2>1
    <2> QED
        BY <1>1, <1>2, <1>3, <2>1, <2>2, ReturnKeeps
<1> QED
    BY <1>4, <1>5

(* The publication of an executed order, gone well or not.                 *)
LEMMA PublicationKeeps ==
    ASSUME LiveInv, IInv', Announce \/ AnnounceRaises
    PROVE  LiveInv'
<1>1. /\ stage = "executed" /\ stage' = "idle" /\ view' = view /\ order' = order
      /\ account' = account /\ executed' = executed /\ changes' = changes /\ slips' = slips
    BY DEF Announce, AnnounceRaises
<1>2. \/ announced' = announced + 1 /\ unsaid' = unsaid
      \/ unsaid' = unsaid + 1 /\ announced' = announced
    BY DEF Announce, AnnounceRaises
<1>3. account - Net(view) \in -slips..slips /\ executed = announced + unsaid + 1
    BY <1>1, WhenExecuted
<1>4. /\ account \in Int /\ slips \in Nat /\ view \in View
      /\ executed \in Nat /\ announced \in Nat /\ unsaid \in Nat /\ changes \in 0..MaxChanges
    BY DEF LiveInv, LiveTypeOK
<1>5. announced' \in Nat /\ unsaid' \in Nat /\ executed' = announced' + unsaid'
    BY <1>1, <1>2, <1>3, <1>4
<1> QED
    BY <1>1, <1>3, <1>4, <1>5, ReturnKeeps

-----------------------------------------------------------------------------
(* Theorems                                                                *)

(* Trading begins flat, with nothing announced.                            *)
LEMMA InitLiveInv == LiveInit => LiveInv
<1> SUFFICES ASSUME LiveInit PROVE LiveInv
    OBVIOUS
<1>1. IInv
    BY InitIInv DEF LiveInit
<1>2. /\ view = "FLAT" /\ stage = "idle" /\ order = "BUY" /\ account = 0 /\ executed = 0
      /\ announced = 0 /\ changes = 0 /\ slips = 0 /\ unsaid = 0
    BY DEF LiveInit
<1>3. LiveTypeOK
    BY <1>1, <1>2, LiveAssumption DEF LiveTypeOK, IInv, BooksInv, View
<1>4. Carried = 0
    BY <1>2 DEF Carried, Net
<1> QED
    BY <1>1, <1>2, <1>3, <1>4 DEF LiveInv, StageNeedsWorker, CarriedIsOne, AccountFollowsView,
                                  TradesPendingOnce, OrdersAnnounced

(* Every step of the manager and of its consumer keeps the invariant.      *)
LEMMA NextLiveInv == LiveInv /\ [LiveNext]_liveVars => LiveInv'
<1> SUFFICES ASSUME LiveInv, [LiveNext]_liveVars PROVE LiveInv'
    OBVIOUS
<1>1. IInv'
    BY StepOfConsumer, NextIInv DEF LiveInv
<1>2. CASE UNCHANGED liveVars
    <2>1. UNCHANGED vars /\ UNCHANGED trading
        BY <1>2 DEF liveVars
    <2> QED
        BY <1>1, <2>1 DEF vars, worker, redis, history, trading, LiveInv, LiveTypeOK, IInv, BooksInv,
                          StageNeedsWorker, CarriedIsOne, Carried, AccountFollowsView,
                          TradesPendingOnce, OrdersAnnounced
<1> QED
    BY <1>1, <1>2, ConsumerKeeps, EndKeeps, NothingSentKeeps, DecideKeeps, AcceptedKeeps,
       UnfilledKeeps, PublicationKeeps DEF LiveNext

(* The inductive invariant of the manager and its consumer.                *)
THEOREM LiveInvariant == LiveSpec => []LiveInv
    BY InitLiveInv, NextLiveInv, PTL DEF LiveSpec

(* Every variable of the manager keeps its type.                           *)
THEOREM LiveTypeCorrect == LiveSpec => []LiveTypeOK
    BY LiveInvariant, PTL DEF LiveInv

(* Redelivery, lost answers and failing publications never move the        *)
(* account away from what the strategy believes: only refusals, raising    *)
(* calls and ends of the process do, by one contract each.                 *)
THEOREM AccountIsBounded == LiveSpec => []AccountFollowsView
    BY LiveInvariant, PTL DEF LiveInv

(* Every order is for an entry that is pending and new to this run.        *)
THEOREM NoSettledEntryTraded == LiveSpec => []TradesPendingOnce
    BY LiveInvariant, PTL DEF LiveInv

(* The order stream and the account tell the same number of orders, up to  *)
(* the lost answers and publications that were counted.                    *)
THEOREM AnnouncementsAddUp == LiveSpec => []OrdersAnnounced
    BY LiveInvariant, PTL DEF LiveInv

(* Trading does not change what the consumer group promises: the manager   *)
(* implements AtLeastOnce.                                                 *)
THEOREM ManagerIsAtLeastOnce == LiveSpec => ImplementsAtLeastOnce
<1>1. LiveInit => Abstract!Init
    BY InitRefines DEF LiveInit
<1>2. LiveInv /\ [LiveNext]_liveVars => [Abstract!Next]_Abstract!vars
    BY StepOfConsumer, NextRefines DEF LiveInv
<1> QED
    BY <1>1, <1>2, LiveInvariant, PTL DEF LiveSpec, ImplementsAtLeastOnce, Abstract!Spec
===============================================================================
