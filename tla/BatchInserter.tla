---------------------------- MODULE BatchInserter ----------------------------
(***************************************************************************)
(* BatchInserter of src/common/clickhouse_client.py: rows collected in a   *)
(* buffer under a lock, and inserted into a ClickHouse table when there    *)
(* are batch_size of them, when flush_interval has passed, or on stop().   *)
(*                                                                         *)
(* Two threads meet here: "main", which calls add() and stop(), and the    *)
(* "flusher" of _flush_loop.  Both call _flush() with the lock already     *)
(* held, and _flush() takes it again.  With threading.Lock, which the code *)
(* uses, the second acquisition waits for the thread itself; with the      *)
(* RLock that the tests put in its place it succeeds.                      *)
(*                                                                         *)
(* The rows of a batch are a set: their order in the buffer is left out.   *)
(* Whether flush_interval has passed is left open, so the flusher may wake *)
(* at any time.                                                            *)
(***************************************************************************)
EXTENDS Naturals, FiniteSets

CONSTANTS Row,          \* the rows that may be added
          BatchSize,    \* BatchConfig.batch_size
          LockKinds     \* the kinds of lock considered, of "Lock" and "RLock"

ASSUME InserterAssumption ==
    /\ IsFiniteSet(Row)
    /\ BatchSize \in Nat \ {0}
    /\ LockKinds \subseteq {"Lock", "RLock"}

Thread == {"main", "flusher"}

VARIABLES
    kind,       \* class of self._lock
    owner,      \* the thread that holds self._lock, or "free"
    pc,         \* where each thread is
    buffer,     \* self._buffer
    inflight,   \* data_to_insert of the _flush() a thread is in
    active,     \* self._running
    table,      \* rows ClickHouse has stored
    lost        \* history: rows that were in memory when it was given up

inserterVars == <<kind, owner, pc, buffer, inflight, active, table, lost>>

MainPC    == {"off", "idle", "added", "flush", "insert", "restore", "join", "stopped"}
FlusherPC == {"off", "sleep", "flush", "insert", "restore"}

InserterTypeOK ==
    /\ kind \in LockKinds
    /\ owner \in Thread \cup {"free"}
    /\ pc["main"] \in MainPC /\ pc["flusher"] \in FlusherPC
    /\ buffer \subseteq Row
    /\ inflight \in [Thread -> SUBSET Row]
    /\ active \in BOOLEAN
    /\ table \subseteq Row
    /\ lost \subseteq Row

InMemory == buffer \cup UNION {inflight[t] : t \in Thread}

InserterInit ==
    /\ kind \in LockKinds
    /\ owner = "free"
    /\ pc = [t \in Thread |-> "off"]
    /\ buffer = {}
    /\ inflight = [t \in Thread |-> {}]
    /\ active = FALSE
    /\ table = {}
    /\ lost = {}

CanAcquire(t) == owner = "free" \/ (kind = "RLock" /\ owner = t)

GoTo(t, l) == pc' = [pc EXCEPT ![t] = l]

-----------------------------------------------------------------------------

(* __init__() and start().                                                 *)
StartThreads ==
    /\ pc["main"] = "off"
    /\ pc' = [t \in Thread |-> IF t = "main" THEN "idle" ELSE "sleep"]
    /\ active' = TRUE
    /\ UNCHANGED <<kind, owner, buffer, inflight, table, lost>>

(* len(self._buffer) > batch_size.                                         *)
BatchOverfull(rows) == Cardinality(rows) > BatchSize

BatchFull(rows) == Cardinality(rows) >= BatchSize

(* add(): the row goes into the buffer, and if that fills the batch,       *)
(* _flush() is called with the lock held.                                  *)
Add(row) ==
    /\ pc["main"] = "idle"
    /\ owner = "free"
    /\ buffer' = buffer \cup {row}
    /\ IF BatchFull(buffer')
       THEN GoTo("main", "flush") /\ owner' = "main"
       ELSE GoTo("main", "added") /\ UNCHANGED owner
    /\ UNCHANGED <<kind, inflight, active, table, lost>>

AddReturns ==
    /\ pc["main"] = "added"
    /\ GoTo("main", "idle")
    /\ UNCHANGED <<kind, owner, buffer, inflight, active, table, lost>>

(* Where a thread goes when its _flush() returns, releasing the lock that  *)
(* add() or _flush_loop() had taken around it.                             *)
AfterFlush(t) ==
    IF t = "flusher" THEN (IF active THEN "sleep" ELSE "off")
                     ELSE (IF active THEN "added" ELSE "stopped")

FlushReturns(t) ==
    /\ GoTo(t, AfterFlush(t))
    /\ owner' = IF owner = t THEN "free" ELSE owner

(* _flush() up to the insert: the buffer is copied and cleared.            *)
FlushUncleared(t) ==
    /\ pc[t] = "flush" /\ CanAcquire(t)
    /\ inflight' = [inflight EXCEPT ![t] = buffer]
    /\ IF buffer = {} THEN FlushReturns(t) ELSE GoTo(t, "insert") /\ UNCHANGED owner
    /\ UNCHANGED <<kind, buffer, active, table, lost>>

Flush(t) ==
    /\ pc[t] = "flush" /\ CanAcquire(t)
    /\ inflight' = [inflight EXCEPT ![t] = buffer]
    /\ buffer' = {}
    /\ IF buffer = {} THEN FlushReturns(t) ELSE GoTo(t, "insert") /\ UNCHANGED owner
    /\ UNCHANGED <<kind, active, table, lost>>

InsertOk(t) ==
    /\ pc[t] = "insert"
    /\ table' = table \cup inflight[t]
    /\ inflight' = [inflight EXCEPT ![t] = {}]
    /\ FlushReturns(t)
    /\ UNCHANGED <<kind, buffer, active, lost>>

(* The insert raises; the rows may have reached the table all the same.    *)
InsertFails(t) ==
    /\ pc[t] = "insert"
    /\ table' \in {table, table \cup inflight[t]}
    /\ GoTo(t, "restore")
    /\ UNCHANGED <<kind, owner, buffer, inflight, active, lost>>

(* A failed insert whose rows are not put back.                            *)
DropFailed(t) ==
    /\ pc[t] = "restore" /\ CanAcquire(t)
    /\ inflight' = [inflight EXCEPT ![t] = {}]
    /\ FlushReturns(t)
    /\ UNCHANGED <<kind, buffer, active, table, lost>>

Restore(t) ==
    /\ pc[t] = "restore" /\ CanAcquire(t)
    /\ buffer' = inflight[t] \cup buffer
    /\ inflight' = [inflight EXCEPT ![t] = {}]
    /\ FlushReturns(t)
    /\ UNCHANGED <<kind, active, table, lost>>

(* _flush_loop() looks at _running before its sleep, not after it: the     *)
(* flusher may still find flush_interval passed once stop() has begun.     *)
FlushDueWhenFull ==
    /\ pc["flusher"] = "sleep"
    /\ owner = "free" /\ BatchFull(buffer)
    /\ owner' = "flusher"
    /\ GoTo("flusher", "flush")
    /\ UNCHANGED <<kind, buffer, inflight, active, table, lost>>

FlushDue ==
    /\ pc["flusher"] = "sleep"
    /\ owner = "free" /\ buffer # {}
    /\ owner' = "flusher"
    /\ GoTo("flusher", "flush")
    /\ UNCHANGED <<kind, buffer, inflight, active, table, lost>>

FlusherExits ==
    /\ pc["flusher"] = "sleep" /\ ~active
    /\ GoTo("flusher", "off")
    /\ UNCHANGED <<kind, owner, buffer, inflight, active, table, lost>>

(* Ctrl-C raises KeyboardInterrupt in the main thread, wherever it is, and *)
(* StreamConsumer.run() or main() answers it by calling stop().  A lock    *)
(* that add() holds is released on the way out; rows of an insert that was *)
(* under way are in no variable any more, stored or not.                   *)
Interrupt ==
    /\ pc["main"] \notin {"off", "stopped"}
    /\ active' = FALSE
    /\ owner' = IF owner = "main" THEN "free" ELSE owner
    /\ lost' = lost \cup inflight["main"]
    /\ inflight' = [inflight EXCEPT !["main"] = {}]
    /\ table' \in {table, table \cup inflight["main"]}
    /\ GoTo("main", "join")
    /\ UNCHANGED <<kind, buffer>>

(* stop() waits for the flusher, for five seconds at most, and flushes.    *)
Join ==
    /\ pc["main"] = "join"
    /\ GoTo("main", "flush")
    /\ UNCHANGED <<kind, owner, buffer, inflight, active, table, lost>>

(* The process ends: after stop(), or killed.  The flusher is a daemon     *)
(* thread and ends with it.                                                *)
ProcessEnds ==
    /\ pc["main"] # "off"
    /\ pc' = [t \in Thread |-> "off"]
    /\ lost' = lost \cup InMemory
    /\ buffer' = {}
    /\ inflight' = [t \in Thread |-> {}]
    /\ owner' = "free"
    /\ active' = FALSE
    /\ UNCHANGED <<kind, table>>

FlushStep(t) == Flush(t) \/ InsertOk(t) \/ InsertFails(t) \/ Restore(t)
=============================================================================
