--------------------------- MODULE StreamConsumer ---------------------------
(***************************************************************************)
(* One Redis stream, its consumer group, and the single worker that reads  *)
(* it: StreamConsumer of src/common/redis_client.py, the base class of the *)
(* feature processor, the prediction engine, the strategy manager and the  *)
(* two loggers.                                                            *)
(*                                                                         *)
(* Entries are numbered 1, 2, ... in the order of their XADD.  The payload *)
(* is left out; what process_message does with it is one step that either  *)
(* succeeds or fails.                                                      *)
(***************************************************************************)
EXTENDS Naturals, FiniteSets

CONSTANTS ReadCount,    \* settings.consumer.read_count
          MaxLen,       \* settings.redis.stream_maxlen
          MaxEntries    \* bound: XADDs considered

ASSUME ConsumerAssumption ==
    /\ ReadCount \in Nat \ {0}
    /\ MaxLen \in Nat \ {0}
    /\ MaxEntries \in Nat

Entry == 1..MaxEntries
None  == 0

VARIABLES
    \* the stream and its group, in Redis: these survive the worker
    published,      \* entries added so far: 1..published
    first,          \* the oldest entry the stream still holds
    delivered,      \* last-delivered-id of the group
    pending,        \* the group's pending entries list
    \* the worker process
    mode,           \* "down", "recover" (first half of run) or "loop"
    running,        \* self.running
    batch,          \* entries of the last read that are still to be handled
    acking,         \* the entry whose handler returned True, or None
    \* history
    done,           \* entries whose handler has returned True at least once
    skipped,        \* entries trimmed before any delivery
    handled,        \* entries this run has handed to process_message
    mark            \* delivered when this run started

redis   == <<published, first, delivered, pending>>
worker  == <<mode, running, batch, acking>>
history == <<done, skipped, handled, mark>>
vars    == <<redis, worker, history>>

(* Besides their types: the group's cursor never runs ahead of the stream, *)
(* and everything delivered, held, handled or skipped lies behind it.      *)
TypeOK ==
    /\ published \in 0..MaxEntries
    /\ first \in 1..(published + 1)
    /\ delivered \in 0..published
    /\ pending \subseteq 1..delivered
    /\ mode \in {"down", "recover", "loop"}
    /\ running \in BOOLEAN
    /\ batch \subseteq 1..delivered
    /\ acking \in 0..delivered
    /\ done \subseteq 1..delivered
    /\ skipped \subseteq 1..delivered
    /\ handled \subseteq 1..delivered
    /\ mark \in 0..delivered

(* The group is created at id 0: it starts before the oldest entry.        *)
Init ==
    /\ published = 0 /\ first = 1 /\ delivered = 0 /\ pending = {}
    /\ mode = "down" /\ running = FALSE /\ batch = {} /\ acking = None
    /\ done = {} /\ skipped = {} /\ handled = {} /\ mark = 0

Idle == batch = {} /\ acking = None

-----------------------------------------------------------------------------
(* The stream                                                              *)

(* XADD with an approximate MAXLEN removes whole nodes of old entries: any *)
(* number of the oldest, as long as MaxLen entries remain.                 *)
TrimPoints(last) ==
    {f \in first..last : f = first \/ f + MaxLen <= last + 1}

Publish ==
    /\ published < MaxEntries
    /\ published' = published + 1
    /\ first' \in TrimPoints(published + 1)
    /\ UNCHANGED <<delivered, pending, worker, history>>

(* XREADGROUP with id '>': the oldest entries that were never delivered    *)
(* and are still in the stream, at most ReadCount of them.                 *)
NewEntries ==
    {i \in Entry : i > delivered /\ i >= first /\ i <= published
                   /\ (i < delivered + 1 + ReadCount \/ i < first + ReadCount)}

(* XREADGROUP with id '0': the oldest ReadCount entries of the pending     *)
(* list.  One that was trimmed comes back without fields and _read_pending *)
(* drops it, but it has taken up its place in the count.                   *)
PendingWindow ==
    {i \in pending : Cardinality({j \in pending : j < i}) < ReadCount}

PendingEntries == {i \in PendingWindow : i >= first}

-----------------------------------------------------------------------------
(* The worker                                                              *)

(* run(), up to the handling of the entries _read_pending returned.        *)
Start ==
    /\ mode = "down"
    /\ mode' = "recover"
    /\ running' = TRUE
    /\ batch' = PendingEntries
    /\ handled' = {}
    /\ mark' = delivered
    /\ UNCHANGED <<redis, acking, done, skipped>>

EnterLoop ==
    /\ mode = "recover" /\ Idle
    /\ mode' = "loop"
    /\ UNCHANGED <<redis, running, batch, acking, history>>

Deliver(S) ==
    /\ S # {}
    /\ \E i \in S : (\A j \in S : j <= i) /\ delivered' = i
    /\ pending' = pending \cup S
    /\ skipped' = skipped \cup {i \in Entry : delivered < i /\ i < first}
    /\ UNCHANGED <<published, first>>

(* The main loop re-reading the pending list.                              *)
ReadAgain ==
    /\ mode = "loop" /\ running /\ Idle
    /\ batch' = PendingEntries
    /\ UNCHANGED <<redis, mode, running, acking, history>>

(* The main loop waiting for an empty pending list.                        *)
ReadNewWhenDrained ==
    /\ mode = "loop" /\ running /\ Idle /\ pending = {}
    /\ Deliver(NewEntries)
    /\ batch' = NewEntries
    /\ UNCHANGED <<mode, running, acking, done, handled, mark>>

ReadNew ==
    /\ mode = "loop" /\ running /\ Idle
    /\ Deliver(NewEntries)
    /\ batch' = NewEntries
    /\ UNCHANGED <<mode, running, acking, done, handled, mark>>

(* Redis has delivered, but the answer is lost or cannot be decoded: the   *)
(* loop logs the exception and goes on with nothing to handle.             *)
ReadNewFails ==
    /\ mode = "loop" /\ running /\ Idle
    /\ Deliver(NewEntries)
    /\ UNCHANGED <<worker, done, handled, mark>>

Take(i) ==
    /\ mode # "down" /\ acking = None
    /\ i \in batch /\ \A j \in batch : i <= j
    /\ batch' = batch \ {i}
    /\ handled' = handled \cup {i}

(* process_message returns True.                                           *)
HandleOk(i) ==
    /\ Take(i)
    /\ acking' = i
    /\ done' = done \cup {i}
    /\ UNCHANGED <<redis, mode, running, skipped, mark>>

(* An acknowledgement that does not wait for the handler's verdict.        *)
HandleFailsAcked(i) ==
    /\ Take(i)
    /\ acking' = i
    /\ UNCHANGED <<redis, mode, running, done, skipped, mark>>

(* One `try` around the whole batch: the first failure drops the rest.     *)
HandleFailsDropsBatch(i) ==
    /\ mode # "down" /\ acking = None
    /\ i \in batch /\ \A j \in batch : i <= j
    /\ batch' = {}
    /\ handled' = handled \cup {i}
    /\ UNCHANGED <<redis, mode, running, acking, done, skipped, mark>>

(* process_message returns False or raises: no acknowledgement, next entry.*)
HandleFails(i) ==
    /\ Take(i)
    /\ UNCHANGED <<redis, mode, running, acking, done, skipped, mark>>

(* One XACK for everything the last read returned.                         *)
AckBatch ==
    /\ acking # None
    /\ pending' = pending \ ({acking} \cup batch)
    /\ acking' = None
    /\ UNCHANGED <<published, first, delivered, mode, running, batch, history>>

Ack ==
    /\ acking # None
    /\ pending' = pending \ {acking}
    /\ acking' = None
    /\ UNCHANGED <<published, first, delivered, mode, running, batch, history>>

(* XACK raises, and Redis has not seen it: logged as a failed message.     *)
AckFails ==
    /\ acking # None
    /\ acking' = None
    /\ UNCHANGED <<redis, mode, running, batch, history>>

(* stop(), from a signal handler or another thread: the flag alone.        *)
Stop ==
    /\ running
    /\ running' = FALSE
    /\ UNCHANGED <<redis, mode, batch, acking, history>>

LeaveLoop ==
    /\ mode = "loop" /\ ~running /\ Idle
    /\ mode' = "down"
    /\ UNCHANGED <<redis, running, batch, acking, history>>

(* The process dies, or Ctrl-C unwinds it out of a half-handled batch: the *)
(* handlers' `except Exception` does not stop a KeyboardInterrupt.         *)
Die ==
    /\ mode # "down"
    /\ mode' = "down" /\ running' = FALSE /\ batch' = {} /\ acking' = None
    /\ UNCHANGED <<redis, history>>

WorkerStep ==
    \/ EnterLoop \/ ReadNew \/ Ack \/ LeaveLoop
    \/ \E i \in Entry : HandleOk(i) \/ HandleFails(i)

Next ==
    \/ Publish \/ Start \/ WorkerStep
    \/ ReadNewFails \/ AckFails \/ Stop \/ Die

(* The worker's thread keeps running while it is up.  Nothing obliges      *)
(* producers to publish, anyone to restart a worker, or a call to fail.    *)
Spec == Init /\ [][Next]_vars /\ WF_vars(WorkerStep)

-----------------------------------------------------------------------------
(* Properties                                                              *)

(* An entry the group has moved past is still pending, or its handler has  *)
(* returned True, or the cap on the stream removed it before anyone read   *)
(* it: failures, lost acknowledgements, lost answers and crashes between   *)
(* the handler and XACK never make the group forget an unhandled entry.    *)
NoneForgotten ==
    \A i \in 1..delivered : i \in pending \cup done \cup skipped

(* Within one run of the worker no entry is handled twice, and entries are *)
(* handled in stream order: what is still to be handled is younger than    *)
(* everything this run has handled.                                        *)
RunInOrder ==
    \A i \in batch : \A j \in handled : j < i

(* Whatever the worker still holds is still pending: a crash at any point  *)
(* leaves all of it to the next run.                                       *)
HeldIsPending ==
    batch \cup ({acking} \ {None}) \subseteq pending

(* What the first half of run() is good for: of the entries pending when a *)
(* worker started, the oldest ReadCount have been handed to the handler    *)
(* before the loop begins, whatever the handlers, XACK or the producers did *)
(* meanwhile, unless their fields were trimmed.  Trimmed ones are never    *)
(* acknowledged and keep their places among the ReadCount; the comment     *)
(* "fields that are empty: an entry already ACKed" (redis_client.py:308)   *)
(* overlooks them.  PendingFirst below is the wider promise, which fails.  *)
OldestRetried ==
    mode = "loop" =>
        \A i \in pending : i <= mark /\ i \notin handled =>
            \/ i < first
            \/ Cardinality({j \in pending \cup handled : j < i}) >= ReadCount

Settled == {i \in 1..delivered : i \notin pending \cup skipped}

Abstract == INSTANCE AtLeastOnce WITH settled <- Settled

(* The group implements the at-least-once promise of AtLeastOnce: an entry *)
(* leaves the pending list only after its handler completed.               *)
ImplementsAtLeastOnce == Abstract!Spec

(* A worker that stays up gets past every entry: neither a failing handler *)
(* nor a failing acknowledgement holds the stream up.                      *)
EveryEntryReached ==
    \A i \in Entry : (i <= published) ~> (i <= delivered \/ mode = "down" \/ ~running)

(* "First handle the unhandled entries": once run() is past its first      *)
(* half, every live entry that was pending when it started has been handed *)
(* to process_message.  _read_pending reads one window only, so a longer   *)
(* pending list breaks this.                                               *)
PendingFirst ==
    mode = "loop" =>
        \A i \in pending : i <= mark /\ i >= first => i \in handled
=============================================================================
