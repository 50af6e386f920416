------------------------------- MODULE DbLogger -------------------------------
(***************************************************************************)
(* DBLogger of src/db_logger/db_logger.py: the StreamConsumer whose        *)
(* process_message puts a feature message into a BatchInserter and returns *)
(* True, which acknowledges it.  From then on the row lives in the memory  *)
(* of this process only, until a flush stores it.                          *)
(*                                                                         *)
(* The row of entry i of the stream is i.                                  *)
(***************************************************************************)
EXTENDS StreamConsumer, BatchInserter

ASSUME RowIsEntry == Row = Entry

dbVars == <<vars, inserterVars>>

DbInit == Init /\ InserterInit

(* A new process: start(), and run() up to its first handler.              *)
Boot == Start /\ StartThreads

Produce == Publish /\ UNCHANGED inserterVars

(* process_message of the oldest entry of the batch, up to add().          *)
HandleBegins ==
    /\ mode # "down" /\ acking = None
    /\ \E i \in batch : (\A j \in batch : i <= j) /\ Add(i)
    /\ UNCHANGED vars

(* add() returned, and with it process_message: True.                      *)
HandleReturns ==
    /\ AddReturns
    /\ \E i \in batch : HandleOk(i)

(* float() of a field raises: False, before anything is added.             *)
HandleRejects ==
    /\ pc["main"] = "idle"
    /\ \E i \in batch : HandleFails(i)
    /\ UNCHANGED inserterVars

(* The steps of the consumer between two handlers.                         *)
ConsumerStep ==
    /\ pc["main"] = "idle"
    /\ EnterLoop \/ ReadNew \/ ReadNewFails \/ Ack \/ AckFails
    /\ UNCHANGED inserterVars

InserterStep ==
    /\ \/ \E t \in Thread : FlushStep(t)
       \/ FlushDue \/ FlusherExits \/ Join
    /\ UNCHANGED vars

(* Ctrl-C: run() drops the rest of its batch and stop() takes over.        *)
Shutdown ==
    /\ Interrupt
    /\ Die \/ (mode = "down" /\ UNCHANGED vars)

Exit ==
    /\ ProcessEnds
    /\ Die \/ (mode = "down" /\ UNCHANGED vars)

DbNext ==
    \/ Boot \/ Produce \/ HandleBegins \/ HandleReturns \/ HandleRejects
    \/ ConsumerStep \/ InserterStep \/ Shutdown \/ Exit

(* Both threads keep running, the flusher's interval passes again and      *)
(* again, and an insert that is tried again and again succeeds in the end. *)
DbFairness ==
    /\ WF_dbVars(HandleReturns)
    /\ WF_dbVars(FlushDue /\ UNCHANGED vars)
    /\ \A t \in Thread :
         /\ WF_dbVars(FlushStep(t) /\ UNCHANGED vars)
         /\ SF_dbVars(InsertOk(t) /\ UNCHANGED vars)

DbSpec == DbInit /\ [][DbNext]_dbVars /\ DbFairness

-----------------------------------------------------------------------------
(* Properties                                                              *)

DbTypeOK == TypeOK /\ InserterTypeOK

(* An entry whose handler returned True is in ClickHouse or in the memory  *)
(* of the logger, unless the process ended, or an insert was interrupted,  *)
(* with the row in hand: neither the batching nor a failing ClickHouse     *)
(* loses an acknowledged row.                                              *)
RowsAccounted == done \subseteq table \cup InMemory \cup lost

(* A row that is being inserted is in no second batch and not waiting in   *)
(* the buffer: nothing but a failed insert can store it twice.             *)
RowsOnce ==
    /\ \A t \in Thread : inflight[t] \cap buffer = {}
    /\ inflight["main"] \cap inflight["flusher"] = {}

(* With the lock the code uses, at most one batch of acknowledged rows is  *)
(* ever at stake in a crash.                                               *)
AtStakeBounded == kind = "Lock" => Cardinality(InMemory) <= BatchSize

(* Through all of it consumer and inserter keep their shape, and neither   *)
(* loses a row, stores one twice or holds back more than a batch.          *)
DbSound == DbTypeOK /\ RowsAccounted /\ RowsOnce /\ AtStakeBounded

(* A row in the buffer is stored in the end, as long as the process lives. *)
AutoFlush ==
    \A r \in Entry : (r \in buffer) ~> (r \in table \cup lost \/ ~active)

(* ... which holds with the reentrant lock of the tests.                   *)
AutoFlushReentrant == (kind = "RLock") => AutoFlush
=============================================================================
