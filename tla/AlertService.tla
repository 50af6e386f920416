----------------------------- MODULE AlertService -----------------------------
(***************************************************************************)
(* AlertService of src/monitoring/alert_service.py with the delivery state *)
(* of an Alert (src/monitoring/models.py).  asyncio tasks deliver alerts:  *)
(* the worker (_delivery_loop), stop() while it drains the queue, and a    *)
(* sender that calls send_immediate().  A delivery yields to other tasks   *)
(* while Telegram, Redis or the audit lock is awaited, so an alert is in   *)
(* the queue, in a task's hands, waiting for its retry, or settled.        *)
(*                                                                         *)
(* Redis and ClickHouse are configured.  The audit buffer is a number of   *)
(* entries.  The lock is only ever held across an await by a task that     *)
(* found the buffer full: _add_to_audit_buffer() then awaits the flush,    *)
(* which waits for the lock it holds.                                      *)
(***************************************************************************)
EXTENDS Naturals, Sequences, FiniteSets

CONSTANTS
    Alerts,         \* the alerts that are made
    MaxRetries,     \* failures that make a dead letter (3)
    BatchSize,      \* BATCH_SIZE of the audit buffer
    NoAlert

ASSUME AlertAssumption ==
    /\ MaxRetries \in Nat \ {0} /\ BatchSize \in Nat \ {0}
    /\ NoAlert \notin Alerts

Deliverers == {"worker", "stopper", "sender"}

VARIABLES
    status,     \* alert.delivery_status, "NEW" before the alert is made
    retries,    \* alert.retry_count
    queue,      \* _queue
    hand,       \* the alert a task is delivering
    step,       \* where each task is
    sleeping,   \* alerts whose _schedule_retry() sleeps
    active,    \* _running
    buffer,     \* entries in _audit_buffer
    flushing,   \* entries stop() has taken out of it to insert
    wedged,     \* whether a task waits for the audit lock that it holds
    attempts,   \* history: messages sent for each alert
    entries,    \* history: deliveries added to the audit buffer
    logged        \* history: entries inserted into the audit log

alertVars == <<status, retries, queue, hand, step, sleeping, active, buffer,
               flushing, wedged, attempts, entries, logged>>

AlertTypeOK ==
    /\ status \in [Alerts -> {"NEW", "PENDING", "SENT", "FAILED", "DEAD_LETTER"}]
    /\ retries \in [Alerts -> 0..MaxRetries + 1]
    /\ queue \in Seq(Alerts)
    /\ hand \in [Deliverers -> Alerts \cup {NoAlert}]
    /\ step \in [Deliverers -> {"free", "send", "push", "push again", "audit",
                           "wedged", "pause", "drain", "flush", "insert", "end"}]
    /\ sleeping \subseteq Alerts
    /\ active \in BOOLEAN /\ wedged \in BOOLEAN
    /\ buffer \in Nat /\ flushing \in Nat /\ entries \in Nat /\ logged \in Nat
    /\ attempts \in [Alerts -> Nat]

(* start() has created the worker.                                         *)
AlertInit ==
    /\ status = [a \in Alerts |-> "NEW"]
    /\ retries = [a \in Alerts |-> 0]
    /\ attempts = [a \in Alerts |-> 0]
    /\ queue = <<>> /\ sleeping = {}
    /\ hand = [t \in Deliverers |-> NoAlert]
    /\ step = [t \in Deliverers |-> "free"]
    /\ active = TRUE /\ wedged = FALSE
    /\ buffer = 0 /\ flushing = 0 /\ entries = 0 /\ logged = 0

auditVars == <<buffer, flushing, wedged, entries, logged>>

Settled == {"SENT", "DEAD_LETTER"}

-----------------------------------------------------------------------------
(* Alerts come in                                                          *)

QueueAlert(a) ==
    /\ status[a] = "NEW"
    /\ status' = [status EXCEPT ![a] = "PENDING"]
    /\ queue' = Append(queue, a)
    /\ UNCHANGED <<retries, hand, step, sleeping, active, attempts, auditVars>>

SendImmediate(a) ==
    /\ status[a] = "NEW" /\ step["sender"] = "free"
    /\ status' = [status EXCEPT ![a] = "PENDING"]
    /\ hand' = [hand EXCEPT !["sender"] = a]
    /\ step' = [step EXCEPT !["sender"] = "send"]
    /\ UNCHANGED <<retries, queue, sleeping, active, attempts, auditVars>>

(* _queue.get() of the worker, which may still wait for it when stop() has *)
(* begun, and get_nowait() of stop().                                      *)
Take(t) ==
    /\ step[t] = (IF t = "stopper" THEN "drain" ELSE "free") /\ t # "sender"
    /\ queue # <<>>
    /\ hand' = [hand EXCEPT ![t] = Head(queue)]
    /\ step' = [step EXCEPT ![t] = "send"]
    /\ queue' = Tail(queue)
    /\ UNCHANGED <<status, retries, sleeping, active, attempts, auditVars>>

(* A timer that goes off again and again.                                  *)
RetryRepeats(a) ==
    /\ a \in sleeping /\ active
    /\ status' = [status EXCEPT ![a] = "PENDING"]
    /\ queue' = Append(queue, a)
    /\ UNCHANGED <<retries, hand, step, sleeping, active, attempts, auditVars>>

(* _schedule_retry() wakes up.  Nothing is queued after stop() began.      *)
RetryDue(a) ==
    /\ a \in sleeping
    /\ sleeping' = sleeping \ {a}
    /\ IF active
       THEN /\ status' = [status EXCEPT ![a] = "PENDING"]
            /\ queue' = Append(queue, a)
       ELSE UNCHANGED <<status, queue>>
    /\ UNCHANGED <<retries, hand, step, active, attempts, auditVars>>

-----------------------------------------------------------------------------
(* _deliver_alert()                                                        *)

(* What a task does when its delivery is over.                             *)
Resting(t) == IF t = "stopper" THEN "drain" ELSE "free"

(* _add_to_audit_buffer() for the alert in t's hands, if the lock is free. *)
(* The entry that fills the buffer wedges the task.                        *)
AddToAudit(t) ==
    IF wedged
    THEN /\ step' = [step EXCEPT ![t] = "audit"]
         /\ UNCHANGED <<hand, auditVars>>
    ELSE /\ entries' = entries + 1
         /\ buffer' = buffer + 1
         /\ IF buffer + 1 >= BatchSize
            THEN /\ step' = [step EXCEPT ![t] = "wedged"]
                 /\ wedged' = TRUE /\ UNCHANGED hand
            ELSE /\ step' = [step EXCEPT ![t] = Resting(t)]
                 /\ hand' = [hand EXCEPT ![t] = NoAlert] /\ UNCHANGED wedged
         /\ UNCHANGED <<flushing, logged>>

(* send_async() answers True: mark_sent().                                 *)
SendOk(t) ==
    /\ step[t] = "send"
    /\ status' = [status EXCEPT ![hand[t]] = "SENT"]
    /\ attempts' = [attempts EXCEPT ![hand[t]] = @ + 1]
    /\ AddToAudit(t)
    /\ UNCHANGED <<retries, queue, sleeping, active>>

(* It answers False or raises: mark_failed(), then a retry is scheduled or *)
(* the dead letter pushed to Redis.                                        *)
SendFails(t) ==
    /\ step[t] = "send"
    /\ attempts' = [attempts EXCEPT ![hand[t]] = @ + 1]
    /\ retries' = [retries EXCEPT ![hand[t]] = @ + 1]
    /\ IF retries[hand[t]] + 1 >= MaxRetries
       THEN /\ status' = [status EXCEPT ![hand[t]] = "DEAD_LETTER"]
            /\ step' = [step EXCEPT ![t] = "push"]
            /\ UNCHANGED <<hand, sleeping, auditVars>>
       ELSE /\ status' = [status EXCEPT ![hand[t]] = "FAILED"]
            /\ sleeping' = sleeping \cup {hand[t]}
            /\ AddToAudit(t)
    /\ UNCHANGED <<queue, active>>

(* lpush() of the dead letter.                                             *)
PushOk(t) ==
    /\ step[t] \in {"push", "push again"}
    /\ AddToAudit(t)
    /\ UNCHANGED <<status, retries, queue, sleeping, active, attempts>>

(* It raises inside of the `try`: the failure is handled once more.        *)
PushFails(t) ==
    /\ step[t] = "push"
    /\ retries' = [retries EXCEPT ![hand[t]] = @ + 1]
    /\ step' = [step EXCEPT ![t] = "push again"]
    /\ UNCHANGED <<status, queue, hand, sleeping, active, attempts, auditVars>>

(* It raises again, out of _deliver_alert(): the worker pauses, and stop() *)
(* is left without flushing the audit buffer or cancelling the worker.     *)
PushRaises(t) ==
    /\ step[t] = "push again"
    /\ hand' = [hand EXCEPT ![t] = NoAlert]
    /\ step' = [step EXCEPT ![t] = CASE t = "worker" -> "pause"
                                     [] t = "stopper" -> "end"
                                     [] OTHER -> "free"]
    /\ UNCHANGED <<status, retries, queue, sleeping, active, attempts, auditVars>>

(* The loop goes on after its pause, or ends because stop() has begun.     *)
WorkerLoops ==
    /\ \/ step["worker"] = "pause"
       \/ step["worker"] = "free" /\ ~active
    /\ step' = [step EXCEPT !["worker"] = IF active THEN "free" ELSE "end"]
    /\ UNCHANGED <<status, retries, queue, hand, sleeping, active, attempts, auditVars>>

-----------------------------------------------------------------------------
(* stop()                                                                  *)

StopBegins ==
    /\ active
    /\ active' = FALSE
    /\ step' = [step EXCEPT !["stopper"] = "drain"]
    /\ UNCHANGED <<status, retries, queue, hand, sleeping, attempts, auditVars>>

(* The queue is empty: _flush_audit_buffer() needs the lock.               *)
FlushBegins ==
    /\ step["stopper"] = "drain" /\ queue = <<>> /\ ~wedged
    /\ flushing' = buffer /\ buffer' = 0
    /\ step' = [step EXCEPT !["stopper"] = IF buffer = 0 THEN "flush" ELSE "insert"]
    /\ UNCHANGED <<status, retries, queue, hand, sleeping, active, attempts,
                   wedged, entries, logged>>

(* The insert succeeds, or what was taken is put back: MAX_BUFFER_SIZE is  *)
(* ten times BATCH_SIZE and never reached.                                 *)
InsertEnds ==
    /\ step["stopper"] = "insert"
    /\ \/ logged' = logged + flushing /\ UNCHANGED buffer
       \/ ~wedged /\ buffer' = buffer + flushing /\ UNCHANGED logged
    /\ flushing' = 0
    /\ step' = [step EXCEPT !["stopper"] = "flush"]
    /\ UNCHANGED <<status, retries, queue, hand, sleeping, active, attempts,
                   wedged, entries>>

(* The worker is cancelled wherever it is, with what it holds: an alert    *)
(* that no handler takes back, and the audit lock if it is the wedged one. *)
CancelWorker ==
    /\ step["stopper"] = "flush"
    /\ hand' = [hand EXCEPT !["worker"] = NoAlert]
    /\ wedged' = (wedged /\ step["worker"] # "wedged")
    /\ step' = [step EXCEPT !["worker"] = "end", !["stopper"] = "end"]
    /\ UNCHANGED <<status, retries, queue, sleeping, active, attempts, buffer,
                   flushing, entries, logged>>

(* A task that waited for the audit lock gets it.                          *)
LockFree(t) ==
    /\ step[t] = "audit" /\ ~wedged
    /\ AddToAudit(t)
    /\ UNCHANGED <<status, retries, queue, sleeping, active, attempts>>

Deliver(t) == \/ SendOk(t) \/ SendFails(t)
              \/ PushOk(t) \/ PushFails(t) \/ PushRaises(t) \/ LockFree(t)

AlertNext ==
    \/ \E a \in Alerts : QueueAlert(a) \/ SendImmediate(a) \/ RetryDue(a)
    \/ \E t \in Deliverers : Take(t) \/ Deliver(t)
    \/ WorkerLoops \/ StopBegins \/ FlushBegins \/ InsertEnds \/ CancelWorker

(* The event loop runs every task that can go on; awaited calls have time- *)
(* outs.  Nobody has to make alerts or to stop the service.                *)
AlertFairness ==
    /\ \A a \in Alerts : WF_alertVars(RetryDue(a))
    /\ \A t \in Deliverers : WF_alertVars(Take(t)) /\ WF_alertVars(Deliver(t))
    /\ WF_alertVars(WorkerLoops) /\ WF_alertVars(FlushBegins)
    /\ WF_alertVars(InsertEnds) /\ WF_alertVars(CancelWorker)

AlertSpec == AlertInit /\ [][AlertNext]_alertVars /\ AlertFairness

-----------------------------------------------------------------------------
(* Properties                                                              *)

Queued(a) == {i \in DOMAIN queue : queue[i] = a}
Delivering(a) == {t \in Deliverers : hand[t] = a}

(* A sent alert is out of hand but for its audit entry.                    *)
Waiting(a) == /\ status[a] \notin Settled
              /\ \/ Queued(a) # {} \/ a \in sleeping
                 \/ \E t \in Delivering(a) : step[t] = "send"

(* While the service runs, an alert that was made is sent, a dead letter,  *)
(* or has a message to come: between the queue, the tasks and the retries  *)
(* none is lost, and none is given up with messages to spare.              *)
NoneLostRunning ==
    active => \A a \in Alerts :
                  status[a] \notin {"NEW"} \cup Settled => Waiting(a)

(* No alert is in two places, so that it is never sent by two tasks, or    *)
(* once more after it was sent or given up, and never more often than      *)
(* MaxRetries.                                                             *)
SentOnce ==
    \A a \in Alerts :
        /\ Cardinality(Queued(a)) + Cardinality({t \in Delivering(a) : step[t] = "send"})
             + (IF a \in sleeping THEN 1 ELSE 0) \leq 1
        /\ status[a] \in Settled => ~Waiting(a)
        /\ attempts[a] \leq MaxRetries

(* Every delivery that reached the audit buffer is in it, on its way to    *)
(* the audit log, or there.                                                *)
AuditAccounted == entries = buffer + flushing + logged

(* stop() ends, unless a full audit buffer has wedged a task before.       *)
StopEndsAlerts == <>[]~active => <>[](step["stopper"] = "end" \/ wedged)

(* The three together: no alert is lost, sent twice or unaccounted for     *)
(* among the worker, the retries, stop() and the senders.                  *)
AlertsSound == AlertTypeOK /\ NoneLostRunning /\ SentOnce /\ AuditAccounted
=============================================================================
