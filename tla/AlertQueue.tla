------------------------------ MODULE AlertQueue ------------------------------
(***************************************************************************)
(* AlertQueue of src/common/telegram.py with the TelegramNotifier it sends *)
(* by: alerts in a Redis list, taken one at a time by the processing loop, *)
(* retried after a delay and put aside after MAX_RETRIES failures.         *)
(*                                                                         *)
(* Outside: Telegram, which delivers a message or not, and Redis, which    *)
(* may carry a call out and still fail it.  The loop sleeps through the    *)
(* delay of a retry, so that nothing else is sent in the meantime.         *)
(***************************************************************************)
EXTENDS Integers, FiniteSets, Sequences, FiniteSetsExt, SequencesExt

CONSTANTS
    Messages,
    MaxAttempts,    \* MAX_RETRIES (3)
    RetryDelays,    \* RETRY_DELAYS (10, 30, 90), in units of time
    RedisFaults     \* bound: calls of Redis that fail

ASSUME QueueAssumption ==
    /\ IsFiniteSet(Messages) /\ "none" \notin Messages /\ MaxAttempts \in Nat \ {0}
    /\ RetryDelays \in Seq(Nat \ {0}) /\ RetryDelays # <<>>
    /\ RedisFaults \in Nat

VARIABLES
    tradingDay,     \* is_trading_day(): otherwise nothing is sent
    pending,        \* alerts:pending, the newest first: [id, tries]
    putAside,       \* alerts:failed
    looping,        \* the loop: "idle", "sending", "sleeping", or putting "aside"
    taken,          \* the alert it has taken from the list, or NoMessage
    delay,          \* what is left of the delay it sleeps
    again,          \* it is in the except branch, after which no other requeue follows
    enqueued,       \* history: messages that enqueue() accepted
    delivered,      \* history: times each message was delivered
    answered,       \* history: copies that Telegram answered for
    lostMessages,   \* history: copies that are nowhere any more
    doubled,        \* history: copies that a failed call has stored all the same
    redisFaults     \* history

queueVars == <<tradingDay, pending, putAside, looping, taken, delay, again, enqueued, delivered,
               answered, lostMessages, doubled, redisFaults>>

NoMessage == [id |-> "none", tries |-> 0]

QueueInit ==
    /\ tradingDay \in BOOLEAN
    /\ pending = <<>> /\ putAside = <<>>
    /\ looping = "idle" /\ taken = NoMessage /\ delay = 0 /\ again = FALSE
    /\ enqueued = {} /\ delivered = [m \in Messages |-> 0]
    /\ answered = 0 /\ lostMessages = 0 /\ doubled = 0 /\ redisFaults = 0

-----------------------------------------------------------------------------
(* enqueue(): a call that failed is answered with False, and may have      *)
(* stored the alert.                                                       *)
Enqueue(m) ==
    /\ m \notin enqueued
    /\ \/ pending' = <<[id |-> m, tries |-> 0]>> \o pending /\ UNCHANGED redisFaults
       \/ /\ redisFaults < RedisFaults /\ redisFaults' = redisFaults + 1
          /\ pending' = <<[id |-> m, tries |-> 0]>> \o pending
    /\ enqueued' = enqueued \cup {m}
    /\ UNCHANGED <<tradingDay, putAside, looping, taken, delay, again, delivered, answered,
                   lostMessages, doubled>>

(* dequeue(): the oldest; a failed pop may have taken it.                  *)
Dequeue ==
    /\ looping = "idle" /\ pending # <<>>
    /\ \/ /\ looping' = "sending" /\ taken' = Last(pending) /\ pending' = Front(pending)
          /\ UNCHANGED <<lostMessages, redisFaults>>
       \/ /\ redisFaults < RedisFaults /\ redisFaults' = redisFaults + 1
          /\ pending' = Front(pending) /\ lostMessages' = lostMessages + 1
          /\ UNCHANGED <<looping, taken>>
    /\ UNCHANGED <<tradingDay, putAside, delay, again, enqueued, delivered, answered, doubled>>

(* requeue_for_retry() until its sleep or its push.                        *)
Requeued(m) == [m EXCEPT !.tries = @ + 1]
DelayOf(m) ==
    RetryDelays[IF m.tries \leq Len(RetryDelays) THEN m.tries ELSE Len(RetryDelays)]

(* One retry too many.                                                     *)
StartRetryLate(m) ==
    /\ taken' = m
    /\ IF m.tries > MaxAttempts THEN looping' = "aside" /\ delay' = 0
       ELSE looping' = "sleeping" /\ delay' = DelayOf(m)

StartRetry(m) ==
    /\ taken' = m
    /\ IF m.tries >= MaxAttempts THEN looping' = "aside" /\ delay' = 0
       ELSE looping' = "sleeping" /\ delay' = DelayOf(m)

(* process_one(): the message is delivered and acknowledged, delivered and *)
(* the answer is lost, or not delivered; outside trading days it is never. *)
Send ==
    /\ looping = "sending"
    /\ \/ /\ tradingDay /\ delivered' = [delivered EXCEPT ![taken.id] = @ + 1]
          /\ looping' = "idle" /\ taken' = NoMessage /\ UNCHANGED delay
          /\ answered' = answered + 1
       \/ /\ \/ tradingDay /\ delivered' = [delivered EXCEPT ![taken.id] = @ + 1]
             \/ UNCHANGED delivered
          /\ StartRetry(Requeued(taken)) /\ UNCHANGED answered
    /\ again' = FALSE
    /\ UNCHANGED <<tradingDay, pending, putAside, enqueued, lostMessages, doubled, redisFaults>>

SleepOn ==
    /\ looping = "sleeping" /\ delay > 0 /\ delay' = delay - 1
    /\ UNCHANGED <<tradingDay, pending, putAside, looping, taken, again, enqueued, delivered,
                   answered, lostMessages, doubled, redisFaults>>

(* The push at the end of requeue_for_retry(): to the list it is taken     *)
(* from, or to the failed ones.                                            *)
Push ==
    \/ /\ looping = "sleeping" /\ delay = 0
       /\ pending' = <<taken>> \o pending /\ UNCHANGED putAside
    \/ /\ looping = "aside"
       /\ putAside' = <<taken>> \o putAside /\ UNCHANGED pending

PushDone ==
    /\ Push /\ looping' = "idle" /\ taken' = NoMessage /\ again' = FALSE
    /\ UNCHANGED <<tradingDay, delay, enqueued, delivered, answered, lostMessages, doubled,
                   redisFaults>>

(* The push fails, though Redis may have stored the alert.  What is raised *)
(* inside the try of process_one() leads to a second requeue of the same   *)
(* alert; what that one raises ends the pass, and the alert is forgotten.  *)
PushLost ==
    /\ looping \in {"sleeping", "aside"} /\ delay = 0
    /\ redisFaults < RedisFaults /\ redisFaults' = redisFaults + 1
    /\ \E stored \in BOOLEAN :
          /\ IF stored THEN Push ELSE UNCHANGED <<pending, putAside>>
          /\ IF ~again
             THEN /\ StartRetry(Requeued(taken)) /\ again' = TRUE
                  /\ doubled' = doubled + (IF stored THEN 1 ELSE 0) /\ UNCHANGED lostMessages
             ELSE /\ looping' = "idle" /\ taken' = NoMessage /\ again' = FALSE
                  /\ lostMessages' = lostMessages + (IF stored THEN 0 ELSE 1)
                  /\ UNCHANGED <<delay, doubled>>
    /\ UNCHANGED <<tradingDay, enqueued, delivered, answered>>

(* The process ends with the alert it has taken, and comes back.           *)
RestartLoop ==
    /\ taken # NoMessage /\ redisFaults < RedisFaults /\ redisFaults' = redisFaults + 1
    /\ looping' = "idle" /\ taken' = NoMessage /\ delay' = 0 /\ again' = FALSE
    /\ lostMessages' = lostMessages + 1
    /\ UNCHANGED <<tradingDay, pending, putAside, enqueued, delivered, answered, doubled>>

DayTurns ==
    /\ looping = "idle" /\ tradingDay' = TRUE /\ ~tradingDay
    /\ UNCHANGED <<pending, putAside, looping, taken, delay, again, enqueued, delivered,
                   answered, lostMessages, doubled, redisFaults>>

QueueNext ==
    \/ \E m \in Messages : Enqueue(m)
    \/ Dequeue \/ Send \/ SleepOn \/ PushDone \/ PushLost \/ RestartLoop \/ DayTurns

-----------------------------------------------------------------------------
(* Properties                                                              *)

(* Every copy of an alert is in one place, or was lost by a call of Redis  *)
(* that failed or by a crash; a second copy comes of a call that failed    *)
(* and was carried out.                                                    *)
CopiesAccounted ==
    /\ Cardinality(enqueued) + doubled =
          Len(pending) + Len(putAside) + (IF taken = NoMessage THEN 0 ELSE 1)
            + answered + lostMessages
    /\ lostMessages + doubled \leq redisFaults

(* No alert is tried more often than allowed, whatever becomes of the      *)
(* calls in between, and none is put aside before it was; the one that is  *)
(* put aside stays there: nothing reads the failed ones.                   *)
TriesLimited ==
    /\ \A i \in DOMAIN pending : pending[i].tries < MaxAttempts
    /\ \A i \in DOMAIN putAside : putAside[i].tries >= MaxAttempts
    /\ doubled = 0 => \A m \in Messages : delivered[m] \leq MaxAttempts

(* The last of the delays is never slept, as the last failure is not       *)
(* followed by a retry, even when the count of the tries was raised twice. *)
LastDelayUnused ==
    looping = "sleeping" =>
      /\ taken.tries < MaxAttempts
      /\ delay \leq Max({RetryDelays[i] : i \in 1..Min({MaxAttempts - 1, Len(RetryDelays)})})

QueueSound == CopiesAccounted /\ TriesLimited /\ LastDelayUnused
===============================================================================
