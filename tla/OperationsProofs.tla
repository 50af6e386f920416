--------------------------- MODULE OperationsProofs ---------------------------
(***************************************************************************)
(* What the services that watch over the system promise for all values of  *)
(* their constants, one after the other: the circuit breaker for any       *)
(* callers and thresholds, the alert service for any alerts, retries and   *)
(* batches, the health checker for any services and intervals, and the     *)
(* daemon for any days, processes and exceptions.                          *)
(***************************************************************************)
EXTENDS Operations, TLAPS, FiniteSetTheorems

-----------------------------------------------------------------------------
(* The circuit breaker.  Its two counts say nothing by themselves of the   *)
(* latest results: the invariant ties them to the runs of failures and of  *)
(* successes, in the states in which they decide.                          *)

(* Counted failures of a closed circuit are the latest results, and fewer  *)
(* than would open it.                                                     *)
FailuresInARow == circuit = "CLOSED" => failures < FailureThreshold /\ failures <= badRun

(* Counted successes of a half-open one are the latest results, and fewer  *)
(* than would close it.                                                    *)
SuccessesInARow ==
    circuit = "HALF_OPEN" => successes < SuccessThreshold /\ successes <= goodRun

BreakerInv == BreakerTypeOK /\ FailuresInARow /\ SuccessesInARow

-----------------------------------------------------------------------------
(* Counting up to a bound stays within it and keeps an order.              *)
LEMMA UpToFacts ==
    ASSUME NEW bound \in Nat, NEW n \in 0..bound, NEW k \in 0..bound, n <= k
    PROVE  /\ UpTo(n + 1, bound) \in 0..bound
           /\ UpTo(n + 1, bound) <= UpTo(k + 1, bound)
           /\ UpTo(n + 1, bound) < bound => UpTo(n + 1, bound) <= k + 1
BY DEF UpTo

(* The breaker begins closed, with nothing counted.                        *)
LEMMA InitBreakerInv == BreakerInit => BreakerInv
BY BreakerAssumption
   DEF BreakerInit, BreakerInv, BreakerTypeOK, FailuresInARow, SuccessesInARow

(* A call that is let through counts nothing.                              *)
LEMMA EnterKeeps ==
    ASSUME BreakerInv, NEW c \in Callers, Enter(c)  PROVE BreakerInv'
BY BreakerAssumption
   DEF Enter, TransitionTo, BreakerInv, BreakerTypeOK, FailuresInARow, SuccessesInARow

(* A success never opens the circuit, and closes a half-open one only as   *)
(* the last of as many in a row as the threshold says.                     *)
LEMMA SucceedKeeps ==
    ASSUME BreakerInv, NEW c \in Callers, Succeed(c)
    PROVE  /\ BreakerInv'
           /\ circuit = "CLOSED" => circuit' = "CLOSED"
           /\ (circuit = "HALF_OPEN" /\ circuit' = "CLOSED") => goodRun' = SuccessThreshold
<1> DEFINE counted == UpTo(successes + 1, SuccessThreshold)
<1>1. /\ counted \in 0..SuccessThreshold
      /\ UpTo(goodRun + 1, SuccessThreshold) \in 0..SuccessThreshold
      /\ successes <= goodRun => counted <= UpTo(goodRun + 1, SuccessThreshold)
  BY BreakerAssumption DEF BreakerInv, BreakerTypeOK, UpTo
<1>2. /\ calls' = calls \ {c} /\ goodRun' = UpTo(goodRun + 1, SuccessThreshold)
      /\ badRun' = 0
      /\ UNCHANGED <<rested, sound, forced>>
      /\ TransitionTo(
            IF circuit = "HALF_OPEN" /\ counted >= SuccessThreshold THEN "CLOSED"
            ELSE circuit,
            IF circuit = "CLOSED" THEN 0 ELSE failures,
            counted)
  BY DEF Succeed
<1> HIDE DEF counted
<1>3. CASE circuit = "HALF_OPEN" /\ counted >= SuccessThreshold
  <2>1. circuit' = "CLOSED" /\ failures' = 0 /\ successes' = 0
    BY <1>2, <1>3 DEF TransitionTo
  <2>2. goodRun' = SuccessThreshold
    BY <1>1, <1>2, <1>3, BreakerAssumption DEF BreakerInv, SuccessesInARow
  <2> QED
    BY <1>1, <1>2, <2>1, <2>2, <1>3, BreakerAssumption
       DEF BreakerInv, BreakerTypeOK, FailuresInARow, SuccessesInARow
<1>4. CASE ~(circuit = "HALF_OPEN" /\ counted >= SuccessThreshold)
  <2>1. /\ circuit' = circuit /\ successes' = counted
        /\ failures' = IF circuit = "CLOSED" THEN 0 ELSE failures
    BY <1>2, <1>4 DEF TransitionTo
  <2> QED
    BY <1>1, <1>2, <2>1, <1>4, BreakerAssumption
       DEF BreakerInv, BreakerTypeOK, FailuresInARow, SuccessesInARow
<1> QED
  BY <1>3, <1>4

(* A failure never closes the circuit, and opens a closed one only as the  *)
(* last of as many in a row as the threshold says.                         *)
LEMMA FailKeeps ==
    ASSUME BreakerInv, NEW c \in Callers, Fail(c)
    PROVE  /\ BreakerInv'
           /\ circuit = "HALF_OPEN" => circuit' # "CLOSED"
           /\ (circuit = "CLOSED" /\ circuit' = "OPEN") => badRun' = FailureThreshold
<1> DEFINE counted == UpTo(failures + 1, FailureThreshold)
           opens == \/ circuit = "HALF_OPEN"
                    \/ circuit = "CLOSED" /\ counted >= FailureThreshold
<1>1. /\ counted \in 0..FailureThreshold
      /\ UpTo(badRun + 1, FailureThreshold) \in 0..FailureThreshold
      /\ failures <= badRun => counted <= UpTo(badRun + 1, FailureThreshold)
  BY BreakerAssumption DEF BreakerInv, BreakerTypeOK, UpTo
<1>2. /\ calls' = calls \ {c} /\ badRun' = UpTo(badRun + 1, FailureThreshold)
      /\ goodRun' = 0 /\ rested' = 0
      /\ UNCHANGED <<sound, forced>>
      /\ TransitionTo(IF opens THEN "OPEN" ELSE circuit, counted, successes)
  BY DEF Fail
<1> HIDE DEF counted
<1>3. CASE opens
  <2>1. circuit' = "OPEN" /\ failures' = 0 /\ successes' = 0
    BY <1>2, <1>3 DEF TransitionTo
  <2>2. circuit = "CLOSED" => badRun' = FailureThreshold
    BY <1>1, <1>2, <1>3, BreakerAssumption DEF BreakerInv, FailuresInARow
  <2> QED
    BY <1>1, <1>2, <2>1, <2>2, BreakerAssumption
       DEF BreakerInv, BreakerTypeOK, FailuresInARow, SuccessesInARow
<1>4. CASE ~opens
  <2>1. circuit' = circuit /\ failures' = counted /\ successes' = successes
    BY <1>2, <1>4 DEF TransitionTo
  <2> QED
    BY <1>1, <1>2, <2>1, <1>4, BreakerAssumption
       DEF BreakerInv, BreakerTypeOK, FailuresInARow, SuccessesInARow
<1> QED
  BY <1>3, <1>4

(* A reset, a forced opening, time and the service's own changes.          *)
LEMMA OthersKeep ==
    ASSUME BreakerInv, Reset \/ ForceOpen \/ Elapse \/ ServiceChanges
    PROVE  BreakerInv'
<1>1. CASE Reset
  BY <1>1, BreakerAssumption
     DEF Reset, BreakerInv, BreakerTypeOK, FailuresInARow, SuccessesInARow
<1>2. CASE ForceOpen
  BY <1>2, BreakerAssumption
     DEF ForceOpen, TransitionTo, BreakerInv, BreakerTypeOK, FailuresInARow, SuccessesInARow
<1>3. CASE Elapse
  BY <1>3, BreakerAssumption
     DEF Elapse, BreakerInv, BreakerTypeOK, FailuresInARow, SuccessesInARow
<1>4. CASE ServiceChanges
  <2>1. sound' \in BOOLEAN
    BY <1>4 DEF ServiceChanges
  <2> QED
    BY <1>4, <2>1
       DEF ServiceChanges, BreakerInv, BreakerTypeOK, FailuresInARow, SuccessesInARow
<1> QED
  BY <1>1, <1>2, <1>3, <1>4

-----------------------------------------------------------------------------
(* Every step of the breaker and of its callers keeps the invariant.       *)
LEMMA BreakerKeeps == BreakerInv /\ [BreakerNext]_breakerVars => BreakerInv'
<1> SUFFICES ASSUME BreakerInv, [BreakerNext]_breakerVars PROVE BreakerInv'
  OBVIOUS
<1>1. CASE \E c \in Callers : Enter(c) \/ Succeed(c) \/ Fail(c)
  BY <1>1, EnterKeeps, SucceedKeeps, FailKeeps
<1>2. CASE Reset \/ ForceOpen \/ Elapse \/ ServiceChanges
  BY <1>2, OthersKeep
<1>3. CASE UNCHANGED breakerVars
  BY <1>3 DEF breakerVars, BreakerInv, BreakerTypeOK, FailuresInARow, SuccessesInARow
<1> QED
  BY <1>1, <1>2, <1>3 DEF BreakerNext

(* Counts stay within their thresholds, and in the states in which they    *)
(* decide they are runs of the latest results.                             *)
THEOREM BreakerInvariant == BreakerSpec => []BreakerInv
BY InitBreakerInv, BreakerKeeps, PTL DEF BreakerSpec

(* A step that changes the state of the circuit has the results it takes.  *)
LEMMA TransitionEarned ==
    ASSUME BreakerInv, BreakerNext, forced' = forced
    PROVE  /\ (circuit = "CLOSED" /\ circuit' = "OPEN") => badRun' = FailureThreshold
           /\ (circuit = "HALF_OPEN" /\ circuit' = "CLOSED")
                 => goodRun' = SuccessThreshold
<1>1. CASE \E c \in Callers : Enter(c)
  <2>1. circuit = "OPEN" \/ circuit' = circuit
    BY <1>1 DEF Enter, TransitionTo
  <2> QED
    BY <2>1
<1>2. CASE \E c \in Callers : Succeed(c)
  BY <1>2, SucceedKeeps
<1>3. CASE \E c \in Callers : Fail(c)
  BY <1>3, FailKeeps
<1>4. CASE Reset \/ ForceOpen
  <2>1. forced' # forced
    BY <1>4, BreakerAssumption DEF Reset, ForceOpen, BreakerInv, BreakerTypeOK
  <2> QED
    BY <2>1
<1>5. CASE Elapse \/ ServiceChanges
  BY <1>5 DEF Elapse, ServiceChanges
<1> QED
  BY <1>1, <1>2, <1>3, <1>4, <1>5 DEF BreakerNext

(* Results of calls let through before a change of state never open or     *)
(* close the circuit on their own: whatever the thresholds and however     *)
(* many callers, it takes as many results in a row as the threshold says.  *)
THEOREM TransitionsAreEarned == BreakerSpec => TransitionsEarned
<1>1. ASSUME BreakerInv, [BreakerNext]_breakerVars
      PROVE  [forced' = forced =>
                 /\ (circuit = "CLOSED" /\ circuit' = "OPEN") => badRun' = FailureThreshold
                 /\ (circuit = "HALF_OPEN" /\ circuit' = "CLOSED")
                       => goodRun' = SuccessThreshold]_breakerVars
  BY <1>1, TransitionEarned
<1> QED
  BY <1>1, BreakerInvariant, PTL DEF BreakerSpec, TransitionsEarned

-----------------------------------------------------------------------------
(* The alert service.  An alert that is to be sent is in one place, which  *)
(* its status names: PENDING in the queue or in the hands of a task that   *)
(* sends it, FAILED with the timer of its retry.                           *)

Carrying == {"send", "push", "push again", "audit", "wedged"}
Pushing  == {"push", "push again"}

HandsFull == \A t \in Deliverers : hand[t] # NoAlert <=> step[t] \in Carrying

QueueIsPending ==
    /\ \A i, j \in DOMAIN queue : queue[i] = queue[j] => i = j
    /\ \A i \in DOMAIN queue : status[queue[i]] = "PENDING"

SendersAlone ==
    \A t \in Deliverers : step[t] = "send" =>
        /\ status[hand[t]] = "PENDING"
        /\ \A i \in DOMAIN queue : queue[i] # hand[t]
        /\ \A u \in Deliverers : step[u] = "send" /\ hand[u] = hand[t] => u = t

SleepersFailed == \A a \in sleeping : status[a] = "FAILED"

(* A dead letter is pushed by the one task whose failure made it one.      *)
PushersAlone ==
    \A t \in Deliverers : step[t] \in Pushing =>
        /\ status[hand[t]] = "DEAD_LETTER"
        /\ step[t] = "push" => retries[hand[t]] = MaxRetries
        /\ \A u \in Deliverers : step[u] \in Pushing /\ hand[u] = hand[t] => u = t

(* Until an alert is settled, retry_count is the number of its messages.   *)
RetriesCount ==
    \A a \in Alerts :
        /\ attempts[a] <= MaxRetries
        /\ status[a] \notin Settled => attempts[a] = retries[a] /\ retries[a] < MaxRetries

(* stop() is not under way while the service runs, and it holds entries of *)
(* the audit buffer only while it inserts them.                            *)
StopperIdle == active => step["stopper"] = "free"
FlushedIsInserted == step["stopper"] # "insert" => flushing = 0

Placed == HandsFull /\ QueueIsPending /\ SendersAlone /\ SleepersFailed /\ PushersAlone

AlertInv ==
    /\ AlertTypeOK /\ Placed /\ RetriesCount
    /\ StopperIdle /\ FlushedIsInserted
    /\ NoneLostRunning /\ AuditAccounted

(* Where an alert that is not settled waits, before a step and after it.   *)
LEMMA WaitingIs ==
    ASSUME NEW a \in Alerts
    PROVE  /\ Waiting(a) <=> /\ status[a] \notin Settled
                             /\ \/ \E i \in DOMAIN queue : queue[i] = a
                                \/ a \in sleeping
                                \/ \E t \in Deliverers : step[t] = "send" /\ hand[t] = a
           /\ Waiting(a)' <=> /\ status'[a] \notin Settled
                              /\ \/ \E i \in DOMAIN queue' : queue'[i] = a
                                 \/ a \in sleeping'
                                 \/ \E t \in Deliverers : step'[t] = "send" /\ hand'[t] = a
  BY DEF Waiting, Queued, Delivering

(* What a task that is done with an alert, or waits for the audit lock     *)
(* with it, changes: its own step and hand, and the audit's counts.        *)
LEMMA AddToAuditIs ==
    ASSUME AlertTypeOK, HandsFull, AuditAccounted, FlushedIsInserted,
           NEW t \in Deliverers, step[t] \in Carrying, AddToAudit(t)
    PROVE  /\ \A u \in Deliverers \ {t} : step'[u] = step[u] /\ hand'[u] = hand[u]
           /\ step' \in [Deliverers -> {"free", "send", "push", "push again", "audit",
                           "wedged", "pause", "drain", "flush", "insert", "end"}]
           /\ hand' \in [Deliverers -> Alerts \cup {NoAlert}]
           /\ \/ step'[t] \in {"audit", "wedged"} /\ hand'[t] = hand[t]
              \/ step'[t] = Resting(t) /\ hand'[t] = NoAlert
           /\ buffer' \in Nat /\ flushing' = flushing /\ entries' \in Nat
           /\ logged' = logged /\ wedged' \in BOOLEAN
           /\ AuditAccounted'
           /\ FlushedIsInserted'
  <1>0. buffer \in Nat /\ flushing \in Nat /\ entries \in Nat /\ logged \in Nat
    BY DEF AlertTypeOK
  <1>1. CASE wedged
    <2>1. /\ step' = [step EXCEPT ![t] = "audit"] /\ hand' = hand
          /\ UNCHANGED <<buffer, flushing, wedged, entries, logged>>
      BY <1>1 DEF AddToAudit, auditVars
    <2>2. /\ step \in [Deliverers -> {"free", "send", "push", "push again", "audit",
                           "wedged", "pause", "drain", "flush", "insert", "end"}]
          /\ hand \in [Deliverers -> Alerts \cup {NoAlert}] /\ wedged \in BOOLEAN
      BY DEF AlertTypeOK
    <2>3. step[t] # "insert"
      BY DEF Carrying
    <2>4. step'["stopper"] # "insert" => step["stopper"] # "insert"
      BY <2>1, <2>2, <2>3 DEF Deliverers
    <2>5. AuditAccounted' /\ FlushedIsInserted'
      BY <2>1, <2>4 DEF AuditAccounted, FlushedIsInserted
    <2>6. /\ \A u \in Deliverers \ {t} : step'[u] = step[u]
          /\ step'[t] = "audit"
          /\ step' \in [Deliverers -> {"free", "send", "push", "push again", "audit",
                           "wedged", "pause", "drain", "flush", "insert", "end"}]
      BY <2>1, <2>2
    <2>. QED
      BY <1>0, <2>1, <2>2, <2>5, <2>6
  <1>2. CASE ~wedged
    <2>1. /\ entries' = entries + 1 /\ buffer' = buffer + 1
          /\ UNCHANGED <<flushing, logged>>
      BY <1>2 DEF AddToAudit
    <2>2. AuditAccounted' /\ buffer' \in Nat /\ entries' \in Nat
      BY <1>0, <2>1 DEF AuditAccounted
    <2>3. PICK f \in {"wedged", Resting(t)} :
                /\ step' = [step EXCEPT ![t] = f]
                /\ \/ f = "wedged" /\ hand' = hand /\ wedged' = TRUE
                   \/ f = Resting(t) /\ hand' = [hand EXCEPT ![t] = NoAlert] /\ wedged' = wedged
      BY <1>2 DEF AddToAudit
    <2>4. f \in {"wedged", "drain", "free"}
      BY <2>3 DEF Resting
    <2>5. /\ \A u \in Deliverers \ {t} : step'[u] = step[u] /\ hand'[u] = hand[u]
          /\ step' \in [Deliverers -> {"free", "send", "push", "push again", "audit",
                           "wedged", "pause", "drain", "flush", "insert", "end"}]
          /\ hand' \in [Deliverers -> Alerts \cup {NoAlert}]
          /\ wedged' \in BOOLEAN
          /\ step'[t] = f
          /\ \/ f = "wedged" /\ hand'[t] = hand[t]
             \/ f = Resting(t) /\ hand'[t] = NoAlert
      BY <2>3, <2>4 DEF AlertTypeOK
    <2>6. step["stopper"] = "insert" => step'["stopper"] = "insert"
      BY <2>5 DEF Deliverers, Carrying
    <2>7. FlushedIsInserted'
      BY <2>1, <2>6 DEF FlushedIsInserted
    <2>. QED
      BY <2>1, <2>2, <2>5, <2>7
  <1>. QED
    BY <1>1, <1>2

(* The counts of an alert are numbers.                                     *)
LEMMA AlertNumbers ==
    ASSUME AlertTypeOK, NEW a \in Alerts
    PROVE  /\ retries[a] \in 0..MaxRetries + 1 /\ retries[a] \in Nat
           /\ attempts[a] \in Nat /\ MaxRetries \in Nat /\ MaxRetries > 0
  <1>1. retries[a] \in 0..MaxRetries + 1 /\ attempts[a] \in Nat
    BY DEF AlertTypeOK
  <1>2. MaxRetries \in Nat /\ MaxRetries > 0
    BY AlertAssumption
  <1>. QED
    BY <1>1, <1>2

(* What holds of the task that carries an alert, and of the alert.         *)
LEMMA CarriedIs ==
    ASSUME AlertInv, NEW t \in Deliverers, step[t] \in Carrying
    PROVE  /\ hand[t] \in Alerts /\ hand[t] # NoAlert
           /\ t = "stopper" => ~active
           /\ step[t] = "send" => /\ status[hand[t]] = "PENDING"
                                  /\ hand[t] \notin sleeping
                                  /\ attempts[hand[t]] = retries[hand[t]]
                                  /\ retries[hand[t]] < MaxRetries
  <1>1. hand[t] \in Alerts /\ hand[t] # NoAlert
    BY DEF AlertInv, AlertTypeOK, Placed, HandsFull
  <1>2. t = "stopper" => ~active
    BY DEF AlertInv, StopperIdle, Carrying
  <1>3. step[t] = "send" => status[hand[t]] = "PENDING"
    BY DEF AlertInv, Placed, SendersAlone
  <1>. QED
    BY <1>1, <1>2, <1>3 DEF AlertInv, Placed, SleepersFailed, RetriesCount, Settled

(* A task that no longer sends or pushes what it had in hand, the status   *)
(* of which has been seen to.                                              *)
Released(t) ==
    /\ \A u \in Deliverers \ {t} : step'[u] = step[u] /\ hand'[u] = hand[u]
    /\ \/ step'[t] \in {"audit", "wedged"} /\ hand'[t] = hand[t]
       \/ step'[t] \in {"free", "drain", "pause", "end"} /\ hand'[t] = NoAlert

(* An alert that its task lets go is settled, failed or of a next attempt, *)
(* and the others are where they were.                                     *)
LEMMA ReleasedKeeps ==
    ASSUME AlertInv, NEW t \in Deliverers, step[t] \in Carrying, Released(t),
           AlertTypeOK', UNCHANGED <<queue, active>>,
           \A a \in Alerts \ {hand[t]} :
               UNCHANGED <<status[a], retries[a], attempts[a]>> /\ (a \in sleeping' <=> a \in sleeping),
           step[t] # "send" => UNCHANGED <<status, attempts, retries, sleeping>>,
           step[t] = "send" =>
               \/ status'[hand[t]] = "SENT" /\ hand[t] \notin sleeping'
               \/ status'[hand[t]] = "FAILED" /\ hand[t] \in sleeping',
           attempts'[hand[t]] <= MaxRetries,
           status'[hand[t]] = "FAILED" => attempts'[hand[t]] = retries'[hand[t]]
                                          /\ retries'[hand[t]] < MaxRetries
    PROVE  Placed' /\ RetriesCount' /\ StopperIdle' /\ NoneLostRunning'
  <1> DEFINE h == hand[t]
  <1>1. h \in Alerts /\ h # NoAlert /\ (t = "stopper" => ~active)
    BY CarriedIs
  <1>2. /\ \A i \in DOMAIN queue : queue[i] \in Alerts
        /\ \A u \in Deliverers : step[u] \in Carrying => hand[u] \in Alerts
    <2>1. \A i \in DOMAIN queue : queue[i] \in Alerts
      <3>1. queue \in Seq(Alerts)
        BY DEF AlertInv, AlertTypeOK
      <3>. QED
        BY <3>1
    <2>. QED
      BY <2>1, CarriedIs
  <1>3. /\ step[t] = "send" =>
             /\ status[h] = "PENDING" /\ h \notin sleeping
             /\ \A i \in DOMAIN queue : queue[i] # h
             /\ \A u \in Deliverers : step[u] = "send" /\ hand[u] = h => u = t
        /\ \A u \in Deliverers : step[u] \in Pushing => status[hand[u]] = "DEAD_LETTER"
    BY CarriedIs DEF AlertInv, Placed, SendersAlone, PushersAlone
  <1>4. HandsFull'
    BY <1>1 DEF Released, AlertInv, Placed, HandsFull, Carrying
  <1>5. QueueIsPending'
    BY <1>2, <1>3 DEF AlertInv, Placed, QueueIsPending
  <1>6. SendersAlone'
    <2>1. ASSUME NEW u \in Deliverers, step'[u] = "send"
          PROVE  u # t /\ step[u] = "send" /\ hand'[u] = hand[u]
      BY <2>1 DEF Released
    <2>2. ASSUME NEW u \in Deliverers, step[u] = "send", u # t
          PROVE  /\ status'[hand[u]] = "PENDING"
                 /\ \A i \in DOMAIN queue : queue[i] # hand[u]
      <3>1. hand[u] \in Alerts /\ status[hand[u]] = "PENDING"
        BY <1>2, <2>2 DEF AlertInv, Placed, SendersAlone, Carrying
      <3>2. status'[hand[u]] = status[hand[u]]
        BY <1>3, <2>2, <3>1
      <3>. QED
        BY <2>2, <3>1, <3>2 DEF AlertInv, Placed, SendersAlone
    <2>3. ASSUME NEW u \in Deliverers, step'[u] = "send",
                 NEW v \in Deliverers, step'[v] = "send", hand'[v] = hand'[u]
          PROVE  v = u
      BY <2>1, <2>3 DEF AlertInv, Placed, SendersAlone
    <2>. QED
      BY <2>1, <2>2, <2>3 DEF SendersAlone
  <1>7. SleepersFailed'
    BY DEF AlertInv, Placed, SleepersFailed, AlertTypeOK
  <1>8. PushersAlone'
    <2>1. ASSUME NEW u \in Deliverers, step'[u] \in Pushing
          PROVE  u # t /\ step[u] \in Pushing /\ step'[u] = step[u] /\ hand'[u] = hand[u]
      BY <2>1 DEF Released, Pushing
    <2>2. ASSUME NEW u \in Deliverers, step[u] \in Pushing, u # t
          PROVE  status'[hand[u]] = status[hand[u]] /\ retries'[hand[u]] = retries[hand[u]]
      <3>1. hand[u] \in Alerts /\ status[hand[u]] = "DEAD_LETTER"
        BY <1>2, <1>3, <2>2 DEF Pushing, Carrying
      <3>. QED
        BY <1>3, <2>2, <3>1
    <2>3. ASSUME NEW u \in Deliverers, step'[u] \in Pushing,
                 NEW v \in Deliverers, step'[v] \in Pushing, hand'[v] = hand'[u]
          PROVE  v = u
      BY <2>1, <2>3 DEF AlertInv, Placed, PushersAlone
    <2>. QED
      BY <2>1, <2>2, <2>3 DEF AlertInv, Placed, PushersAlone
  <1>9. RetriesCount'
    BY DEF AlertInv, RetriesCount, AlertTypeOK, Settled
  <1>10. StopperIdle'
    BY <1>1 DEF Released, AlertInv, StopperIdle, Deliverers
  <1>11. NoneLostRunning'
    <2> SUFFICES ASSUME active', NEW a \in Alerts, status'[a] \notin {"NEW"} \cup Settled
                 PROVE  Waiting(a)'
      BY DEF NoneLostRunning
    <2>2. CASE a = h
      <3>1. CASE step[t] = "send"
        BY <2>2, <3>1, WaitingIs DEF Settled
      <3>2. CASE step[t] # "send"
        <4>1. Waiting(a) /\ UNCHANGED <<status, attempts, retries, sleeping>>
          BY <3>2 DEF AlertInv, NoneLostRunning
        <4>. QED
          BY <3>2, <4>1, WaitingIs DEF Released
      <3>. QED
        BY <3>1, <3>2
    <2>3. CASE a # h
      <3>1. Waiting(a)
        BY <2>3 DEF AlertInv, NoneLostRunning
      <3>. QED
        BY <2>3, <3>1, WaitingIs DEF Released
    <2>. QED
      BY <2>2, <2>3
  <1>. QED
    BY <1>4, <1>5, <1>6, <1>7, <1>8, <1>9, <1>10, <1>11 DEF Placed

(* A message was answered, or a dead letter was pushed: the alert goes on  *)
(* to the audit buffer, at once or when its lock is free.                  *)
LEMMA AuditedKeeps ==
    ASSUME AlertInv, NEW t \in Deliverers,
           \/ SendOk(t)
           \/ SendFails(t) /\ retries[hand[t]] + 1 < MaxRetries
           \/ PushOk(t) \/ LockFree(t)
    PROVE  AlertInv'
  <1> DEFINE h == hand[t]
  <1>1. step[t] \in Carrying /\ AddToAudit(t)
    <2>1. CASE SendFails(t) /\ retries[hand[t]] + 1 < MaxRetries
      <3>1. retries[h] \in Nat /\ MaxRetries \in Nat
        <4>1. h \in Alerts
          BY <2>1, CarriedIs DEF SendFails, Carrying
        <4>. QED
          BY <4>1, AlertNumbers DEF AlertInv
      <3>. QED
        BY <2>1, <3>1 DEF SendFails, Carrying
    <2>. QED
      BY <2>1 DEF SendOk, PushOk, LockFree, Carrying
  <1>2. /\ h \in Alerts /\ h # NoAlert
        /\ step[t] = "send" => /\ status[h] = "PENDING" /\ h \notin sleeping
                               /\ attempts[h] = retries[h] /\ retries[h] < MaxRetries
    BY <1>1, CarriedIs
  <1>3. AlertTypeOK /\ HandsFull /\ AuditAccounted /\ FlushedIsInserted
    BY DEF AlertInv, Placed
  <1>4. /\ \A u \in Deliverers \ {t} : step'[u] = step[u] /\ hand'[u] = hand[u]
        /\ step' \in [Deliverers -> {"free", "send", "push", "push again", "audit",
                        "wedged", "pause", "drain", "flush", "insert", "end"}]
        /\ hand' \in [Deliverers -> Alerts \cup {NoAlert}]
        /\ \/ step'[t] \in {"audit", "wedged"} /\ hand'[t] = hand[t]
           \/ step'[t] = Resting(t) /\ hand'[t] = NoAlert
        /\ buffer' \in Nat /\ flushing' = flushing /\ entries' \in Nat
        /\ logged' = logged /\ wedged' \in BOOLEAN
        /\ AuditAccounted'
        /\ FlushedIsInserted'
    BY <1>1, <1>3, AddToAuditIs
  <1>5. Released(t)
    BY <1>4 DEF Released, Resting
  <1>6. /\ attempts[h] \in Nat /\ attempts[h] <= MaxRetries
        /\ retries[h] \in Nat /\ MaxRetries \in Nat
        /\ status[h] # "FAILED" \/ step[t] # "send"
    BY <1>2, AlertNumbers DEF AlertInv, RetriesCount
  <1>7. /\ UNCHANGED <<queue, active>>
        /\ \A a \in Alerts \ {h} :
               UNCHANGED <<status[a], retries[a], attempts[a]>> /\ (a \in sleeping' <=> a \in sleeping)
        /\ step[t] # "send" => UNCHANGED <<status, attempts, retries, sleeping>>
        /\ status' \in [Alerts -> {"NEW", "PENDING", "SENT", "FAILED", "DEAD_LETTER"}]
        /\ retries' \in [Alerts -> 0..MaxRetries + 1]
        /\ attempts' \in [Alerts -> Nat]
        /\ sleeping' \subseteq Alerts
        /\ step[t] = "send" =>
               /\ attempts'[h] = attempts[h] + 1
               /\ \/ status'[h] = "SENT" /\ h \notin sleeping'
                  \/ /\ status'[h] = "FAILED" /\ h \in sleeping'
                     /\ retries'[h] = retries[h] + 1 /\ retries[h] + 1 < MaxRetries
    <2>1. CASE SendOk(t)
      <3>1. /\ status' = [status EXCEPT ![h] = "SENT"]
            /\ attempts' = [attempts EXCEPT ![h] = @ + 1]
            /\ UNCHANGED <<retries, queue, sleeping, active>> /\ step[t] = "send"
        BY <2>1 DEF SendOk
      <3>2. attempts' \in [Alerts -> Nat]
        <4>1. attempts[h] + 1 \in Nat
          BY <1>6
        <4>. QED
          BY <3>1, <4>1 DEF AlertInv, AlertTypeOK
      <3>. QED
        BY <1>2, <3>1, <3>2 DEF AlertInv, AlertTypeOK
    <2>2. CASE SendFails(t) /\ retries[hand[t]] + 1 < MaxRetries
      <3>1. ~(retries[h] + 1 >= MaxRetries)
        BY <1>6, <2>2
      <3>2. /\ attempts' = [attempts EXCEPT ![h] = @ + 1]
            /\ retries' = [retries EXCEPT ![h] = @ + 1]
            /\ status' = [status EXCEPT ![h] = "FAILED"]
            /\ sleeping' = sleeping \cup {h}
            /\ UNCHANGED <<queue, active>> /\ step[t] = "send"
        BY <2>2, <3>1 DEF SendFails
      <3>3. retries' \in [Alerts -> 0..MaxRetries + 1]
        <4>1. retries[h] + 1 \in 0..MaxRetries + 1
          BY <1>6, <2>2
        <4>. QED
          BY <3>2, <4>1 DEF AlertInv, AlertTypeOK
      <3>4. attempts' \in [Alerts -> Nat]
        <4>1. attempts[h] + 1 \in Nat
          BY <1>6
        <4>. QED
          BY <3>2, <4>1 DEF AlertInv, AlertTypeOK
      <3>5. /\ status' \in [Alerts -> {"NEW", "PENDING", "SENT", "FAILED", "DEAD_LETTER"}]
            /\ sleeping' \subseteq Alerts
        BY <1>2, <3>2 DEF AlertInv, AlertTypeOK
      <3>6. /\ attempts'[h] = attempts[h] + 1
            /\ status'[h] = "FAILED" /\ h \in sleeping'
            /\ retries'[h] = retries[h] + 1
        BY <1>2, <3>2 DEF AlertInv, AlertTypeOK
      <3>7. \A a \in Alerts \ {h} :
               UNCHANGED <<status[a], retries[a], attempts[a]>> /\ (a \in sleeping' <=> a \in sleeping)
        BY <1>2, <3>2 DEF AlertInv, AlertTypeOK
      <3>. QED
        BY <2>2, <3>2, <3>3, <3>4, <3>5, <3>6, <3>7
    <2>3. CASE PushOk(t) \/ LockFree(t)
      BY <2>3 DEF PushOk, LockFree, AlertInv, AlertTypeOK
    <2>. QED
      BY <2>1, <2>2, <2>3
  <1>8. AlertTypeOK'
    BY <1>4, <1>7 DEF AlertInv, AlertTypeOK
  <1>9. /\ attempts'[h] <= MaxRetries
        /\ status'[h] = "FAILED" => attempts'[h] = retries'[h] /\ retries'[h] < MaxRetries
    <2>1. CASE step[t] = "send"
      BY <1>2, <1>6, <1>7, <2>1
    <2>2. CASE step[t] # "send"
      BY <1>2, <1>6, <1>7, <2>2 DEF AlertInv, RetriesCount, Settled
    <2>. QED
      BY <2>1, <2>2
  <1>10. Placed' /\ RetriesCount' /\ StopperIdle' /\ NoneLostRunning'
    BY <1>1, <1>5, <1>7, <1>8, <1>9, ReleasedKeeps
  <1>. QED
    BY <1>4, <1>8, <1>10 DEF AlertInv

(* Nobody gives up a dead letter before its second failed push.            *)
LEMMA PushRaisesKeeps ==
    ASSUME AlertInv, NEW t \in Deliverers, PushRaises(t)
    PROVE  AlertInv'
  <1>1. /\ step[t] = "push again" /\ hand' = [hand EXCEPT ![t] = NoAlert]
        /\ UNCHANGED <<status, retries, queue, sleeping, active, attempts,
                       buffer, flushing, wedged, entries, logged>>
    BY DEF PushRaises, auditVars
  <1>2. PICK f \in {"pause", "end", "free"} : step' = [step EXCEPT ![t] = f]
    BY DEF PushRaises
  <1>3. AlertTypeOK' /\ AuditAccounted'
    BY <1>1, <1>2 DEF AlertInv, AlertTypeOK, AuditAccounted
  <1>4. Released(t) /\ step[t] \in Carrying /\ hand[t] \in Alerts
    BY <1>1, <1>2, CarriedIs DEF Released, AlertInv, AlertTypeOK, Carrying
  <1>5. FlushedIsInserted'
    BY <1>1, <1>4 DEF Released, Deliverers, AlertInv, FlushedIsInserted
  <1>6. attempts'[hand[t]] <= MaxRetries /\ status'[hand[t]] = "DEAD_LETTER"
    BY <1>1, <1>4 DEF AlertInv, RetriesCount, Placed, PushersAlone, Pushing
  <1>. QED
    BY <1>1, <1>3, <1>4, <1>5, <1>6, ReleasedKeeps DEF AlertInv

(* The failure that makes a dead letter, and a failed push: the alert      *)
(* stays in the task's hands, to be pushed.                                *)
LEMMA PushingKeeps ==
    ASSUME AlertInv, NEW t \in Deliverers,
           \/ SendFails(t) /\ retries[hand[t]] + 1 >= MaxRetries
           \/ PushFails(t)
    PROVE  AlertInv'
  <1> DEFINE h == hand[t]
  <1>1. /\ step[t] \in {"send", "push"} /\ step[t] \in Carrying
        /\ UNCHANGED <<queue, hand, sleeping, active, buffer, flushing, wedged, entries, logged>>
        /\ retries' = [retries EXCEPT ![h] = @ + 1]
    BY DEF SendFails, PushFails, auditVars, Carrying
  <1>2. /\ h \in Alerts /\ retries[h] \in Nat /\ attempts[h] \in Nat
        /\ MaxRetries \in Nat /\ MaxRetries > 0
    BY <1>1, CarriedIs, AlertNumbers DEF AlertInv
  <1>3. PICK f \in Pushing : step' = [step EXCEPT ![t] = f] /\ (f = "push" <=> step[t] = "send")
    BY DEF SendFails, PushFails, Pushing
  <1>4. step[t] = "send" =>
           /\ status' = [status EXCEPT ![h] = "DEAD_LETTER"]
           /\ attempts' = [attempts EXCEPT ![h] = @ + 1]
           /\ retries[h] + 1 = MaxRetries /\ attempts[h] = retries[h]
           /\ status[h] = "PENDING" /\ h \notin sleeping
           /\ \A i \in DOMAIN queue : queue[i] # h
           /\ \A u \in Deliverers : step[u] = "send" /\ hand[u] = h => u = t
    <2>1. step[t] = "send" => retries[h] < MaxRetries /\ attempts[h] = retries[h]
                              /\ status[h] = "PENDING" /\ h \notin sleeping
      BY <1>1, CarriedIs
    <2>2. step[t] = "send" => SendFails(t) /\ retries[h] + 1 >= MaxRetries
      BY DEF PushFails
    <2>3. step[t] = "send" => retries[h] + 1 = MaxRetries
      BY <1>2, <2>1, <2>2
    <2>. QED
      BY <2>1, <2>2, <2>3 DEF SendFails, AlertInv, Placed, SendersAlone
  <1>5. step[t] = "push" =>
           /\ UNCHANGED <<status, attempts>> /\ retries[h] = MaxRetries
           /\ status[h] = "DEAD_LETTER"
           /\ \A u \in Deliverers : step[u] \in Pushing /\ hand[u] = h => u = t
    BY DEF SendFails, PushFails, AlertInv, Placed, PushersAlone, Pushing
  <1>6. /\ \A a \in Alerts \ {h} :
              /\ status'[a] = status[a] /\ attempts'[a] = attempts[a]
              /\ retries'[a] = retries[a]
        /\ status'[h] = "DEAD_LETTER" /\ attempts'[h] <= MaxRetries
        /\ retries'[h] = retries[h] + 1
    <2>1. attempts[h] <= MaxRetries
      BY <1>2 DEF AlertInv, RetriesCount
    <2>2. CASE step[t] = "send"
      <3>1. /\ attempts'[h] = attempts[h] + 1 /\ retries'[h] = retries[h] + 1
            /\ status'[h] = "DEAD_LETTER"
        BY <1>1, <1>2, <1>4, <2>2 DEF AlertInv, AlertTypeOK
      <3>2. attempts'[h] <= MaxRetries
        BY <1>2, <1>4, <2>2, <3>1
      <3>3. \A a \in Alerts \ {h} :
              /\ status'[a] = status[a] /\ attempts'[a] = attempts[a]
              /\ retries'[a] = retries[a]
        BY <1>1, <1>2, <1>4, <2>2 DEF AlertInv, AlertTypeOK
      <3>. QED
        BY <3>1, <3>2, <3>3
    <2>3. CASE step[t] = "push"
      BY <1>1, <1>2, <1>5, <2>1, <2>3 DEF AlertInv, AlertTypeOK
    <2>. QED
      BY <1>1, <2>2, <2>3
  <1>7. AlertTypeOK'
    <2>1. retries[h] + 1 \in 0..MaxRetries + 1 /\ attempts[h] + 1 \in Nat
      BY <1>1, <1>2, <1>4, <1>5
    <2>2. retries' \in [Alerts -> 0..MaxRetries + 1]
      BY <1>1, <2>1 DEF AlertInv, AlertTypeOK
    <2>3. attempts' \in [Alerts -> Nat]
      BY <1>1, <1>4, <1>5, <2>1 DEF AlertInv, AlertTypeOK
    <2>4. /\ status' \in [Alerts -> {"NEW", "PENDING", "SENT", "FAILED", "DEAD_LETTER"}]
          /\ step' \in [Deliverers -> {"free", "send", "push", "push again", "audit",
                           "wedged", "pause", "drain", "flush", "insert", "end"}]
      BY <1>1, <1>3, <1>4, <1>5 DEF AlertInv, AlertTypeOK, Pushing
    <2>. QED
      BY <1>1, <2>2, <2>3, <2>4 DEF AlertInv, AlertTypeOK
  <1>8. /\ \A u \in Deliverers \ {t} : step'[u] = step[u]
        /\ step'[t] = f /\ f \in Carrying
    BY <1>3 DEF AlertInv, AlertTypeOK, Pushing, Carrying
  <1>9. HandsFull'
    BY <1>1, <1>8 DEF AlertInv, Placed, HandsFull
  <1>10. \A i \in DOMAIN queue : queue[i] \in Alerts /\ queue[i] # h
    <2>1. queue \in Seq(Alerts)
      BY DEF AlertInv, AlertTypeOK
    <2>2. \A i \in DOMAIN queue : queue[i] \in Alerts
      BY <2>1
    <2>. QED
      BY <1>1, <1>4, <1>5, <2>2 DEF AlertInv, Placed, QueueIsPending
  <1>11. QueueIsPending'
    BY <1>1, <1>6, <1>10 DEF AlertInv, Placed, QueueIsPending
  <1>12. SendersAlone'
    <2>1. ASSUME NEW u \in Deliverers, step'[u] = "send"
          PROVE  /\ u # t /\ step[u] = "send" /\ hand[u] \in Alerts
                 /\ status'[hand[u]] = "PENDING"
      <3>1. u # t /\ step[u] = "send"
        BY <1>3, <1>8, <2>1 DEF Pushing
      <3>2. hand[u] \in Alerts /\ status[hand[u]] = "PENDING"
        BY <3>1, CarriedIs DEF Carrying
      <3>. QED
        BY <1>1, <1>4, <1>5, <1>6, <3>1, <3>2
    <2>. QED
      BY <1>1, <2>1 DEF AlertInv, Placed, SendersAlone
  <1>13. SleepersFailed'
    BY <1>1, <1>4, <1>5, <1>6 DEF AlertInv, AlertTypeOK, Placed, SleepersFailed
  <1>14. PushersAlone'
    <2>1. ASSUME NEW u \in Deliverers, step'[u] \in Pushing, u # t
          PROVE  /\ step[u] \in Pushing /\ step'[u] = step[u] /\ hand[u] \in Alerts
                 /\ hand[u] # h
      <3>1. step[u] \in Pushing /\ step'[u] = step[u]
        BY <1>8, <2>1
      <3>2. hand[u] \in Alerts /\ status[hand[u]] = "DEAD_LETTER"
        BY <3>1, CarriedIs DEF Carrying, Pushing, AlertInv, Placed, PushersAlone
      <3>. QED
        BY <1>1, <1>4, <1>5, <2>1, <3>1, <3>2
    <2>2. f = "push" => retries'[h] = MaxRetries
      BY <1>3, <1>4, <1>6
    <2>3. ASSUME NEW u \in Deliverers, step'[u] \in Pushing
          PROVE  /\ status'[hand[u]] = "DEAD_LETTER"
                 /\ step'[u] = "push" => retries'[hand[u]] = MaxRetries
      BY <1>6, <1>8, <2>1, <2>2, <2>3 DEF AlertInv, Placed, PushersAlone
    <2>4. ASSUME NEW u \in Deliverers, step'[u] \in Pushing,
                 NEW v \in Deliverers, step'[v] \in Pushing, hand[v] = hand[u]
          PROVE  v = u
      BY <2>1, <2>4 DEF AlertInv, Placed, PushersAlone
    <2>. QED
      BY <1>1, <2>3, <2>4 DEF PushersAlone
  <1>15. RetriesCount'
    BY <1>2, <1>6 DEF AlertInv, RetriesCount, Settled
  <1>16. StopperIdle' /\ FlushedIsInserted' /\ AuditAccounted'
    BY <1>1, <1>3, <1>8 DEF AlertInv, StopperIdle, FlushedIsInserted, AuditAccounted, Deliverers, Pushing
  <1>17. NoneLostRunning'
    <2> SUFFICES ASSUME active', NEW a \in Alerts, status'[a] \notin {"NEW"} \cup Settled
                 PROVE  Waiting(a)'
      BY DEF NoneLostRunning
    <2>1. a # h /\ Waiting(a)
      BY <1>1, <1>6 DEF AlertInv, NoneLostRunning, Settled
    <2>. QED
      BY <1>1, <1>6, <1>8, <2>1, WaitingIs
  <1>. QED
    BY <1>7, <1>9, <1>11, <1>12, <1>13, <1>14, <1>15, <1>16, <1>17 DEF AlertInv, Placed

(* What the ends of a queue do to its places.                              *)
LEMMA QueuePlaces ==
    ASSUME NEW q \in Seq(Alerts), NEW a \in Alerts
    PROVE  /\ \A i \in DOMAIN q : q[i] \in Alerts
           /\ Append(q, a) \in Seq(Alerts)
           /\ \A i \in DOMAIN q : i \in DOMAIN Append(q, a) /\ Append(q, a)[i] = q[i]
           /\ \A i \in DOMAIN Append(q, a) : i \in DOMAIN q \/ i = Len(q) + 1
           /\ Len(q) + 1 \in DOMAIN Append(q, a) /\ Append(q, a)[Len(q) + 1] = a
           /\ q # <<>> => /\ Head(q) = q[1] /\ 1 \in DOMAIN q
                          /\ Tail(q) \in Seq(Alerts)
                          /\ \A i \in DOMAIN Tail(q) : /\ i + 1 \in DOMAIN q /\ i \in Nat \ {0}
                                                       /\ Tail(q)[i] = q[i + 1]
                          /\ \A i \in DOMAIN q : i = 1 \/ (/\ i - 1 \in DOMAIN Tail(q)
                                                           /\ Tail(q)[i - 1] = q[i])
  <1>1. \A i \in DOMAIN q : q[i] \in Alerts
    OBVIOUS
  <1>2. /\ Append(q, a) \in Seq(Alerts)
        /\ \A i \in DOMAIN q : i \in DOMAIN Append(q, a) /\ Append(q, a)[i] = q[i]
        /\ \A i \in DOMAIN Append(q, a) : i \in DOMAIN q \/ i = Len(q) + 1
        /\ Len(q) + 1 \in DOMAIN Append(q, a) /\ Append(q, a)[Len(q) + 1] = a
    OBVIOUS
  <1>3. ASSUME q # <<>>
        PROVE  /\ Head(q) = q[1] /\ 1 \in DOMAIN q
               /\ Tail(q) \in Seq(Alerts)
               /\ \A i \in DOMAIN Tail(q) : /\ i + 1 \in DOMAIN q /\ i \in Nat \ {0}
                                            /\ Tail(q)[i] = q[i + 1]
               /\ \A i \in DOMAIN q : i = 1 \/ (/\ i - 1 \in DOMAIN Tail(q)
                                                /\ Tail(q)[i - 1] = q[i])
    BY <1>3
  <1>. QED
    BY <1>1, <1>2, <1>3

(* An alert that is nowhere goes to the end of the queue: a new one, or    *)
(* one whose retry is due.                                                 *)
LEMMA QueuedKeeps ==
    ASSUME AlertInv, NEW a \in Alerts,
           status[a] \in {"NEW", "FAILED"},
           status' = [status EXCEPT ![a] = "PENDING"], queue' = Append(queue, a),
           sleeping' = sleeping \ {a},
           UNCHANGED <<retries, hand, step, active, attempts, auditVars>>
    PROVE  AlertInv'
  <1>1. /\ queue \in Seq(Alerts)
        /\ \A i \in DOMAIN queue : queue[i] \in Alerts /\ queue[i] # a
    <2>1. queue \in Seq(Alerts)
      BY DEF AlertInv, AlertTypeOK
    <2>. QED
      BY <2>1, QueuePlaces DEF AlertInv, Placed, QueueIsPending
  <1>2. /\ queue' \in Seq(Alerts)
        /\ \A i \in DOMAIN queue : i \in DOMAIN queue' /\ queue'[i] = queue[i]
        /\ \A i \in DOMAIN queue' : i \in DOMAIN queue \/ i = Len(queue) + 1
        /\ Len(queue) + 1 \in DOMAIN queue' /\ queue'[Len(queue) + 1] = a
    BY <1>1, QueuePlaces
  <1>3. AlertTypeOK' /\ AuditAccounted' /\ HandsFull' /\ StopperIdle' /\ FlushedIsInserted'
    BY <1>2 DEF auditVars, AlertInv, AlertTypeOK, AuditAccounted, Placed, HandsFull, StopperIdle,
                FlushedIsInserted
  <1>4. status'[a] = "PENDING" /\ \A b \in Alerts \ {a} : status'[b] = status[b]
    BY DEF AlertInv, AlertTypeOK
  <1>5. QueueIsPending'
    BY <1>1, <1>2, <1>4 DEF AlertInv, Placed, QueueIsPending
  <1>6. \A t \in Deliverers : step[t] \in {"send"} \cup Pushing => hand[t] \in Alerts \ {a}
    BY CarriedIs DEF AlertInv, Placed, PushersAlone, Carrying, Pushing
  <1>7. SendersAlone' /\ PushersAlone'
    BY <1>1, <1>2, <1>4, <1>6 DEF AlertInv, Placed, SendersAlone, PushersAlone
  <1>8. SleepersFailed'
    BY <1>4 DEF AlertInv, AlertTypeOK, Placed, SleepersFailed
  <1>9. RetriesCount'
    BY <1>4 DEF AlertInv, RetriesCount, Settled
  <1>10. NoneLostRunning'
    <2> SUFFICES ASSUME active', NEW b \in Alerts, status'[b] \notin {"NEW"} \cup Settled
                 PROVE  Waiting(b)'
      BY DEF NoneLostRunning
    <2>1. CASE b = a
      BY <1>2, <1>4, <2>1, WaitingIs DEF Settled
    <2>2. CASE b # a
      <3>1. Waiting(b)
        BY <1>4, <2>2 DEF AlertInv, NoneLostRunning
      <3>2. b \in sleeping => b \in sleeping'
        BY <2>2
      <3>3. status'[b] \notin Settled
        BY <1>4, <2>2, <3>1, WaitingIs
      <3>. QED
        BY <1>2, <3>1, <3>2, <3>3, WaitingIs
    <2>. QED
      BY <2>1, <2>2
  <1>. QED
    BY <1>3, <1>5, <1>7, <1>8, <1>9, <1>10 DEF AlertInv, Placed

(* A task takes an alert that is new, or the oldest of the queue.          *)
LEMMA TakenKeeps ==
    ASSUME AlertInv, NEW t \in Deliverers, Take(t) \/ \E a \in Alerts : t = "sender" /\ SendImmediate(a)
    PROVE  AlertInv'
  <1>1. /\ UNCHANGED <<retries, sleeping, active, attempts, buffer, flushing, wedged, entries, logged>>
        /\ step[t] \notin Carrying \cup {"insert"} /\ step' = [step EXCEPT ![t] = "send"]
        /\ (step[t] = "free" /\ t # "stopper") \/ step[t] = "drain"
    BY DEF Take, SendImmediate, auditVars, Carrying
  <1>2. queue \in Seq(Alerts) /\ \A i \in DOMAIN queue : queue[i] \in Alerts
    <2>1. queue \in Seq(Alerts)
      BY DEF AlertInv, AlertTypeOK
    <2>. QED
      BY <2>1
  <1>3. PICK h \in Alerts :
           /\ hand' = [hand EXCEPT ![t] = h]
           /\ status[h] \in {"NEW", "PENDING"} /\ status'[h] = "PENDING"
           /\ \A b \in Alerts \ {h} : status'[b] = status[b]
           /\ status' \in [Alerts -> {"NEW", "PENDING", "SENT", "FAILED", "DEAD_LETTER"}]
           /\ queue' \in Seq(Alerts)
           /\ \A i \in DOMAIN queue' : \E j \in DOMAIN queue : queue'[i] = queue[j] /\ queue'[i] # h
           /\ \A i, j \in DOMAIN queue' : queue'[i] = queue'[j] => i = j
           /\ \A j \in DOMAIN queue : queue[j] # h => \E i \in DOMAIN queue' : queue'[i] = queue[j]
           /\ \A u \in Deliverers : step[u] = "send" => hand[u] # h
    <2>1. CASE Take(t)
      <3> DEFINE h == Head(queue)
      <3>1. /\ queue # <<>> /\ queue' = Tail(queue) /\ status' = status
            /\ hand' = [hand EXCEPT ![t] = h]
        BY <2>1 DEF Take
      <3>2. /\ h = queue[1] /\ 1 \in DOMAIN queue
            /\ queue' \in Seq(Alerts)
            /\ \A i \in DOMAIN queue' : /\ i + 1 \in DOMAIN queue /\ i \in Nat \ {0}
                                        /\ queue'[i] = queue[i + 1]
            /\ \A i \in DOMAIN queue : i = 1 \/ (/\ i - 1 \in DOMAIN queue'
                                                 /\ queue'[i - 1] = queue[i])
        <4>1. PICK b \in Alerts : TRUE
          BY <1>2, <3>1
        <4>. QED
          BY <1>2, <3>1, <4>1, QueuePlaces
      <3> HIDE DEF h
      <3>3. h \in Alerts /\ status[h] = "PENDING"
        BY <1>2, <3>2 DEF AlertInv, Placed, QueueIsPending
      <3>4. /\ \A i \in DOMAIN queue' : queue'[i] # h
            /\ \A i, j \in DOMAIN queue' : queue'[i] = queue'[j] => i = j
        <4>1. \A i, j \in DOMAIN queue : queue[i] = queue[j] => i = j
          BY DEF AlertInv, Placed, QueueIsPending
        <4>2. \A i \in DOMAIN queue' : i + 1 # 1
          BY <3>2
        <4>3. \A i, j \in DOMAIN queue' : i + 1 = j + 1 => i = j
          BY <3>2
        <4>. QED
          BY <3>2, <4>1, <4>2, <4>3
      <3>5. \A u \in Deliverers : step[u] = "send" => hand[u] # h
        BY <3>2 DEF AlertInv, Placed, SendersAlone
      <3>6. status' \in [Alerts -> {"NEW", "PENDING", "SENT", "FAILED", "DEAD_LETTER"}]
        BY <3>1 DEF AlertInv, AlertTypeOK
      <3>7. ASSUME NEW i \in DOMAIN queue'
            PROVE  \E j \in DOMAIN queue : queue'[i] = queue[j] /\ queue'[i] # h
        <4>1. i + 1 \in DOMAIN queue /\ queue'[i] = queue[i + 1] /\ queue'[i] # h
          BY <3>2, <3>4
        <4>. QED
          BY <4>1
      <3>8. ASSUME NEW j \in DOMAIN queue, queue[j] # h
            PROVE  \E i \in DOMAIN queue' : queue'[i] = queue[j]
        <4>1. j - 1 \in DOMAIN queue' /\ queue'[j - 1] = queue[j]
          BY <3>2, <3>8
        <4>. QED
          BY <4>1
      <3>9. status[h] \in {"NEW", "PENDING"} /\ status'[h] = "PENDING" /\ queue' \in Seq(Alerts)
        BY <3>1, <3>2, <3>3
      <3>10. \A b \in Alerts \ {h} : status'[b] = status[b]
        BY <3>1
      <3>. QED
        BY <3>1, <3>3, <3>4, <3>5, <3>6, <3>7, <3>8, <3>9, <3>10
    <2>2. ASSUME NEW a \in Alerts, t = "sender", SendImmediate(a)
          PROVE  /\ hand' = [hand EXCEPT ![t] = a]
                 /\ status[a] \in {"NEW", "PENDING"} /\ status'[a] = "PENDING"
                 /\ \A b \in Alerts \ {a} : status'[b] = status[b]
                 /\ status' \in [Alerts -> {"NEW", "PENDING", "SENT", "FAILED", "DEAD_LETTER"}]
                 /\ queue' = queue /\ \A i \in DOMAIN queue : queue[i] # a
                 /\ \A u \in Deliverers : step[u] = "send" => hand[u] # a
      BY <2>2 DEF SendImmediate, AlertInv, AlertTypeOK, Placed, QueueIsPending, SendersAlone
    <2>3. \A i, j \in DOMAIN queue : queue[i] = queue[j] => i = j
      BY DEF AlertInv, Placed, QueueIsPending
    <2>. QED
      BY <1>2, <2>1, <2>2, <2>3
  <1>4. AlertTypeOK'
    BY <1>1, <1>3 DEF AlertInv, AlertTypeOK
  <1>5. /\ \A u \in Deliverers \ {t} : step'[u] = step[u] /\ hand'[u] = hand[u]
        /\ step'[t] = "send" /\ hand'[t] = h
    BY <1>1, <1>3 DEF AlertInv, AlertTypeOK
  <1>6. HandsFull'
    <2>1. ASSUME NEW u \in Deliverers
          PROVE  hand'[u] # NoAlert <=> step'[u] \in Carrying
      <3>1. hand[u] # NoAlert <=> step[u] \in Carrying
        BY DEF AlertInv, Placed, HandsFull
      <3>2. h # NoAlert /\ "send" \in Carrying
        BY <1>3, AlertAssumption DEF Carrying
      <3>3. CASE u = t
        BY <1>5, <3>2, <3>3
      <3>4. CASE u # t
        BY <1>5, <3>1, <3>4
      <3>. QED
        BY <3>3, <3>4
    <2>. QED
      BY <2>1 DEF HandsFull
  <1>7. QueueIsPending'
    BY <1>2, <1>3 DEF AlertInv, Placed, QueueIsPending
  <1>8. SendersAlone'
    <2>1. ASSUME NEW u \in Deliverers, step'[u] = "send", u # t
          PROVE  /\ hand[u] \in Alerts /\ hand[u] # h /\ hand'[u] = hand[u]
                 /\ status'[hand[u]] = "PENDING"
                 /\ \A i \in DOMAIN queue' : queue'[i] # hand[u]
                 /\ \A v \in Deliverers : step'[v] = "send" /\ hand'[v] = hand[u] => v = u
      <3>1. step[u] = "send" /\ hand'[u] = hand[u] /\ hand[u] # h
        BY <1>3, <1>5, <2>1
      <3>2. hand[u] \in Alerts /\ status[hand[u]] = "PENDING"
        BY <3>1, CarriedIs DEF Carrying
      <3>. QED
        BY <1>3, <1>5, <3>1, <3>2 DEF AlertInv, Placed, SendersAlone
    <2>. QED
      BY <1>3, <1>5, <2>1 DEF SendersAlone
  <1>9. PushersAlone'
    <2>1. ASSUME NEW u \in Deliverers, step'[u] \in Pushing
          PROVE  /\ u # t /\ step[u] \in Pushing /\ step'[u] = step[u] /\ hand'[u] = hand[u]
                 /\ status'[hand[u]] = "DEAD_LETTER"
      <3>1. u # t /\ step[u] \in Pushing /\ step'[u] = step[u] /\ hand'[u] = hand[u]
        BY <1>5, <2>1 DEF Pushing
      <3>2. hand[u] \in Alerts /\ status[hand[u]] = "DEAD_LETTER"
        BY <3>1, CarriedIs DEF Carrying, Pushing, AlertInv, Placed, PushersAlone
      <3>. QED
        BY <1>3, <3>1, <3>2
    <2>. QED
      BY <1>1, <2>1 DEF AlertInv, Placed, PushersAlone
  <1>10. SleepersFailed' /\ RetriesCount'
    BY <1>1, <1>3 DEF AlertInv, AlertTypeOK, Placed, SleepersFailed, RetriesCount, Settled
  <1>11. AuditAccounted'
    BY <1>1 DEF AlertInv, AuditAccounted
  <1>12. StopperIdle'
    BY <1>1, <1>5 DEF AlertInv, StopperIdle, Deliverers
  <1>13. FlushedIsInserted'
    BY <1>1, <1>5 DEF AlertInv, FlushedIsInserted, Deliverers
  <1>14. NoneLostRunning'
    <2> SUFFICES ASSUME active', NEW b \in Alerts, status'[b] \notin {"NEW"} \cup Settled
                 PROVE  Waiting(b)'
      BY DEF NoneLostRunning
    <2>1. CASE b = h
      BY <1>3, <1>5, <2>1, WaitingIs
    <2>2. CASE b # h
      <3>1. Waiting(b) /\ status'[b] = status[b]
        BY <1>1, <1>3, <2>2 DEF AlertInv, NoneLostRunning
      <3>2. ASSUME NEW u \in Deliverers, step[u] = "send", hand[u] = b
            PROVE  step'[u] = "send" /\ hand'[u] = b
        BY <1>1, <1>5, <3>2 DEF Carrying
      <3>. QED
        BY <1>1, <1>3, <2>2, <3>1, <3>2, WaitingIs
    <2>. QED
      BY <2>1, <2>2
  <1>. QED
    BY <1>4, <1>6, <1>7, <1>8, <1>9, <1>10, <1>11, <1>12, <1>13, <1>14 DEF AlertInv, Placed

(* A step that only moves tasks: none takes up an alert, and while the     *)
(* service runs none lets one go that is to be sent.                       *)
LEMMA MovedKeeps ==
    ASSUME AlertInv, AlertTypeOK', StopperIdle', FlushedIsInserted', AuditAccounted',
           UNCHANGED <<status, retries, queue, sleeping, attempts>>,
           \A u \in Deliverers :
              \/ /\ hand'[u] = hand[u]
                 /\ step'[u] = step[u] \/ {step[u], step'[u]} \cap Carrying = {}
              \/ hand'[u] = NoAlert /\ step'[u] \notin Carrying /\ ~active',
           active' => active
    PROVE  AlertInv'
  <1>1. HandsFull'
    <2>1. ASSUME NEW u \in Deliverers
          PROVE  hand'[u] # NoAlert <=> step'[u] \in Carrying
      BY DEF AlertInv, Placed, HandsFull
    <2>. QED
      BY <2>1 DEF HandsFull
  <1>2. \A u \in Deliverers : step'[u] \in {"send"} \cup Pushing =>
            step[u] = step'[u] /\ hand'[u] = hand[u]
    BY DEF Carrying, Pushing
  <1>3. SendersAlone' /\ PushersAlone' /\ QueueIsPending' /\ SleepersFailed'
    BY <1>2 DEF AlertInv, Placed, SendersAlone, PushersAlone, QueueIsPending, SleepersFailed
  <1>4. RetriesCount'
    BY DEF AlertInv, RetriesCount
  <1>5. NoneLostRunning'
    <2> SUFFICES ASSUME active', NEW b \in Alerts, status'[b] \notin {"NEW"} \cup Settled
                 PROVE  Waiting(b)'
      BY DEF NoneLostRunning
    <2>1. Waiting(b)
      BY DEF AlertInv, NoneLostRunning
    <2>2. \A u \in Deliverers : step[u] = "send" => step'[u] = "send" /\ hand'[u] = hand[u]
      BY DEF Carrying
    <2>. QED
      BY <2>1, <2>2, WaitingIs
  <1>. QED
    BY <1>1, <1>3, <1>4, <1>5 DEF AlertInv, Placed

(* The steps of the loop and of stop() are such steps.                     *)
LEMMA StoppingKeeps ==
    ASSUME AlertInv, \/ WorkerLoops \/ StopBegins \/ FlushBegins \/ InsertEnds \/ CancelWorker
    PROVE  AlertInv'
  <1>0. /\ buffer \in Nat /\ flushing \in Nat /\ entries \in Nat /\ logged \in Nat
        /\ step \in [Deliverers -> {"free", "send", "push", "push again", "audit",
                           "wedged", "pause", "drain", "flush", "insert", "end"}]
        /\ hand \in [Deliverers -> Alerts \cup {NoAlert}]
        /\ wedged \in BOOLEAN /\ active \in BOOLEAN
        /\ entries = buffer + flushing + logged
        /\ step["stopper"] # "insert" => flushing = 0
        /\ active => step["stopper"] = "free"
    BY DEF AlertInv, AlertTypeOK, AuditAccounted, FlushedIsInserted, StopperIdle
  <1>1. CASE WorkerLoops
    <2>1. /\ UNCHANGED <<status, retries, queue, hand, sleeping, active, attempts,
                         buffer, flushing, wedged, entries, logged>>
          /\ step["worker"] \in {"pause", "free"} /\ step'["worker"] \in {"free", "end"}
          /\ \A u \in Deliverers \ {"worker"} : step'[u] = step[u]
          /\ step' \in [Deliverers -> {"free", "send", "push", "push again", "audit",
                           "wedged", "pause", "drain", "flush", "insert", "end"}]
      BY <1>0, <1>1 DEF WorkerLoops, auditVars, Deliverers
    <2>2. AlertTypeOK' /\ StopperIdle' /\ FlushedIsInserted' /\ AuditAccounted'
      BY <2>1 DEF AlertInv, AlertTypeOK, StopperIdle, FlushedIsInserted, AuditAccounted, Deliverers
    <2>3. \A u \in Deliverers : step'[u] = step[u] \/ {step[u], step'[u]} \cap Carrying = {}
      BY <2>1 DEF Carrying
    <2>. QED
      BY <2>1, <2>2, <2>3, MovedKeeps
  <1>2. CASE StopBegins
    <2>1. /\ UNCHANGED <<status, retries, queue, hand, sleeping, attempts,
                         buffer, flushing, wedged, entries, logged>>
          /\ active /\ active' = FALSE
          /\ step["stopper"] = "free" /\ step'["stopper"] = "drain"
          /\ \A u \in Deliverers \ {"stopper"} : step'[u] = step[u]
          /\ step' \in [Deliverers -> {"free", "send", "push", "push again", "audit",
                           "wedged", "pause", "drain", "flush", "insert", "end"}]
      BY <1>0, <1>2 DEF StopBegins, auditVars, Deliverers
    <2>2. AlertTypeOK' /\ StopperIdle' /\ FlushedIsInserted' /\ AuditAccounted'
      BY <2>1, <1>0 DEF AlertInv, AlertTypeOK, StopperIdle, FlushedIsInserted, AuditAccounted
    <2>3. \A u \in Deliverers : step'[u] = step[u] \/ {step[u], step'[u]} \cap Carrying = {}
      BY <2>1 DEF Carrying
    <2>. QED
      BY <2>1, <2>2, <2>3, MovedKeeps
  <1>3. CASE FlushBegins
    <2>1. /\ UNCHANGED <<status, retries, queue, hand, sleeping, active, attempts,
                         wedged, entries, logged>>
          /\ flushing' = buffer /\ buffer' = 0
          /\ step["stopper"] = "drain"
          /\ step'["stopper"] = IF buffer = 0 THEN "flush" ELSE "insert"
          /\ \A u \in Deliverers \ {"stopper"} : step'[u] = step[u]
          /\ step' \in [Deliverers -> {"free", "send", "push", "push again", "audit",
                           "wedged", "pause", "drain", "flush", "insert", "end"}]
      BY <1>0, <1>3 DEF FlushBegins, Deliverers
    <2>5. flushing = 0
      BY <1>0, <2>1
    <2>6. ~active'
      BY <1>0, <2>1
    <2>7. StopperIdle' /\ FlushedIsInserted'
      BY <2>1, <2>6 DEF StopperIdle, FlushedIsInserted
    <2>8. AuditAccounted'
      <3>1. entries' = buffer + 0 + logged
        BY <1>0, <2>1, <2>5
      <3>2. \A x, y \in Nat : x + 0 + y = 0 + x + y
        OBVIOUS
      <3>3. buffer + 0 + logged = 0 + buffer + logged
        BY <1>0, <3>2
      <3>. QED
        BY <2>1, <3>1, <3>3 DEF AuditAccounted
    <2>2. StopperIdle' /\ FlushedIsInserted' /\ AuditAccounted'
      BY <2>7, <2>8
    <2>3. AlertTypeOK'
      BY <1>0, <2>1 DEF AlertInv, AlertTypeOK
    <2>4. \A u \in Deliverers : step'[u] = step[u] \/ {step[u], step'[u]} \cap Carrying = {}
      BY <2>1 DEF Carrying
    <2>. QED
      BY <2>1, <2>2, <2>3, <2>4, MovedKeeps
  <1>4. CASE InsertEnds
    <2>1. /\ UNCHANGED <<status, retries, queue, hand, sleeping, active, attempts,
                         wedged, entries>>
          /\ \/ logged' = logged + flushing /\ buffer' = buffer
             \/ logged' = logged /\ buffer' = buffer + flushing
          /\ flushing' = 0
          /\ step["stopper"] = "insert" /\ step'["stopper"] = "flush"
          /\ \A u \in Deliverers \ {"stopper"} : step'[u] = step[u]
          /\ step' \in [Deliverers -> {"free", "send", "push", "push again", "audit",
                           "wedged", "pause", "drain", "flush", "insert", "end"}]
      BY <1>0, <1>4 DEF InsertEnds, Deliverers
    <2>5. ~active' /\ flushing' = 0
      BY <1>0, <2>1
    <2>6. StopperIdle' /\ FlushedIsInserted'
      BY <2>5 DEF StopperIdle, FlushedIsInserted
    <2>7. entries' = buffer' + 0 + logged' /\ logged' \in Nat /\ buffer' \in Nat
      <3>1. entries' = buffer + flushing + logged
        BY <1>0, <2>1
      <3>2. \A x, y, z \in Nat : /\ x + y + z = x + 0 + (z + y)
                                 /\ x + y + z = (x + y) + 0 + z
                                 /\ z + y \in Nat /\ x + y \in Nat
        OBVIOUS
      <3>3. buffer \in Nat /\ flushing \in Nat /\ logged \in Nat
        BY <1>0
      <3>4. CASE logged' = logged + flushing /\ buffer' = buffer
        BY <3>1, <3>2, <3>3, <3>4
      <3>5. CASE logged' = logged /\ buffer' = buffer + flushing
        BY <3>1, <3>2, <3>3, <3>5
      <3>. QED
        BY <2>1, <3>4, <3>5
    <2>2. /\ StopperIdle' /\ FlushedIsInserted' /\ AuditAccounted'
          /\ logged' \in Nat /\ buffer' \in Nat /\ flushing' \in Nat
      BY <2>5, <2>6, <2>7 DEF AuditAccounted
    <2>3. AlertTypeOK'
      BY <2>1, <2>2 DEF AlertInv, AlertTypeOK
    <2>4. \A u \in Deliverers : step'[u] = step[u] \/ {step[u], step'[u]} \cap Carrying = {}
      BY <2>1 DEF Carrying
    <2>. QED
      BY <2>1, <2>2, <2>3, <2>4, MovedKeeps
  <1>5. CASE CancelWorker
    <2>1. /\ UNCHANGED <<status, retries, queue, sleeping, active, attempts,
                         buffer, flushing, entries, logged>>
          /\ wedged' \in BOOLEAN
          /\ step["stopper"] = "flush" /\ step'["stopper"] = "end" /\ step'["worker"] = "end"
          /\ hand'["worker"] = NoAlert
          /\ \A u \in Deliverers \ {"worker"} : hand'[u] = hand[u]
          /\ \A u \in Deliverers \ {"stopper", "worker"} : step'[u] = step[u]
          /\ step' \in [Deliverers -> {"free", "send", "push", "push again", "audit",
                           "wedged", "pause", "drain", "flush", "insert", "end"}]
          /\ hand' \in [Deliverers -> Alerts \cup {NoAlert}]
      BY <1>0, <1>5 DEF CancelWorker, Deliverers
    <2>2. StopperIdle' /\ FlushedIsInserted' /\ AuditAccounted' /\ ~active'
      BY <1>0, <2>1 DEF StopperIdle, FlushedIsInserted, AuditAccounted
    <2>3. AlertTypeOK'
      BY <2>1 DEF AlertInv, AlertTypeOK
    <2>4. \A u \in Deliverers :
              \/ /\ hand'[u] = hand[u]
                 /\ step'[u] = step[u] \/ {step[u], step'[u]} \cap Carrying = {}
              \/ hand'[u] = NoAlert /\ step'[u] \notin Carrying /\ ~active'
      BY <2>1, <2>2 DEF Carrying
    <2>. QED
      BY <2>1, <2>2, <2>3, <2>4, MovedKeeps
  <1>. QED
    BY <1>1, <1>2, <1>3, <1>4, <1>5

(* An alert comes into the queue, new or again; a timer that goes off      *)
(* after stop() began puts nothing there.                                  *)
LEMMA ArrivalKeeps ==
    ASSUME AlertInv, NEW a \in Alerts, QueueAlert(a) \/ RetryDue(a)
    PROVE  AlertInv'
  <1>1. CASE QueueAlert(a)
    <2>1. status[a] = "NEW" /\ a \notin sleeping
      BY <1>1 DEF QueueAlert, AlertInv, Placed, SleepersFailed
    <2>2. sleeping' = sleeping \ {a}
      BY <1>1, <2>1 DEF QueueAlert
    <2>. QED
      BY <1>1, <2>1, <2>2, QueuedKeeps DEF QueueAlert
  <1>2. CASE RetryDue(a) /\ active
    <2>1. status[a] = "FAILED"
      BY <1>2 DEF RetryDue, AlertInv, Placed, SleepersFailed
    <2>. QED
      BY <1>2, <2>1, QueuedKeeps DEF RetryDue
  <1>3. CASE RetryDue(a) /\ ~active
    <2>1. /\ UNCHANGED <<status, retries, queue, hand, step, active, attempts, auditVars>>
          /\ sleeping' \subseteq sleeping /\ ~active'
      BY <1>3 DEF RetryDue
    <2>. QED
      <3>1. AlertTypeOK' /\ RetriesCount' /\ StopperIdle' /\ FlushedIsInserted' /\ AuditAccounted'
        BY <2>1 DEF auditVars, AlertInv, AlertTypeOK, RetriesCount, StopperIdle,
                    FlushedIsInserted, AuditAccounted
      <3>2. NoneLostRunning'
        BY <2>1 DEF NoneLostRunning
      <3>3. Placed'
        BY <2>1 DEF AlertInv, Placed, HandsFull, QueueIsPending, SendersAlone, SleepersFailed,
                    PushersAlone
      <3>. QED
        BY <3>1, <3>2, <3>3 DEF AlertInv
  <1>. QED
    BY <1>1, <1>2, <1>3

(* The service starts with its tasks free and nothing made.                *)
LEMMA InitAlertInv == AlertInit => AlertInv
  <1> SUFFICES ASSUME AlertInit PROVE AlertInv
    OBVIOUS
  <1>1. \A a \in Alerts : status[a] = "NEW" /\ retries[a] = 0 /\ attempts[a] = 0
    BY DEF AlertInit
  <1>2. \A t \in Deliverers : step[t] = "free" /\ hand[t] = NoAlert
    BY DEF AlertInit
  <1>3. MaxRetries \in Nat /\ MaxRetries > 0
    BY AlertAssumption
  <1>4. AlertTypeOK
    <2>1. retries \in [Alerts -> 0..MaxRetries + 1]
      BY <1>3 DEF AlertInit
    <2>2. status \in [Alerts -> {"NEW", "PENDING", "SENT", "FAILED", "DEAD_LETTER"}]
      BY DEF AlertInit
    <2>3. attempts \in [Alerts -> Nat] /\ hand \in [Deliverers -> Alerts \cup {NoAlert}]
      BY DEF AlertInit
    <2>4. step \in [Deliverers -> {"free", "send", "push", "push again", "audit",
                           "wedged", "pause", "drain", "flush", "insert", "end"}]
      BY DEF AlertInit
    <2>5. queue \in Seq(Alerts) /\ sleeping \subseteq Alerts
      BY DEF AlertInit
    <2>. QED
      BY <2>1, <2>2, <2>3, <2>4, <2>5 DEF AlertInit, AlertTypeOK
  <1>5. Placed
    BY <1>2 DEF AlertInit, Placed, HandsFull, QueueIsPending, SendersAlone, SleepersFailed,
                PushersAlone, Carrying, Pushing
  <1>6. RetriesCount
    BY <1>1, <1>3 DEF RetriesCount
  <1>7. NoneLostRunning
    BY <1>1 DEF NoneLostRunning
  <1>. QED
    BY <1>2, <1>4, <1>5, <1>6, <1>7
    DEF AlertInit, AlertInv, StopperIdle, FlushedIsInserted, AuditAccounted, Deliverers

(* An alert is in one place at most, so that it is sent by one task.       *)
LEMMA PlacedIsSentOnce == AlertInv => SentOnce
  <1> SUFFICES ASSUME AlertInv, NEW a \in Alerts
               PROVE  /\ Cardinality(Queued(a))
                           + Cardinality({t \in Delivering(a) : step[t] = "send"})
                           + (IF a \in sleeping THEN 1 ELSE 0) <= 1
                      /\ status[a] \in Settled => ~Waiting(a)
                      /\ attempts[a] <= MaxRetries
    BY DEF SentOnce
  <1> DEFINE Q == Queued(a)
             S == {t \in Delivering(a) : step[t] = "send"}
  <1>1. Q = {} \/ \E i \in DOMAIN queue : Q = {i} /\ status[a] = "PENDING"
    BY DEF AlertInv, Placed, QueueIsPending, Queued
  <1>2. S = {} \/ \E t \in Deliverers : S = {t} /\ status[a] = "PENDING" /\ Q = {}
    BY DEF AlertInv, Placed, SendersAlone, Queued, Delivering
  <1>3. a \in sleeping => Q = {} /\ S = {}
    BY <1>1, <1>2 DEF AlertInv, Placed, SleepersFailed
  <1>4. Cardinality(Q) \in {0, 1} /\ (Q = {} => Cardinality(Q) = 0)
    BY <1>1, FS_EmptySet, FS_Singleton
  <1>5. Cardinality(S) \in {0, 1} /\ (S = {} => Cardinality(S) = 0)
    BY <1>2, FS_EmptySet, FS_Singleton
  <1>6. Cardinality(Q) = 0 \/ Cardinality(S) = 0
    BY <1>2, <1>4, <1>5
  <1>. HIDE DEF Q, S
  <1>7. Cardinality(Q) + Cardinality(S) + (IF a \in sleeping THEN 1 ELSE 0) <= 1
    BY <1>3, <1>4, <1>5, <1>6
  <1>8. status[a] \in Settled => ~Waiting(a)
    BY DEF Waiting
  <1>9. attempts[a] <= MaxRetries
    BY DEF AlertInv, RetriesCount
  <1>. QED
    BY <1>7, <1>8, <1>9 DEF Q, S

(* Every step of the worker, the timers, stop() and the senders keeps it.  *)
LEMMA AlertKeeps == AlertInv /\ [AlertNext]_alertVars => AlertInv'
  <1> SUFFICES ASSUME AlertInv, [AlertNext]_alertVars PROVE AlertInv'
    OBVIOUS
  <1>1. CASE \E a \in Alerts : QueueAlert(a) \/ RetryDue(a)
    BY <1>1, ArrivalKeeps
  <1>2. CASE \E a \in Alerts : SendImmediate(a)
    <2>1. "sender" \in Deliverers
      BY DEF Deliverers
    <2>. QED
      BY <1>2, <2>1, TakenKeeps
  <1>3. CASE \E t \in Deliverers : Take(t)
    BY <1>3, TakenKeeps
  <1>4. CASE \E t \in Deliverers : Deliver(t)
    <2> SUFFICES ASSUME NEW t \in Deliverers, Deliver(t) PROVE AlertInv'
      BY <1>4
    <2>1. CASE SendFails(t)
      <3>1. \/ retries[hand[t]] + 1 < MaxRetries
            \/ retries[hand[t]] + 1 >= MaxRetries
        <4>1. step[t] \in Carrying
          BY <2>1 DEF SendFails, Carrying
        <4>. QED
          BY <4>1, CarriedIs, AlertNumbers DEF AlertInv
      <3>. QED
        BY <2>1, <3>1, AuditedKeeps, PushingKeeps
    <2>2. CASE SendOk(t) \/ PushOk(t) \/ LockFree(t)
      BY <2>2, AuditedKeeps
    <2>3. CASE PushFails(t) \/ PushRaises(t)
      BY <2>3, PushingKeeps, PushRaisesKeeps
    <2>. QED
      BY <2>1, <2>2, <2>3 DEF Deliver
  <1>5. CASE WorkerLoops \/ StopBegins \/ FlushBegins \/ InsertEnds \/ CancelWorker
    BY <1>5, StoppingKeeps
  <1>6. CASE UNCHANGED alertVars
    <2>1. UNCHANGED <<status, retries, queue, hand, step, sleeping, active, buffer,
                      flushing, wedged, attempts, entries, logged>>
      BY <1>6 DEF alertVars
    <2>2. AlertTypeOK' /\ StopperIdle' /\ FlushedIsInserted' /\ AuditAccounted'
      BY <2>1 DEF AlertInv, AlertTypeOK, StopperIdle, FlushedIsInserted, AuditAccounted
    <2>. QED
      BY <2>1, <2>2, MovedKeeps
  <1>. QED
    BY <1>1, <1>2, <1>3, <1>4, <1>5, <1>6 DEF AlertNext

(* Whatever the worker, the retries, stop() and the senders do in          *)
(* whichever order, the invariant holds.                                   *)
THEOREM AlertInvariant == AlertSpec => []AlertInv
  BY InitAlertInv, AlertKeeps, PTL DEF AlertSpec

(* What the invariant says of the alerts.                                  *)
LEMMA AlertInvSays == AlertInv => AlertsSound
  BY PlacedIsSentOnce DEF AlertInv, AlertsSound

(* No alert is lost while the service runs, sent by two tasks, sent again  *)
(* after it was settled or more often than MaxRetries, and every delivery  *)
(* in the audit is accounted for.                                          *)
THEOREM AlertsAreSound == AlertSpec => []AlertsSound
  BY AlertInvariant, AlertInvSays, PTL

-----------------------------------------------------------------------------
(* The health checker.  A silent service is checked in every round, and    *)
(* every check that fails buys the checker the time of one round more.     *)

(* How long the last heartbeat of s has been stale.                        *)
Overdue(s) == IF silent[s] < FreshFor THEN 0 ELSE silent[s] - FreshFor + 1

(* The services whose alert may yet take a unit of time in this round.     *)
ToWaitFor == {k \in DOMAIN Services : Services[k] \in todo \ slow}

(* What may pass until the next check of the i-th service: one unit for    *)
(* each service that comes before it in this round; once it was checked,   *)
(* the rest of the round, the pause, and those before it in the next one.  *)
Waits(i) ==
    IF todo = {} THEN {IF pause THEN i ELSE i - 1}
    ELSE IF Services[i] \in todo \ telling THEN {i - k : k \in {k \in ToWaitFor : k <= i}}
    ELSE {i} \cup {i + Len(Services) - k + 1 : k \in ToWaitFor}
             \cup (IF Probed \cap (todo \ slow) # {} THEN {i + 1} ELSE {})

CheckedInTime ==
    \A i \in DOMAIN Services : Services[i] \notin late /\ fails[Services[i]] < DownAfter =>
        \A w \in Waits(i) :
            Overdue(Services[i]) + w <= (fails[Services[i]] + 1) * RoundTime

(* A service that was checked in this round has none before it left.       *)
InTurn ==
    \A i, k \in DOMAIN Services :
        k < i /\ Services[k] \in todo => Services[i] \in todo \ telling

DownIsCounted == \A s \in Watched : fails[s] = DownAfter => health[s] = "DOWN"

HealthInv == HealthTypeOK /\ CheckedInTime /\ InTurn /\ DownIsCounted

(* The services in their order, and the numbers of a round.                *)
LEMMA RoundNumbers ==
    /\ Len(Services) \in Nat /\ DOMAIN Services = 1..Len(Services)
    /\ \A i \in DOMAIN Services : i \in Nat /\ i >= 1 /\ i <= Len(Services)
                                  /\ Services[i] \in Beating /\ Services[i] \in Watched
    /\ RoundTime = Len(Services) + 1 /\ RoundTime \in Nat
    /\ FreshFor \in Nat /\ DownAfter \in Nat /\ DownAfter > 1 /\ DetectionTime \in Nat
  <1>1. Len(Services) \in Nat /\ DOMAIN Services = 1..Len(Services)
    BY HealthAssumption
  <1>2. RoundTime = Len(Services) + 1 /\ RoundTime \in Nat
    BY <1>1 DEF RoundTime
  <1>3. FreshFor \in Nat /\ DownAfter \in Nat /\ DownAfter > 1
    BY HealthAssumption
  <1>4. DetectionTime \in Nat
    <2>1. \A d, r, f \in Nat : f + d * r \in Nat
      OBVIOUS
    <2>. QED
      BY <1>2, <1>3, <2>1 DEF DetectionTime
  <1>5. \A i \in DOMAIN Services : Services[i] \in Beating /\ Services[i] \in Watched
    BY DEF Beating, Watched
  <1>. QED
    BY <1>1, <1>2, <1>3, <1>4, <1>5

(* What a failure more buys.                                               *)
LEMMA RoundsAddUp ==
    \A f, d, r \in Nat : /\ (f + 1) * r \in Nat
                         /\ (f + 1 + 1) * r = (f + 1) * r + r
                         /\ f < d => (f + 1) * r <= d * r
                         /\ (0 + 1) * r = r
  <1> SUFFICES ASSUME NEW f \in Nat, NEW d \in Nat, NEW r \in Nat
               PROVE  /\ (f + 1) * r \in Nat
                      /\ (f + 1 + 1) * r = (f + 1) * r + r
                      /\ f < d => (f + 1) * r <= d * r
                      /\ (0 + 1) * r = r
    OBVIOUS
  <1>1. (f + 1) * r \in Nat /\ (f + 1 + 1) * r = (f + 1) * r + r /\ (0 + 1) * r = r
    OBVIOUS
  <1>2. ASSUME f < d PROVE (f + 1) * r <= d * r
    <2>1. PICK e \in Nat : d = f + 1 + e
      <3>1. d - (f + 1) \in Nat /\ d = f + 1 + (d - (f + 1))
        BY <1>2
      <3>. QED
        BY <3>1
    <2>2. d * r = (f + 1) * r + e * r /\ e * r \in Nat
      BY <2>1
    <2>. QED
      BY <1>1, <2>2
  <1>. QED
    BY <1>1, <1>2

(* How late a heartbeat is, before a step and after it.                    *)
LEMMA OverdueIs ==
    ASSUME HealthTypeOK, HealthTypeOK', NEW i \in DOMAIN Services
    PROVE  LET s == Services[i]
           IN  /\ Overdue(s) \in Nat /\ Overdue(s)' \in Nat
               /\ silent'[s] <= silent[s] => Overdue(s)' <= Overdue(s)
               /\ silent'[s] <= silent[s] + 1 => Overdue(s)' <= Overdue(s) + 1
               /\ silent'[s] < FreshFor => Overdue(s)' = 0
               /\ fails[s] \in Nat /\ fails'[s] \in Nat
  <1> DEFINE s == Services[i]
  <1>1. silent[s] \in Nat /\ silent'[s] \in Nat /\ FreshFor \in Nat
    <2>1. s \in Beating /\ DetectionTime \in Nat /\ FreshFor \in Nat
      BY RoundNumbers
    <2>. QED
      BY <2>1 DEF HealthTypeOK
  <1>2. fails[s] \in Nat /\ fails'[s] \in Nat
    <2>1. s \in Watched /\ DownAfter \in Nat
      BY RoundNumbers
    <2>. QED
      BY <2>1 DEF HealthTypeOK
  <1>. HIDE DEF s
  <1>. QED
    BY <1>1, <1>2 DEF Overdue, s

(* The waits are numbers, and there is one.                                *)
WaitsTypeOK == \A i \in DOMAIN Services : Waits(i) \subseteq Nat /\ Waits(i) # {}

(* The services yet to be checked in a round are waited for that long.     *)
LEMMA WaitsAreNumbers == HealthTypeOK => WaitsTypeOK
  <1> SUFFICES ASSUME HealthTypeOK, NEW i \in DOMAIN Services
               PROVE  Waits(i) \subseteq Nat /\ Waits(i) # {}
    BY DEF WaitsTypeOK
  <1>1. i \in Nat /\ i >= 1 /\ \A k \in ToWaitFor : k \in Nat /\ k >= 1 /\ k <= Len(Services)
    BY RoundNumbers DEF ToWaitFor
  <1>2. Len(Services) \in Nat
    BY RoundNumbers
  <1>3. \A k \in ToWaitFor : /\ k <= i => i - k \in Nat
                             /\ i + Len(Services) - k + 1 \in Nat
    BY <1>1, <1>2
  <1>4. Services[i] \in todo \ telling => i \in ToWaitFor
    BY DEF HealthTypeOK, ToWaitFor
  <1>5. i - 1 \in Nat /\ i + 1 \in Nat /\ i <= i
    BY <1>1
  <1>6. CASE todo = {}
    BY <1>1, <1>5, <1>6 DEF Waits
  <1>7. CASE todo # {} /\ Services[i] \in todo \ telling
    <2>1. Waits(i) = {i - k : k \in {k \in ToWaitFor : k <= i}}
      BY <1>7 DEF Waits
    <2>2. i \in {k \in ToWaitFor : k <= i}
      BY <1>4, <1>5, <1>7
    <2>. QED
      BY <1>3, <2>1, <2>2
  <1>8. CASE todo # {} /\ Services[i] \notin todo \ telling
    <2>1. Waits(i) = {i} \cup {i + Len(Services) - k + 1 : k \in ToWaitFor}
                        \cup (IF Probed \cap (todo \ slow) # {} THEN {i + 1} ELSE {})
      BY <1>8 DEF Waits
    <2>. QED
      BY <1>1, <1>3, <1>5, <2>1
  <1>. QED
    BY <1>6, <1>7, <1>8

(* No service waits longer than a round for its next check.                *)
LEMMA WaitsAreARound ==
    ASSUME HealthTypeOK, InTurn, NEW i \in DOMAIN Services, NEW w \in Waits(i)
    PROVE  w <= RoundTime
  <1>1. i \in Nat /\ i >= 1 /\ i <= Len(Services) /\ Len(Services) \in Nat
        /\ RoundTime = Len(Services) + 1
    BY RoundNumbers
  <1>2. \A k \in ToWaitFor : k \in Nat /\ k >= 1 /\ k \in DOMAIN Services
    BY RoundNumbers DEF ToWaitFor
  <1>3. CASE todo = {}
    BY <1>1, <1>3 DEF Waits
  <1>4. CASE Services[i] \in todo \ telling
    <2>1. PICK k \in ToWaitFor : k <= i /\ w = i - k
      BY <1>4 DEF Waits
    <2>. QED
      BY <1>1, <1>2, <2>1
  <1>5. CASE todo # {} /\ Services[i] \notin todo \ telling
    <2>1. ASSUME NEW k \in ToWaitFor PROVE ~(k < i)
      BY <1>2, <1>5, <2>1 DEF InTurn, ToWaitFor
    <2>2. \A k \in ToWaitFor : i + Len(Services) - k + 1 <= RoundTime
      BY <1>1, <1>2, <2>1
    <2>3. w = i \/ w = i + 1 \/ \E k \in ToWaitFor : w = i + Len(Services) - k + 1
      BY <1>5 DEF Waits
    <2>. QED
      BY <1>1, <2>2, <2>3
  <1>. QED
    BY <1>3, <1>4, <1>5

(* A step in which a service's heartbeat grows older by no more than the   *)
(* wait for its check grows shorter.                                       *)
LEMMA WaitsShorten ==
    ASSUME HealthInv, HealthTypeOK', NEW i \in DOMAIN Services, NEW d \in {0, 1},
           Services[i] \notin late,
           fails'[Services[i]] = fails[Services[i]],
           silent'[Services[i]] <= silent[Services[i]] + d,
           \A v \in Waits(i)' : \E w \in Waits(i) : v + d <= w
    PROVE  fails'[Services[i]] < DownAfter =>
             \A v \in Waits(i)' :
                Overdue(Services[i])' + v <= (fails'[Services[i]] + 1) * RoundTime
  <1> DEFINE s == Services[i]
  <1> SUFFICES ASSUME fails'[s] < DownAfter, NEW v \in Waits(i)'
               PROVE  Overdue(s)' + v <= (fails'[s] + 1) * RoundTime
    OBVIOUS
  <1>1. PICK w \in Waits(i) : v + d <= w
    OBVIOUS
  <1>2. Overdue(s) + w <= (fails[s] + 1) * RoundTime
    BY <1>1 DEF HealthInv, CheckedInTime
  <1>3. Overdue(s) \in Nat /\ Overdue(s)' \in Nat /\ Overdue(s)' <= Overdue(s) + d
    <2>1. silent[s] \in Nat
      <3>1. s \in Beating /\ DetectionTime \in Nat
        BY RoundNumbers
      <3>. QED
        BY <3>1 DEF HealthInv, HealthTypeOK
    <2>2. silent[s] + 0 = silent[s]
      BY <2>1
    <2>3. Overdue(s) \in Nat /\ Overdue(s)' \in Nat
      BY OverdueIs DEF HealthInv
    <2>4. CASE d = 0
      BY <2>2, <2>3, <2>4, OverdueIs DEF HealthInv
    <2>5. CASE d = 1
      BY <2>3, <2>5, OverdueIs DEF HealthInv
    <2>. QED
      BY <2>3, <2>4, <2>5
  <1>4. w \in Nat /\ v \in Nat
    <2>1. HealthTypeOK' => WaitsTypeOK'
      BY WaitsAreNumbers, PTL
    <2>. QED
      BY <1>1, <2>1, WaitsAreNumbers DEF HealthInv, WaitsTypeOK
  <1>5. (fails[s] + 1) * RoundTime \in Nat
    BY RoundsAddUp, RoundNumbers, OverdueIs DEF HealthInv
  <1>6. \A a, b, x, y, z \in Nat : \A e \in {0, 1} :
            a + x <= z /\ b <= a + e /\ y + e <= x => b + y <= z
    OBVIOUS
  <1>. QED
    <2>1. d \in {0, 1} /\ fails'[s] = fails[s]
      OBVIOUS
    <2>. HIDE DEF s
    <2>. QED
      BY <1>1, <1>2, <1>3, <1>4, <1>5, <1>6, <2>1

(* The waits of a round: before a step, and after it.                      *)
LEMMA WaitsAre ==
    ASSUME NEW i \in DOMAIN Services
    PROVE  /\ todo = {} => Waits(i) = {IF pause THEN i ELSE i - 1}
           /\ Services[i] \in todo \ telling =>
                 \A w : w \in Waits(i) <=> \E k \in ToWaitFor : k <= i /\ w = i - k
           /\ todo # {} /\ Services[i] \notin todo \ telling =>
                 \A w : w \in Waits(i) <=>
                    \/ w = i
                    \/ \E k \in ToWaitFor : w = i + Len(Services) - k + 1
                    \/ Probed \cap (todo \ slow) # {} /\ w = i + 1
           /\ todo' = {} => Waits(i)' = {IF pause' THEN i ELSE i - 1}
           /\ Services[i] \in todo' \ telling' =>
                 \A w : w \in Waits(i)' <=> \E k \in ToWaitFor' : k <= i /\ w = i - k
           /\ todo' # {} /\ Services[i] \notin todo' \ telling' =>
                 \A w : w \in Waits(i)' <=>
                    \/ w = i
                    \/ \E k \in ToWaitFor' : w = i + Len(Services) - k + 1
                    \/ Probed \cap (todo' \ slow') # {} /\ w = i + 1
           /\ \A k \in DOMAIN Services : /\ k \in ToWaitFor <=> Services[k] \in todo \ slow
                                         /\ k \in ToWaitFor' <=> Services[k] \in todo' \ slow'
  <1>1. \A k \in DOMAIN Services : /\ k \in ToWaitFor <=> Services[k] \in todo \ slow
                                   /\ k \in ToWaitFor' <=> Services[k] \in todo' \ slow'
    BY DEF ToWaitFor
  <1>2. todo = {} => Waits(i) = {IF pause THEN i ELSE i - 1}
    BY DEF Waits
  <1>3. todo' = {} => Waits(i)' = {IF pause' THEN i ELSE i - 1}
    BY DEF Waits
  <1>4. Services[i] \in todo \ telling =>
                 \A w : w \in Waits(i) <=> \E k \in ToWaitFor : k <= i /\ w = i - k
    BY DEF Waits
  <1>5. Services[i] \in todo' \ telling' =>
                 \A w : w \in Waits(i)' <=> \E k \in ToWaitFor' : k <= i /\ w = i - k
    BY DEF Waits
  <1>6. todo # {} /\ Services[i] \notin todo \ telling =>
                 \A w : w \in Waits(i) <=>
                    \/ w = i
                    \/ \E k \in ToWaitFor : w = i + Len(Services) - k + 1
                    \/ Probed \cap (todo \ slow) # {} /\ w = i + 1
    BY DEF Waits
  <1>7. todo' # {} /\ Services[i] \notin todo' \ telling' =>
                 \A w : w \in Waits(i)' <=>
                    \/ w = i
                    \/ \E k \in ToWaitFor' : w = i + Len(Services) - k + 1
                    \/ Probed \cap (todo' \ slow') # {} /\ w = i + 1
    BY DEF Waits
  <1>. QED
    BY <1>1, <1>2, <1>3, <1>4, <1>5, <1>6, <1>7

(* A check that is done, or waits for its alert, leaves the others in the  *)
(* same round with fewer checks to wait for.                               *)
LEMMA OthersWaitNoLonger ==
    ASSUME HealthTypeOK, NEW s, s \in todo, NEW i \in DOMAIN Services,
           todo' \subseteq todo, todo \subseteq todo' \cup {s},
           todo' \ slow' \subseteq todo \ slow,
           todo' = {} => pause',
           Services[i] \in todo \ telling <=> Services[i] \in todo' \ telling'
    PROVE  Waits(i)' \subseteq Waits(i)
  <1>1. ToWaitFor' \subseteq ToWaitFor
    BY WaitsAre DEF ToWaitFor
  <1>2. CASE Services[i] \in todo \ telling
    <2>1. \A w : w \in Waits(i) <=> \E k \in ToWaitFor : k <= i /\ w = i - k
      BY <1>2, WaitsAre
    <2>2. \A w : w \in Waits(i)' <=> \E k \in ToWaitFor' : k <= i /\ w = i - k
      BY <1>2, WaitsAre
    <2>. QED
      BY <1>1, <2>1, <2>2
  <1>3. CASE Services[i] \notin todo \ telling
    <2>1. \A w : w \in Waits(i) <=>
                    \/ w = i
                    \/ \E k \in ToWaitFor : w = i + Len(Services) - k + 1
                    \/ Probed \cap (todo \ slow) # {} /\ w = i + 1
      BY <1>3, WaitsAre
    <2>2. CASE todo' = {}
      <3>1. Waits(i)' = {i}
        BY <2>2, WaitsAre
      <3>. QED
        BY <2>1, <3>1
    <2>3. CASE todo' # {}
      <3>1. \A w : w \in Waits(i)' <=>
                    \/ w = i
                    \/ \E k \in ToWaitFor' : w = i + Len(Services) - k + 1
                    \/ Probed \cap (todo' \ slow') # {} /\ w = i + 1
        BY <1>3, <2>3, WaitsAre
      <3>. QED
        BY <1>1, <2>1, <3>1
    <2>. QED
      BY <2>2, <2>3
  <1>. QED
    BY <1>2, <1>3

(* Once the i-th service is checked, its next check is a round away.       *)
LEMMA CheckedWaitsARound ==
    ASSUME HealthTypeOK, NEW i \in DOMAIN Services,
           Services[i] \notin todo' \ telling',
           \A k \in DOMAIN Services : k < i => Services[k] \notin todo',
           todo' = {} => pause'
    PROVE  \A w \in Waits(i)' : w <= RoundTime
  <1>1. i \in Nat /\ i >= 1 /\ i <= Len(Services) /\ Len(Services) \in Nat
        /\ RoundTime = Len(Services) + 1
    BY RoundNumbers
  <1>2. CASE todo' = {}
    <2>1. Waits(i)' = {i}
      BY <1>2, WaitsAre
    <2>. QED
      BY <1>1, <2>1
  <1>3. CASE todo' # {}
    <2>1. \A w : w \in Waits(i)' <=>
                    \/ w = i
                    \/ \E k \in ToWaitFor' : w = i + Len(Services) - k + 1
                    \/ Probed \cap (todo' \ slow') # {} /\ w = i + 1
      BY <1>3, WaitsAre
    <2>2. ASSUME NEW k \in ToWaitFor'
          PROVE  i + Len(Services) - k + 1 <= RoundTime
      <3>1. k \in DOMAIN Services /\ Services[k] \in todo'
        BY DEF ToWaitFor
      <3>2. k \in Nat /\ ~(k < i)
        BY <3>1, RoundNumbers
      <3>. QED
        BY <1>1, <3>2
    <2>. QED
      BY <1>1, <2>1, <2>2
  <1>. QED
    BY <1>2, <1>3

(* A round that starts finds every service where the pause left it.        *)
LEMMA StartRoundKeeps == HealthInv /\ StartRound => HealthInv'
  <1> SUFFICES ASSUME HealthInv, StartRound PROVE HealthInv'
    OBVIOUS
  <1>1. /\ todo = {} /\ ~pause /\ todo' = Watched /\ telling = {} /\ slow = {}
        /\ UNCHANGED <<working, silent, health, fails, telling, slow, pause, late, misses>>
    BY DEF StartRound, HealthInv, HealthTypeOK
  <1>2. HealthTypeOK' /\ DownIsCounted' /\ InTurn'
    <2>1. \A i \in DOMAIN Services : Services[i] \in Watched
      BY RoundNumbers
    <2>. QED
      BY <1>1, <2>1 DEF HealthInv, HealthTypeOK, DownIsCounted, InTurn
  <1>3. ASSUME NEW i \in DOMAIN Services
        PROVE  \A v \in Waits(i)' : \E w \in Waits(i) : v + 0 <= w
    <2>1. i \in Nat /\ i >= 1 /\ Services[i] \in Watched
      BY RoundNumbers
    <2>2. i - 1 \in Waits(i)
      BY <1>1, WaitsAre
    <2>3. \A v : v \in Waits(i)' <=> \E k \in ToWaitFor' : k <= i /\ v = i - k
      BY <1>1, <2>1, WaitsAre
    <2>4. \A k \in ToWaitFor' : k \in Nat /\ k >= 1
      BY RoundNumbers DEF ToWaitFor
    <2>5. \A k \in Nat : k >= 1 => (i - k) + 0 <= i - 1
      BY <2>1
    <2>. QED
      BY <2>2, <2>3, <2>4, <2>5
  <1>4. CheckedInTime'
    <2>1. ASSUME NEW i \in DOMAIN Services
          PROVE  silent'[Services[i]] <= silent[Services[i]] + 0
      <3>1. silent[Services[i]] \in Nat
        BY RoundNumbers DEF HealthInv, HealthTypeOK
      <3>. QED
        BY <1>1, <3>1
    <2>. QED
      BY <1>1, <1>2, <1>3, <2>1, WaitsShorten DEF CheckedInTime
  <1>. QED
    BY <1>2, <1>4 DEF HealthInv

(* Heartbeats come and services stop and go: none grows older.             *)
LEMMA BeatsKeep ==
    ASSUME HealthInv,
           \/ \E s \in Beating : PublishHeartbeat(s)
           \/ \E s \in Watched : StopsWorking(s) \/ WorksAgain(s)
           \/ UNCHANGED healthVars
    PROVE  HealthInv'
  <1>1. /\ UNCHANGED <<health, fails, todo, telling, slow, pause>>
        /\ silent' \in [Beating -> 0..DetectionTime]
        /\ \A b \in Beating : silent'[b] = silent[b] \/ silent'[b] = 0
        /\ late' \subseteq late /\ late \subseteq Beating
        /\ \A b \in late \ late' : silent'[b] = 0
        /\ working' \subseteq Watched /\ misses' = misses
    <2>1. silent \in [Beating -> 0..DetectionTime] /\ 0 \in 0..DetectionTime
      BY RoundNumbers DEF HealthInv, HealthTypeOK
    <2>. QED
      BY <2>1 DEF PublishHeartbeat, StopsWorking, WorksAgain, healthVars, HealthInv, HealthTypeOK
  <1>2. HealthTypeOK' /\ DownIsCounted' /\ InTurn'
    BY <1>1 DEF HealthInv, HealthTypeOK, DownIsCounted, InTurn
  <1>3. ASSUME NEW i \in DOMAIN Services
        PROVE  /\ \A v \in Waits(i)' : \E w \in Waits(i) : v + 0 <= w
               /\ silent'[Services[i]] <= silent[Services[i]] + 0
    <2>1. Waits(i)' = Waits(i)
      BY <1>1 DEF Waits, ToWaitFor
    <2>2. Waits(i) \subseteq Nat
      BY WaitsAreNumbers DEF HealthInv, WaitsTypeOK
    <2>3. silent[Services[i]] \in Nat /\ Services[i] \in Beating
      BY RoundNumbers DEF HealthInv, HealthTypeOK
    <2>4. \A v \in Nat : v + 0 <= v /\ 0 <= v + 0
      OBVIOUS
    <2>. QED
      BY <1>1, <2>1, <2>2, <2>3, <2>4
  <1>4. ASSUME NEW i \in DOMAIN Services, Services[i] \in late \ late',
               NEW v \in Waits(i)'
        PROVE  Overdue(Services[i])' + v <= (fails'[Services[i]] + 1) * RoundTime
    <2>1. v \in Waits(i)
      BY <1>1 DEF Waits, ToWaitFor
    <2>2. v \in Nat /\ v <= RoundTime
      BY <2>1, WaitsAreNumbers, WaitsAreARound DEF HealthInv, WaitsTypeOK
    <2>3. Overdue(Services[i])' = 0
      BY <1>1, <1>4, HealthAssumption DEF Overdue
    <2>4. fails'[Services[i]] \in Nat /\ RoundTime \in Nat
      BY <1>1, <1>2, OverdueIs, RoundNumbers DEF HealthInv
    <2>5. \A f, r, x \in Nat : x <= r => 0 + x <= (f + 1) * r
      <3> SUFFICES ASSUME NEW f \in Nat, NEW r \in Nat PROVE r <= (f + 1) * r
        OBVIOUS
      <3>1. (f + 1) * r = f * r + r /\ f * r \in Nat
        OBVIOUS
      <3>. QED
        BY <3>1
    <2>. QED
      BY <2>2, <2>3, <2>4, <2>5
  <1>5. CheckedInTime'
    BY <1>1, <1>2, <1>3, <1>4, WaitsShorten DEF CheckedInTime
  <1>. QED
    BY <1>2, <1>5 DEF HealthInv

(* A unit of time passes.  Unless a wait is too long, the turn is with     *)
(* services whose alerts are awaited, and each of them holds the others up *)
(* no more than once.                                                      *)
LEMMA TimePassesKeeps == HealthInv /\ TimePasses => HealthInv'
  <1> SUFFICES ASSUME HealthInv, TimePasses PROVE HealthInv'
    OBVIOUS
  <1>1. /\ UNCHANGED <<working, health, fails, todo, telling, misses>>
        /\ \/ todo = {} /\ pause /\ pause' = FALSE /\ slow' = slow /\ late' = late
           \/ /\ todo # {} /\ slow' = telling /\ pause' = pause
              /\ late' = IF slow = {} /\ ~(\E s \in todo : Turn(s)) THEN late ELSE Beating
        /\ slow' \subseteq telling /\ late' \subseteq Beating
    BY DEF TimePasses, HealthInv, HealthTypeOK
  <1>2. /\ silent' \in [Beating -> 0..DetectionTime]
        /\ \A s \in Beating : silent'[s] <= silent[s] + 1
    <2>1. ASSUME NEW s \in Beating
          PROVE  LET most == IF s \in late' THEN FreshFor ELSE DetectionTime
                     x == IF silent[s] < most THEN silent[s] + 1 ELSE most
                 IN  x \in 0..DetectionTime /\ x <= silent[s] + 1
      <3>1. silent[s] \in 0..DetectionTime /\ DetectionTime \in Nat
        BY RoundNumbers DEF HealthInv, HealthTypeOK
      <3>2. FreshFor \in Nat /\ FreshFor <= DetectionTime
        <4>1. DownAfter * RoundTime \in Nat /\ FreshFor \in Nat
          <5>1. \A d, r \in Nat : d * r \in Nat
            OBVIOUS
          <5>. QED
            BY <5>1, RoundNumbers
        <4>. QED
          BY <4>1 DEF DetectionTime
      <3>. QED
        BY <3>1, <3>2
    <2>2. silent' = [s \in Beating |->
                       LET most == IF s \in late' THEN FreshFor ELSE DetectionTime
                       IN  IF silent[s] < most THEN silent[s] + 1 ELSE most]
      BY DEF TimePasses
    <2>. QED
      BY <2>1, <2>2
  <1>3. HealthTypeOK' /\ DownIsCounted' /\ InTurn'
    BY <1>1, <1>2 DEF HealthInv, HealthTypeOK, DownIsCounted, InTurn
  <1>9. CASE todo # {} /\ ~(slow = {} /\ ~(\E s \in todo : Turn(s)))
    <2>1. late' = Beating
      BY <1>1, <1>9
    <2>2. CheckedInTime'
      BY <2>1, RoundNumbers DEF CheckedInTime
    <2>. QED
      BY <1>3, <2>2 DEF HealthInv
  <1> SUFFICES ASSUME todo # {} => slow = {} /\ ~(\E s \in todo : Turn(s))
               PROVE  HealthInv'
    BY <1>9
  <1>10. late' = late
    BY <1>1
  <1>4. ASSUME NEW i \in DOMAIN Services, todo = {}
        PROVE  \A v \in Waits(i)' : \E w \in Waits(i) : v + 1 <= w
    <2>1. i \in Nat /\ i >= 1
      BY RoundNumbers
    <2>2. Waits(i) = {i} /\ Waits(i)' = {i - 1}
      BY <1>1, <1>4, WaitsAre
    <2>. QED
      BY <2>1, <2>2
  <1>5. ASSUME todo # {}, NEW k \in ToWaitFor'
        PROVE  \E j \in ToWaitFor : j < k
    <2>1. k \in DOMAIN Services /\ Services[k] \in todo \ telling /\ ~Turn(Services[k])
      BY <1>1, <1>5 DEF ToWaitFor
    <2>2. PICK j, l \in DOMAIN Services :
                Services[l] = Services[k] /\ j < l /\ Services[j] \in todo
      BY <2>1 DEF Turn
    <2>3. l = k
      BY <2>1, <2>2, HealthAssumption
    <2>. QED
      BY <1>1, <1>5, <2>2, <2>3 DEF ToWaitFor
  <1>6. todo # {} => Probed \cap (todo' \ slow') = {}
    <2> SUFFICES ASSUME todo # {}, NEW p \in Probed, p \in todo \ telling PROVE FALSE
      BY <1>1
    <2>1. \A j \in DOMAIN Services : Services[j] # p
      BY HealthAssumption DEF Beating
    <2>2. Turn(p)
      BY <2>1 DEF Turn
    <2>. QED
      BY <1>1, <2>2
  <1>7. ASSUME NEW i \in DOMAIN Services, todo # {}
        PROVE  \A v \in Waits(i)' : \E w \in Waits(i) : v + 1 <= w
    <2>0. i \in Nat /\ i >= 1 /\ Len(Services) \in Nat
          /\ \A k \in DOMAIN Services : k \in Nat /\ k >= 1 /\ k <= Len(Services)
      BY RoundNumbers
    <2>00. ToWaitFor \subseteq DOMAIN Services /\ ToWaitFor' \subseteq DOMAIN Services
      BY DEF ToWaitFor
    <2>1. CASE Services[i] \in todo \ telling
      <3>1. \A w : w \in Waits(i) <=> \E k \in ToWaitFor : k <= i /\ w = i - k
        BY <2>1, WaitsAre
      <3>2. \A v : v \in Waits(i)' <=> \E k \in ToWaitFor' : k <= i /\ v = i - k
        BY <1>1, <2>1, WaitsAre
      <3>3. ASSUME NEW v \in Waits(i)'
            PROVE  \E w \in Waits(i) : v + 1 <= w
        <4>1. PICK k \in ToWaitFor' : k <= i /\ v = i - k
          BY <3>2
        <4>2. PICK j \in ToWaitFor : j < k
          BY <1>5, <1>7
        <4>3. j \in Nat /\ k \in Nat
          BY <2>0, <2>00, <4>1, <4>2
        <4>4. j <= i /\ v + 1 <= i - j
          BY <2>0, <4>1, <4>2, <4>3
        <4>5. i - j \in Waits(i)
          BY <3>1, <4>2, <4>4
        <4>. QED
          BY <4>4, <4>5
      <3>. QED
        BY <3>3
    <2>2. CASE Services[i] \notin todo \ telling
      <3>1. \A w : w \in Waits(i) <=>
                    \/ w = i
                    \/ \E k \in ToWaitFor : w = i + Len(Services) - k + 1
                    \/ Probed \cap (todo \ slow) # {} /\ w = i + 1
        BY <1>7, <2>2, WaitsAre
      <3>2. \A v : v \in Waits(i)' <=>
                    \/ v = i
                    \/ \E k \in ToWaitFor' : v = i + Len(Services) - k + 1
                    \/ Probed \cap (todo' \ slow') # {} /\ v = i + 1
        BY <1>1, <1>7, <2>2, WaitsAre
      <3>3. \E w \in Waits(i) : i + 1 <= w
        <4>1. PICK x \in todo : TRUE
          BY <1>7
        <4>2. CASE x \in Probed
          <5>1. i + 1 \in Waits(i)
            BY <1>1, <1>7, <3>1, <4>2
          <5>2. i + 1 <= i + 1
            BY <2>0
          <5>. QED
            BY <5>1, <5>2
        <4>3. CASE x \notin Probed
          <5>1. PICK k \in DOMAIN Services : Services[k] = x
            BY <4>3 DEF HealthInv, HealthTypeOK, Watched, Beating
          <5>2. k \in ToWaitFor
            BY <1>1, <1>7, <5>1 DEF ToWaitFor
          <5>3. i + Len(Services) - k + 1 \in Waits(i)
            BY <3>1, <5>2
          <5>4. i + 1 <= i + Len(Services) - k + 1
            BY <2>0, <5>1
          <5>. QED
            BY <5>3, <5>4
        <4>. QED
          BY <4>2, <4>3
      <3>4. ASSUME NEW k \in ToWaitFor'
            PROVE  \E w \in Waits(i) : (i + Len(Services) - k + 1) + 1 <= w
        <4>1. PICK j \in ToWaitFor : j < k
          BY <1>5, <1>7, <3>4
        <4>2. j \in Nat /\ k \in Nat
          BY <2>0, <2>00, <4>1
        <4>3. (i + Len(Services) - k + 1) + 1 <= i + Len(Services) - j + 1
          BY <2>0, <4>1, <4>2
        <4>4. i + Len(Services) - j + 1 \in Waits(i)
          BY <3>1, <4>1
        <4>. QED
          BY <4>3, <4>4
      <3>. QED
        BY <1>6, <1>7, <3>2, <3>3, <3>4
    <2>. QED
      BY <2>1, <2>2
  <1>8. CheckedInTime'
    <2>1. ASSUME NEW i \in DOMAIN Services
          PROVE  /\ fails'[Services[i]] = fails[Services[i]]
                 /\ silent'[Services[i]] <= silent[Services[i]] + 1
                 /\ \A v \in Waits(i)' : \E w \in Waits(i) : v + 1 <= w
      <3>1. Services[i] \in Beating
        BY RoundNumbers
      <3>. QED
        BY <1>1, <1>2, <1>4, <1>7, <3>1
    <2>2. 1 \in {0, 1}
      OBVIOUS
    <2>3. ASSUME NEW i \in DOMAIN Services, Services[i] \notin late
          PROVE  fails'[Services[i]] < DownAfter =>
                   \A v \in Waits(i)' :
                      Overdue(Services[i])' + v <= (fails'[Services[i]] + 1) * RoundTime
      BY <1>3, <2>1, <2>2, <2>3, WaitsShorten
    <2>. QED
      BY <1>10, <2>3 DEF CheckedInTime
  <1>. QED
    BY <1>3, <1>8 DEF HealthInv

(* A check is done or waits for its alert.  For the service it was about,  *)
(* it starts a new wait, one that a failure counted allows and a success   *)
(* leaves room for; for the others nothing is put off.                     *)
LEMMA RecordKeeps ==
    ASSUME HealthInv, NEW s \in Watched, RecordSuccess(s) \/ RecordFailure(s)
    PROVE  HealthInv'
  <1>0. HealthTypeOK
    BY DEF HealthInv
  <1>1. PICK st \in {"HEALTHY", "DEGRADED", "DOWN"}, f \in 0..DownAfter :
           /\ Turn(s) /\ Finish(s, st)
           /\ UNCHANGED <<working, silent, slow, late>> /\ misses' \in 0..MaxMisses
           /\ fails' = [fails EXCEPT ![s] = f]
           /\ f = DownAfter => st = "DOWN"
           /\ \/ f = 0 /\ Found(s)
              \/ f = fails[s] + 1
              \/ f = DownAfter
    <2>1. fails[s] \in 0..DownAfter /\ DownAfter \in Nat /\ DownAfter > 1
          /\ misses \in 0..MaxMisses /\ MaxMisses \in Nat
      BY RoundNumbers, HealthAssumption, <1>0 DEF HealthTypeOK
    <2>2. CASE RecordSuccess(s)
      <3>1. 0 \in 0..DownAfter /\ 0 # DownAfter
        BY <2>1
      <3>. QED
        BY <2>1, <2>2, <3>1 DEF RecordSuccess
    <2>3. CASE RecordFailure(s)
      <3> DEFINE f == IF fails[s] < DownAfter THEN fails[s] + 1 ELSE fails[s]
      <3>1. f \in 0..DownAfter /\ (f = fails[s] + 1 \/ f = DownAfter)
        BY <2>1
      <3>2. fails' = [fails EXCEPT ![s] = f] /\ fails'[s] = f
        BY <1>0, <2>3 DEF RecordFailure, HealthTypeOK
      <3>3. misses' \in 0..MaxMisses
        BY <2>1, <2>3 DEF RecordFailure
      <3> HIDE DEF f
      <3>4. Finish(s, IF f >= DownAfter THEN "DOWN" ELSE "DEGRADED")
            /\ Turn(s) /\ UNCHANGED <<working, silent, slow, late>>
        BY <2>3, <3>2 DEF RecordFailure
      <3>5. f = DownAfter => f >= DownAfter
        BY <2>1
      <3>6. CASE f >= DownAfter
        BY <3>1, <3>2, <3>3, <3>4, <3>6
      <3>7. CASE ~(f >= DownAfter)
        BY <3>1, <3>2, <3>3, <3>4, <3>5, <3>7
      <3>. QED
        BY <3>6, <3>7
    <2>. QED
      BY <2>2, <2>3
  <1>2. /\ s \in todo \ telling /\ health' = [health EXCEPT ![s] = st]
        /\ \/ telling' = telling \cup {s} /\ todo' = todo /\ pause' = pause
           \/ telling' = telling /\ todo' = todo \ {s} /\ pause' = (todo = {s})
        /\ \A i, j \in DOMAIN Services :
              Services[j] = s /\ i < j => Services[i] \notin todo
    BY <1>1 DEF Turn, Finish
  <1>3. HealthTypeOK'
    BY <1>0, <1>1, <1>2 DEF HealthTypeOK
  <1>4. DownIsCounted' /\ InTurn'
    <2>1. DownIsCounted'
      BY <1>0, <1>1, <1>2 DEF HealthInv, HealthTypeOK, DownIsCounted
    <2>2. InTurn'
      BY <1>2 DEF HealthInv, InTurn
    <2>. QED
      BY <2>1, <2>2
  <1>5. todo' = {} => pause'
    BY <1>2
  <1>6. ASSUME NEW i \in DOMAIN Services, Services[i] # s, Services[i] \notin late
        PROVE  fails'[Services[i]] < DownAfter =>
                 \A v \in Waits(i)' :
                    Overdue(Services[i])' + v <= (fails'[Services[i]] + 1) * RoundTime
    <2>1. Waits(i)' \subseteq Waits(i)
      <3>1. /\ todo' \subseteq todo /\ todo \subseteq todo' \cup {s}
            /\ todo' \ slow' \subseteq todo \ slow
            /\ Services[i] \in todo \ telling <=> Services[i] \in todo' \ telling'
        BY <1>1, <1>2, <1>6
      <3>. QED
        BY <1>0, <1>2, <1>5, <3>1, OthersWaitNoLonger
    <2>2. Waits(i) \subseteq Nat
      BY WaitsAreNumbers, <1>0 DEF WaitsTypeOK
    <2>3. silent[Services[i]] \in Nat /\ fails'[Services[i]] = fails[Services[i]]
      BY <1>0, <1>1, <1>6, RoundNumbers DEF HealthTypeOK
    <2>4. \A v \in Waits(i)' : \E w \in Waits(i) : v + 0 <= w
      BY <2>1, <2>2
    <2>5. silent'[Services[i]] <= silent[Services[i]] + 0
      BY <1>1, <2>3
    <2>6. 0 \in {0, 1}
      OBVIOUS
    <2>. QED
      BY <1>3, <1>6, <2>3, <2>4, <2>5, <2>6, WaitsShorten
  <1>7. ASSUME NEW i \in DOMAIN Services, Services[i] = s, s \notin late, f < DownAfter
        PROVE  \A v \in Waits(i)' : Overdue(s)' + v <= (f + 1) * RoundTime
    <2>1. \A v \in Waits(i)' : v <= RoundTime
      <3>1. s \notin todo' \ telling' /\ \A k \in DOMAIN Services : k < i => Services[k] \notin todo'
        BY <1>2, <1>7
      <3>. QED
        BY <1>0, <1>5, <1>7, <3>1, CheckedWaitsARound
    <2>2. Waits(i)' \subseteq Nat
      <3>1. HealthTypeOK' => WaitsTypeOK'
        BY WaitsAreNumbers, PTL
      <3>. QED
        BY <1>3, <3>1 DEF WaitsTypeOK
    <2>3. /\ Overdue(s)' = Overdue(s) /\ Overdue(s) \in Nat /\ fails[s] \in Nat
          /\ RoundTime \in Nat /\ f \in Nat
      <3>1. Overdue(s)' = Overdue(s)
        BY <1>1 DEF Overdue
      <3>. QED
        BY <1>0, <1>1, <1>3, <1>7, <3>1, OverdueIs, RoundNumbers
    <2>4. CASE f = 0 /\ Found(s)
      <3>1. s \in Beating /\ s \notin Probed
        BY <1>7, HealthAssumption, RoundNumbers
      <3>2. Overdue(s) = 0
        BY <2>4, <3>1 DEF Found, Overdue
      <3>. QED
        BY <2>1, <2>2, <2>3, <2>4, <3>2, RoundsAddUp
    <2>5. CASE f = fails[s] + 1
      <3>1. fails[s] < DownAfter /\ DownAfter \in Nat
        BY <1>7, <2>3, <2>5, RoundNumbers
      <3>2. PICK w \in Waits(i) : w \in Nat
        BY WaitsAreNumbers, <1>0 DEF WaitsTypeOK
      <3>3. Overdue(s) + w <= (fails[s] + 1) * RoundTime
        BY <1>7, <3>1, <3>2 DEF HealthInv, CheckedInTime
      <3>4. /\ (fails[s] + 1) * RoundTime \in Nat
            /\ (f + 1) * RoundTime = (fails[s] + 1) * RoundTime + RoundTime
        BY <2>3, <2>5, RoundsAddUp
      <3>5. \A a, x, v, r, m \in Nat : a + x <= m /\ v <= r => a + v <= m + r
        OBVIOUS
      <3>. QED
        BY <2>1, <2>2, <2>3, <3>2, <3>3, <3>4, <3>5
    <2>6. CASE f = DownAfter
      BY <1>7, <2>3, <2>6
    <2>. QED
      BY <1>1, <2>4, <2>5, <2>6
  <1>8. CheckedInTime'
    <2>1. ASSUME NEW i \in DOMAIN Services, Services[i] \notin late
          PROVE  fails'[Services[i]] < DownAfter =>
                   \A v \in Waits(i)' :
                      Overdue(Services[i])' + v <= (fails'[Services[i]] + 1) * RoundTime
      <3>1. CASE Services[i] # s
        BY <1>6, <2>1, <3>1
      <3>2. CASE Services[i] = s
        <4>1. fails'[s] = f
          BY <1>0, <1>1 DEF HealthTypeOK
        <4>. QED
          BY <1>7, <2>1, <3>2, <4>1
      <3>. QED
        BY <3>1, <3>2
    <2>. QED
      BY <1>1, <2>1 DEF CheckedInTime
  <1>. QED
    BY <1>3, <1>4, <1>8 DEF HealthInv

(* An alert was delivered: its check is over.                              *)
LEMMA AlertToldKeeps ==
    ASSUME HealthInv, NEW s \in Watched, AlertTold(s)
    PROVE  HealthInv'
  <1>1. /\ s \in telling /\ telling' = telling \ {s} /\ slow' = slow \ {s}
        /\ todo' = todo \ {s} /\ pause' = (todo = {s})
        /\ UNCHANGED <<working, silent, health, fails, late, misses>>
    BY DEF AlertTold
  <1>2. HealthTypeOK' /\ DownIsCounted' /\ InTurn'
    <2>1. HealthTypeOK' /\ DownIsCounted'
      BY <1>1 DEF HealthInv, HealthTypeOK, DownIsCounted
    <2>2. InTurn'
      BY <1>1 DEF HealthInv, InTurn
    <2>. QED
      BY <2>1, <2>2
  <1>3. ASSUME NEW i \in DOMAIN Services
        PROVE  /\ \A v \in Waits(i)' : \E w \in Waits(i) : v + 0 <= w
               /\ silent'[Services[i]] <= silent[Services[i]] + 0
    <2>1. Waits(i)' \subseteq Waits(i)
      <3>1. /\ s \in todo /\ todo' \subseteq todo /\ todo \subseteq todo' \cup {s}
            /\ todo' \ slow' \subseteq todo \ slow /\ (todo' = {} => pause')
            /\ Services[i] \in todo \ telling <=> Services[i] \in todo' \ telling'
        BY <1>1 DEF HealthInv, HealthTypeOK
      <3>. QED
        BY <3>1, OthersWaitNoLonger DEF HealthInv
    <2>2. Waits(i) \subseteq Nat
      BY WaitsAreNumbers DEF HealthInv, WaitsTypeOK
    <2>3. silent[Services[i]] \in Nat
      BY RoundNumbers DEF HealthInv, HealthTypeOK
    <2>. QED
      BY <1>1, <2>1, <2>2, <2>3
  <1>4. CheckedInTime'
    BY <1>1, <1>2, <1>3, WaitsShorten DEF CheckedInTime
  <1>. QED
    BY <1>2, <1>4 DEF HealthInv

(* The services have just published heartbeats, and no round is under way. *)
LEMMA InitHealthInv == HealthInit => HealthInv
  <1> SUFFICES ASSUME HealthInit PROVE HealthInv
    OBVIOUS
  <1>1. 0 \in 0..DetectionTime /\ 0 \in 0..DownAfter /\ 0 \in 0..MaxMisses /\ 0 # DownAfter
    BY RoundNumbers, HealthAssumption
  <1>2. HealthTypeOK
    BY <1>1 DEF HealthInit, HealthTypeOK
  <1>3. DownIsCounted
    BY <1>1 DEF HealthInit, DownIsCounted
  <1>4. CheckedInTime
    <2> SUFFICES ASSUME NEW i \in DOMAIN Services, NEW w \in Waits(i)
                 PROVE  Overdue(Services[i]) + w <= (fails[Services[i]] + 1) * RoundTime
      BY DEF CheckedInTime
    <2>1. /\ i \in Nat /\ i >= 1 /\ i <= Len(Services) /\ Len(Services) \in Nat
          /\ Services[i] \in Beating /\ Services[i] \in Watched /\ FreshFor \in Nat
          /\ RoundTime = Len(Services) + 1 /\ RoundTime \in Nat
      BY RoundNumbers
    <2>2. w = i - 1
      BY WaitsAre DEF HealthInit
    <2>3. Overdue(Services[i]) \in {0, 1} /\ fails[Services[i]] = 0
      BY <2>1 DEF HealthInit, Overdue
    <2>4. (0 + 1) * RoundTime = RoundTime
      BY <2>1, RoundsAddUp
    <2>. QED
      BY <2>1, <2>2, <2>3, <2>4
  <1>. QED
    BY <1>2, <1>3, <1>4 DEF HealthInv, InTurn, HealthInit

(* Every round, heartbeat, check and delivery keeps the invariant.         *)
LEMMA HealthKeeps == HealthInv /\ [HealthNext]_healthVars => HealthInv'
  BY StartRoundKeeps, BeatsKeep, TimePassesKeeps, RecordKeeps, AlertToldKeeps
     DEF HealthNext, Check

(* In whatever order heartbeats, checks and the deliveries of their alerts *)
(* come, a silent service is checked often enough.                         *)
THEOREM HealthInvariant == HealthSpec => []HealthInv
  BY InitHealthInv, HealthKeeps, PTL DEF HealthSpec

(* Whoever is silent for that long has failed as many checks as it takes.  *)
LEMMA HealthInvSays == HealthInv => HealthSound
  <1> SUFFICES ASSUME HealthInv, NEW s \in Beating \ late, silent[s] = DetectionTime
               PROVE  health[s] = "DOWN"
    BY DEF HealthInv, HealthSound, DetectedInTime
  <1>1. PICK i \in DOMAIN Services : Services[i] = s
    BY DEF Beating
  <1>2. /\ RoundTime \in Nat /\ FreshFor \in Nat /\ DownAfter \in Nat
        /\ s \in Watched /\ fails[s] \in 0..DownAfter /\ fails[s] \in Nat
    <2>1. RoundTime \in Nat /\ FreshFor \in Nat /\ DownAfter \in Nat /\ s \in Watched
      BY <1>1, RoundNumbers
    <2>. QED
      BY <2>1 DEF HealthInv, HealthTypeOK
  <1>3. CASE fails[s] < DownAfter
    <2>1. PICK w \in Waits(i) : w \in Nat
      BY WaitsAreNumbers DEF HealthInv, WaitsTypeOK
    <2>2. Overdue(s) + w <= (fails[s] + 1) * RoundTime
      BY <1>1, <1>3, <2>1 DEF HealthInv, CheckedInTime
    <2>3. (fails[s] + 1) * RoundTime <= DownAfter * RoundTime
          /\ (fails[s] + 1) * RoundTime \in Nat
      BY <1>2, <1>3, RoundsAddUp
    <2>4. Overdue(s) = DownAfter * RoundTime + 1 /\ DownAfter * RoundTime \in Nat
      <3>1. \A d, r, f \in Nat : d * r \in Nat /\ ~(f + d * r < f) /\ f + d * r - f + 1 = d * r + 1
        OBVIOUS
      <3>. QED
        BY <1>2, <3>1 DEF Overdue, DetectionTime
    <2>5. \A a, b, x \in Nat : ~(a + 1 + x <= b /\ b <= a)
      OBVIOUS
    <2>. QED
      BY <2>1, <2>2, <2>3, <2>4, <2>5
  <1>4. CASE fails[s] = DownAfter
    BY <1>2, <1>4 DEF HealthInv, DownIsCounted
  <1>. QED
    BY <1>2, <1>3, <1>4

(* A service that is silent for the detection time is known to be down, if *)
(* no delivery and no answer took more than a unit of it.                  *)
THEOREM HealthIsSound == HealthSpec => []HealthSound
  BY HealthInvariant, HealthInvSays, PTL

-----------------------------------------------------------------------------
(* The daemon.  What it says of a day in the closing report lies in four   *)
(* variables set on different days (result, engineDays, report, wakeDay):  *)
(* the invariant orders them in time.                                      *)

(* Everything up to a running engine happens to a service that was not     *)
(* told to stop, on a trading day, and from its launch on after 9:00.      *)
SessionInHours ==
    /\ doing \in {"session", "wait open", "launch", "trade", "retry"} => serving
    /\ doing \in {"wait open", "launch", "trade"} => today \in TradingDays
    /\ doing \in {"launch", "trade"} => phase >= Open
    /\ doing = "launch" => started \subseteq pidFile
    /\ doing # "launch" => started = {}
    /\ doing = "trade" => engineDay = today /\ pidFile = Processes
                          /\ today \in engineDays

(* The daemon never oversleeps.                                            *)
SleepsTillMorning ==
    doing = "sleep" => \/ today + 1 = wakeDay
                       \/ today = wakeDay /\ phase <= Early

(* No process is without the file by which it is found and stopped.        *)
AliveHavePidFile == \A p \in Processes : children[p] = "alive" => p \in pidFile

StoppedAreGone == ~serving => \A p \in Processes : children[p] # "alive"

(* Once an engine has returned, the result is that of the latest one.      *)
ResultIsLatest ==
    /\ \A d \in engineDays : d <= today
    /\ result # NoDay => result <= today
    /\ \A d \in engineDays :
          \/ doing = "trade" /\ d = today
          \/ result # NoDay /\ d <= result

(* A report belongs to a day on which no engine can run any more.          *)
ReportIsPast ==
    report # NoDay =>
        /\ report.on <= today
        /\ doing \notin {"sleep", "ended"} => report.on < today
        /\ doing = "sleep" => report.on < wakeDay

ServiceInv ==
    /\ ServiceTypeOK /\ SessionInHours /\ SleepsTillMorning
    /\ AliveHavePidFile /\ StoppedAreGone
    /\ ResultIsLatest /\ ReportIsPast /\ ReportsItsDay

USE ServiceAssumption DEF Day, Morning, Early, Open, Closed

-----------------------------------------------------------------------------
(* What the invariant says of days, processes and reports.                 *)
LEMMA InvIsSound == ServiceInv => ServiceSound
BY DEF ServiceInv, ServiceSound, SessionInHours, SleepsTillMorning, StoppedAreGone,
       ServiceTypeOK, TradesInHours, StopsForGood

(* The daemon begins in the morning, with nothing started.                 *)
LEMMA InitServiceInv == ServiceInit => ServiceInv
BY DEF ServiceInit, ServiceInv, ServiceTypeOK, SessionInHours, SleepsTillMorning,
       AliveHavePidFile, StoppedAreGone, ResultIsLatest, ReportIsPast, ReportsItsDay

(* The days and hours that a type-correct state names.                     *)
LEMMA DayFacts ==
    ASSUME ServiceTypeOK
    PROVE  /\ today \in 0..LastDay /\ phase \in 0..3 /\ wakeDay \in 0..(LastDay + 1)
           /\ engineDays \subseteq 0..LastDay
           /\ result # NoDay => result \in 0..LastDay
           /\ report # NoDay => report.on \in 0..LastDay /\ report.of \in 0..LastDay
<1>1. report # NoDay => report.on \in 0..LastDay /\ report.of \in 0..LastDay
  BY DEF ServiceTypeOK
<1> QED
  BY <1>1 DEF ServiceTypeOK

(* Steps that only move the daemon on.                                     *)
LEMMA MovesKeep ==
    ASSUME ServiceInv,
           BeginSession \/ MarketOpens \/ WakeUp \/ Retry \/ SessionFails
    PROVE  ServiceInv'
<1>1. CASE BeginSession
  <2>1. /\ \/ /\ today \in TradingDays /\ wakeDay' = wakeDay
              /\ \/ phase < Open /\ doing' = "wait open"
                 \/ phase >= Open /\ doing' = "launch"
           \/ doing' = "sleep" /\ wakeDay' = today + 1
        /\ doing = "session"
        /\ UNCHANGED <<started, today, phase, serving, children, pidFile, engineDay,
                       result, report, engineDays, errors>>
    BY <1>1 DEF BeginSession
  <2>2. ServiceTypeOK'
    <3>1. wakeDay' \in 0..(LastDay + 1)
      <4>1. today \in 0..LastDay /\ wakeDay \in 0..(LastDay + 1)
        BY DayFacts DEF ServiceInv
      <4>2. wakeDay' = wakeDay \/ wakeDay' = today + 1
        BY <2>1
      <4> QED
        BY <4>1, <4>2
    <3>2. doing' \in {"wait open", "launch", "sleep"}
      BY <2>1
    <3> QED
      BY <2>1, <3>1, <3>2 DEF ServiceInv, ServiceTypeOK
  <2>3. SessionInHours' /\ SleepsTillMorning' /\ AliveHavePidFile' /\ StoppedAreGone'
    BY <2>1 DEF ServiceInv, SessionInHours, SleepsTillMorning, AliveHavePidFile,
       StoppedAreGone
  <2>4. ResultIsLatest' /\ ReportsItsDay'
    BY <2>1 DEF ServiceInv, ResultIsLatest, ReportsItsDay
  <2>5. ReportIsPast'
    <3>1. report # NoDay => report.on < today
      BY <2>1 DEF ServiceInv, ReportIsPast
    <3>2. today \in 0..LastDay /\ (report # NoDay => report.on \in 0..LastDay)
      BY DayFacts DEF ServiceInv
    <3>3. report' = report /\ today' = today /\ (doing' = "sleep" => wakeDay' = today + 1)
      BY <2>1
    <3> QED
      BY <3>1, <3>2, <3>3 DEF ReportIsPast
  <2> QED
    BY <2>2, <2>3, <2>4, <2>5 DEF ServiceInv
<1>2. CASE MarketOpens
  BY <1>2 DEF MarketOpens, ServiceInv, ServiceTypeOK, SessionInHours,
       SleepsTillMorning, AliveHavePidFile, StoppedAreGone, ResultIsLatest,
       ReportIsPast, ReportsItsDay
<1>3. CASE WakeUp
  BY <1>3 DEF WakeUp, ServiceInv, ServiceTypeOK, SessionInHours,
       SleepsTillMorning, AliveHavePidFile, StoppedAreGone, ResultIsLatest,
       ReportIsPast, ReportsItsDay
<1>4. CASE Retry
  BY <1>4 DEF Retry, ServiceInv, ServiceTypeOK, SessionInHours,
       SleepsTillMorning, AliveHavePidFile, StoppedAreGone, ResultIsLatest,
       ReportIsPast, ReportsItsDay
<1>5. CASE SessionFails
  BY <1>5 DEF SessionFails, ServiceInv, ServiceTypeOK, SessionInHours,
       SleepsTillMorning, AliveHavePidFile, StoppedAreGone, ResultIsLatest,
       ReportIsPast, ReportsItsDay
<1> QED
  BY <1>1, <1>2, <1>3, <1>4, <1>5

(* Steps of the processes, of which the daemon learns by their files only. *)
LEMMA ProcessesKeep ==
    ASSUME ServiceInv, NEW p \in Processes, StartProcess(p) \/ ProcessDies(p)
    PROVE  ServiceInv'
<1>1. /\ children' \in [Processes -> {"none", "alive", "zombie"}]
      /\ pidFile' \subseteq Processes /\ started' \subseteq Processes
  BY DEF StartProcess, ProcessDies, ServiceInv, ServiceTypeOK
<1>2. /\ UNCHANGED <<today, phase, doing, wakeDay, serving, engineDay, result,
                     report, engineDays, errors>>
      /\ doing # "launch" => UNCHANGED <<pidFile, started>>
      /\ doing = "launch" /\ started \subseteq pidFile => started' \subseteq pidFile'
  BY DEF StartProcess, ProcessDies, IsRunning
<1>3. AliveHavePidFile'
  BY DEF StartProcess, ProcessDies, ServiceInv, ServiceTypeOK, AliveHavePidFile
<1>4. StoppedAreGone'
  BY DEF StartProcess, ProcessDies, ServiceInv, ServiceTypeOK, StoppedAreGone,
         SessionInHours
<1>5. ServiceTypeOK' /\ SessionInHours' /\ SleepsTillMorning'
  BY <1>1, <1>2 DEF ServiceInv, ServiceTypeOK, SessionInHours, SleepsTillMorning
<1>6. ResultIsLatest' /\ ReportIsPast' /\ ReportsItsDay'
  BY <1>2 DEF ServiceInv, ResultIsLatest, ReportIsPast, ReportsItsDay
<1> QED
  BY <1>3, <1>4, <1>5, <1>6 DEF ServiceInv

(* stop_all() leaves no process alive and no pid file.                     *)
LEMMA StopAllStops ==
    ASSUME ServiceTypeOK, AliveHavePidFile, StopAll
    PROVE  /\ children' \in [Processes -> {"none", "alive", "zombie"}]
           /\ pidFile' = {}
           /\ \A p \in Processes : children'[p] # "alive"
BY DEF StopAll, ServiceTypeOK, AliveHavePidFile

(* A preparation runs an engine on its day, or closes the day without.     *)
LEMMA PrepareKeeps ==
    ASSUME ServiceInv, Prepare  PROVE ServiceInv'
<1>1. ServiceTypeOK'
  BY DEF Prepare, ServiceInv, ServiceTypeOK
<1>2. SessionInHours' /\ SleepsTillMorning' /\ AliveHavePidFile' /\ StoppedAreGone'
  BY DEF Prepare, ServiceInv, ServiceTypeOK, SessionInHours, SleepsTillMorning,
         AliveHavePidFile, StoppedAreGone
<1>3. /\ doing = "launch"
      /\ \/ doing' = "close" /\ engineDays' = engineDays
         \/ doing' = "trade" /\ engineDays' = engineDays \cup {today}
      /\ UNCHANGED <<today, wakeDay, result, report>>
  BY DEF Prepare
<1>4. ResultIsLatest'
  BY <1>3, DayFacts DEF ServiceInv, ResultIsLatest
<1>5. ReportIsPast'
  BY <1>3 DEF ServiceInv, ReportIsPast
<1>6. ReportsItsDay'
  <2> SUFFICES ASSUME report # NoDay
               PROVE  IF report.on \in engineDays' THEN report.of = report.on
                      ELSE \A d \in engineDays' : d < report.on => d <= report.of
    BY <1>3 DEF ReportsItsDay
  <2>1. report.on < today /\ report.on \in Nat /\ today \in Nat
    BY <1>3, DayFacts DEF ServiceInv, ReportIsPast
  <2>2. IF report.on \in engineDays THEN report.of = report.on
        ELSE \A d \in engineDays : d < report.on => d <= report.of
    BY DEF ServiceInv, ReportsItsDay
  <2> QED
    BY <1>3, <2>1, <2>2
<1> QED
  BY <1>1, <1>2, <1>4, <1>5, <1>6 DEF ServiceInv

(* The engine of the day returns with its result, or fails.                *)
LEMMA EngineReturnsKeeps ==
    ASSUME ServiceInv, EngineReturns  PROVE ServiceInv'
<1>1. ServiceTypeOK'
  BY DEF EngineReturns, ServiceInv, ServiceTypeOK
<1>2. SessionInHours' /\ SleepsTillMorning' /\ AliveHavePidFile' /\ StoppedAreGone'
  BY DEF EngineReturns, ServiceInv, ServiceTypeOK, SessionInHours,
         SleepsTillMorning, AliveHavePidFile, StoppedAreGone
<1>3. result' = today
  BY DEF EngineReturns, ServiceInv, SessionInHours
<1>4. ResultIsLatest' /\ ReportIsPast' /\ ReportsItsDay'
  BY <1>3 DEF EngineReturns, ServiceInv, ServiceTypeOK, ResultIsLatest,
         ReportIsPast, ReportsItsDay
<1> QED
  BY <1>1, <1>2, <1>4 DEF ServiceInv

(* A report is made on the day whose result it tells, if that day had one. *)
LEMMA CloseSessionKeeps ==
    ASSUME ServiceInv, CloseSession  PROVE ServiceInv'
<1>1. /\ children' \in [Processes -> {"none", "alive", "zombie"}]
      /\ pidFile' = {}
      /\ \A p \in Processes : children'[p] # "alive"
  BY StopAllStops DEF CloseSession, ServiceInv
<1>2. /\ doing = "close" /\ doing' = "sleep" /\ wakeDay' = today + 1
      /\ report' = IF result = NoDay THEN report ELSE [on |-> today, of |-> result]
      /\ UNCHANGED <<started, today, phase, serving, engineDay, result, engineDays,
                     errors>>
  BY DEF CloseSession
<1>3. ServiceTypeOK'
  BY <1>1, <1>2 DEF ServiceInv, ServiceTypeOK
<1>4. SessionInHours' /\ SleepsTillMorning' /\ AliveHavePidFile' /\ StoppedAreGone'
  BY <1>1, <1>2 DEF ServiceInv, ServiceTypeOK, SessionInHours, SleepsTillMorning,
         AliveHavePidFile, StoppedAreGone
<1>5. ResultIsLatest'
  BY <1>2 DEF ServiceInv, ServiceTypeOK, ResultIsLatest
<1>6. ReportIsPast' /\ ReportsItsDay'
  <2>1. CASE result = NoDay
    BY <1>2, <2>1 DEF ServiceInv, ServiceTypeOK, ReportIsPast, ReportsItsDay
  <2>2. CASE result # NoDay
    <3>1. report'.on = today /\ report'.of = result
      BY <1>2, <2>2
    <3>2. ReportIsPast'
      BY <1>2, <3>1 DEF ServiceInv, ServiceTypeOK, ReportIsPast
    <3>3. ReportsItsDay'
      BY <1>2, <2>2, <3>1 DEF ServiceInv, ServiceTypeOK, ResultIsLatest, ReportsItsDay
    <3> QED
      BY <3>2, <3>3
  <2> QED
    BY <2>1, <2>2
<1> QED
  BY <1>3, <1>4, <1>5, <1>6 DEF ServiceInv

(* SIGTERM stops everything, and a running engine's result is its day's.   *)
LEMMA TerminateKeeps ==
    ASSUME ServiceInv, Terminate  PROVE ServiceInv'
<1>1. /\ children' \in [Processes -> {"none", "alive", "zombie"}]
      /\ pidFile' = {}
      /\ \A p \in Processes : children'[p] # "alive"
  BY StopAllStops DEF Terminate, ServiceInv
<1>2. /\ serving' = FALSE /\ started' = {}
      /\ \/ doing = "trade" /\ doing' = "close" /\ result' = engineDay
         \/ doing # "trade" /\ doing' = "ended" /\ result' = result
      /\ UNCHANGED <<today, phase, wakeDay, engineDay, report, engineDays, errors>>
  BY DEF Terminate
<1>3. ServiceTypeOK'
  BY <1>1, <1>2 DEF ServiceInv, ServiceTypeOK
<1>4. SessionInHours' /\ SleepsTillMorning' /\ AliveHavePidFile' /\ StoppedAreGone'
  BY <1>1, <1>2 DEF ServiceInv, ServiceTypeOK, SessionInHours, SleepsTillMorning,
         AliveHavePidFile, StoppedAreGone
<1>5. ResultIsLatest'
  BY <1>2 DEF ServiceInv, ServiceTypeOK, SessionInHours, ResultIsLatest
<1>6. ReportIsPast' /\ ReportsItsDay'
  BY <1>2 DEF ServiceInv, ServiceTypeOK, ReportIsPast, ReportsItsDay
<1> QED
  BY <1>3, <1>4, <1>5, <1>6 DEF ServiceInv

(* Hours pass within a day, and a night passes only in sleep or after the  *)
(* end.                                                                    *)
LEMMA TimeKeeps ==
    ASSUME ServiceInv, TimeGoesOn  PROVE ServiceInv'
<1>1. /\ phase' \in 0..3 /\ today' \in 0..LastDay
      /\ \/ today' = today /\ phase' = phase + 1
         \/ today' = today + 1 /\ phase' = 0 /\ phase = 3 /\ doing \in {"sleep", "ended"}
      /\ UNCHANGED <<started, doing, wakeDay, serving, children, pidFile, engineDay, result,
                     report, engineDays, errors>>
  <2>1. phase \in 0..3 /\ today \in 0..LastDay
    BY DayFacts DEF ServiceInv
  <2>2. /\ phase = 3 => (phase + 1) % 4 = 0
        /\ phase # 3 => (phase + 1) % 4 = phase + 1
    BY <2>1
  <2>3. /\ phase' = (phase + 1) % 4
        /\ today' = IF phase = 3 THEN today + 1 ELSE today
        /\ phase = 3 => doing \in {"sleep", "ended"} /\ today < LastDay
        /\ UNCHANGED <<started, doing, wakeDay, serving, children, pidFile, engineDay, result,
                       report, engineDays, errors>>
    <3>1. /\ phase' = (phase + 1) % 4
          /\ today' = IF phase = 3 THEN today + 1 ELSE today
          /\ UNCHANGED <<started, doing, wakeDay, serving, children, pidFile, engineDay, result,
                         report, engineDays, errors>>
      BY DEF TimeGoesOn
    <3>2. phase = 3 => doing \in {"sleep", "ended"}
      BY DEF TimeGoesOn
    <3>3. phase = 3 => today < LastDay
      BY DEF TimeGoesOn
    <3> QED
      BY <3>1, <3>2, <3>3
  <2> QED
    BY <2>1, <2>2, <2>3
<1>2. ServiceTypeOK'
  BY <1>1 DEF ServiceInv, ServiceTypeOK
<1>3. SessionInHours'
  <2>1. doing' = doing /\ (doing \in {"wait open", "launch", "trade"} => today' = today)
    BY <1>1
  <2>2. doing \in {"launch", "trade"} => phase' >= Open
    <3>1. phase \in 0..3 /\ (doing \in {"launch", "trade"} => phase >= 2)
      BY DayFacts DEF ServiceInv, SessionInHours
    <3> QED
      BY <1>1, <3>1
  <2> QED
    BY <1>1, <2>1, <2>2 DEF ServiceInv, SessionInHours
<1>8. AliveHavePidFile' /\ StoppedAreGone'
  BY <1>1 DEF ServiceInv, AliveHavePidFile, StoppedAreGone
<1>4. SleepsTillMorning'
  <2>1. doing = "sleep" => ~(today = wakeDay /\ phase >= Early)
    BY DEF TimeGoesOn
  <2> QED
    BY <1>1, <2>1, DayFacts DEF ServiceInv, SleepsTillMorning
<1>5. ResultIsLatest'
  BY <1>1, DayFacts DEF ServiceInv, ResultIsLatest
<1>6. ReportIsPast'
  BY <1>1, DayFacts DEF ServiceInv, ReportIsPast
<1>7. ReportsItsDay'
  BY <1>1 DEF ServiceInv, ReportsItsDay
<1> QED
  BY <1>2, <1>3, <1>4, <1>5, <1>6, <1>7, <1>8 DEF ServiceInv

-----------------------------------------------------------------------------
(* Every step of the daemon, of the processes and of time keeps it.        *)
LEMMA ServiceKeeps == ServiceInv /\ [ServiceNext]_serviceVars => ServiceInv'
<1> SUFFICES ASSUME ServiceInv, [ServiceNext]_serviceVars PROVE ServiceInv'
  OBVIOUS
<1>1. CASE UNCHANGED serviceVars
  BY <1>1 DEF serviceVars, ServiceInv, ServiceTypeOK, SessionInHours,
       SleepsTillMorning, AliveHavePidFile, StoppedAreGone, ResultIsLatest,
       ReportIsPast, ReportsItsDay
<1>2. CASE ServiceNext
  BY <1>2, MovesKeep, ProcessesKeep, PrepareKeeps, EngineReturnsKeeps,
     CloseSessionKeeps, TerminateKeeps, TimeKeeps DEF ServiceNext, ServiceStep
<1> QED
  BY <1>1, <1>2

(* The order in time of results, reports and nights, in every reachable    *)
(* state.                                                                  *)
THEOREM ServiceInvariant == ServiceSpec => []ServiceInv
BY InitServiceInv, ServiceKeeps, PTL DEF ServiceSpec

(* For any calendar, any processes and any number of exceptions: a closing *)
(* report tells of its own day if an engine ran on it, engines run in the  *)
(* hours and with the processes they need, and a service that was told to  *)
(* stop starts nothing and leaves nothing behind.                          *)
THEOREM ServiceIsSound == ServiceSpec => []ServiceSound
BY ServiceInvariant, InvIsSound, PTL

-----------------------------------------------------------------------------
(* The services together.  They share no state, so that each keeps its     *)
(* invariant in whatever order their steps come.                           *)
OperationsInv == BreakerInv /\ AlertInv /\ HealthInv /\ ServiceInv

(* What holds of each service alone holds of it in the run that has all of *)
(* them: alerts are sent once and accounted for, silence is detected in    *)
(* time, reports tell of their day, and no late result moves the circuit.  *)
THEOREM OperationsAreSound ==
    Spec => /\ []OperationsInv
            /\ [](AlertsSound /\ HealthSound /\ ServiceSound)
            /\ TransitionsEarned
  <1>1. Init => OperationsInv
    BY InitBreakerInv, InitAlertInv, InitHealthInv, InitServiceInv DEF Init, OperationsInv
  <1>2. [Next]_operationVars => /\ [BreakerNext]_breakerVars /\ [AlertNext]_alertVars
                                /\ [HealthNext]_healthVars /\ [ServiceNext]_serviceVars
    BY DEF Next, operationVars, BreakerPart, AlertPart, HealthPart, ServicePart
  <1>3. OperationsInv /\ [Next]_operationVars => OperationsInv'
    BY <1>2, BreakerKeeps, AlertKeeps, HealthKeeps, ServiceKeeps DEF OperationsInv
  <1>4. OperationsInv => AlertsSound /\ HealthSound /\ ServiceSound
    BY AlertInvSays, HealthInvSays, InvIsSound DEF OperationsInv
  <1>5. ASSUME OperationsInv, [Next]_operationVars
        PROVE  [forced' = forced =>
                   /\ (circuit = "CLOSED" /\ circuit' = "OPEN") => badRun' = FailureThreshold
                   /\ (circuit = "HALF_OPEN" /\ circuit' = "CLOSED")
                         => goodRun' = SuccessThreshold]_breakerVars
    BY <1>2, <1>5, TransitionEarned DEF OperationsInv
  <1>. QED
    BY <1>1, <1>3, <1>4, <1>5, PTL DEF Spec, TransitionsEarned
===============================================================================
