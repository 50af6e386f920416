---------------------------- MODULE CircuitBreaker ----------------------------
(***************************************************************************)
(* CircuitBreaker of src/common/circuit_breaker.py: threads that call a    *)
(* guarded function through the decorator, each of whose two visits to the *)
(* breaker (can_execute, then record_success or record_failure) holds its  *)
(* lock, with the call itself in between.  A result may be recorded long   *)
(* after its call was let through, in whatever state the breaker then is.  *)
(* Statistics that decide nothing (totals, rejections, times of changes)   *)
(* are left out.                                                           *)
(***************************************************************************)
EXTENDS Naturals

CONSTANTS
    Callers,            \* threads that use the breaker
    FailureThreshold,   \* config.failure_threshold
    SuccessThreshold,   \* config.success_threshold
    RecoveryTimeout,    \* config.recovery_timeout, in steps of Elapse
    MaxForced           \* bound: calls of force_open() and reset()

ASSUME BreakerAssumption ==
    /\ FailureThreshold \in Nat \ {0}
    /\ SuccessThreshold \in Nat \ {0}
    /\ RecoveryTimeout \in Nat
    /\ MaxForced \in Nat

VARIABLES
    circuit,    \* stats.state
    failures,   \* stats.failures, not counted beyond FailureThreshold
    successes,  \* stats.successes, not counted beyond SuccessThreshold
    rested,     \* time since stats.last_failure_time, up to RecoveryTimeout
    calls,      \* callers whose guarded function is running
    sound,      \* environment: whether a call that ends now succeeds
    forced,     \* history: calls of force_open() and reset()
    goodRun,    \* history: results recorded since the last failure
    badRun      \* history: results recorded since the last success

breakerVars == <<circuit, failures, successes, rested, calls, sound, forced,
                 goodRun, badRun>>

UpTo(n, bound) == IF n < bound THEN n ELSE bound

BreakerTypeOK ==
    /\ circuit \in {"CLOSED", "OPEN", "HALF_OPEN"}
    /\ failures \in 0..FailureThreshold
    /\ successes \in 0..SuccessThreshold
    /\ rested \in 0..RecoveryTimeout
    /\ calls \subseteq Callers
    /\ sound \in BOOLEAN
    /\ forced \in 0..MaxForced
    /\ goodRun \in 0..SuccessThreshold
    /\ badRun \in 0..FailureThreshold

(* last_failure_time = 0 is as long ago as can be.                         *)
BreakerInit ==
    /\ circuit = "CLOSED" /\ failures = 0 /\ successes = 0
    /\ rested = RecoveryTimeout
    /\ calls = {} /\ sound \in BOOLEAN /\ forced = 0
    /\ goodRun = 0 /\ badRun = 0

-----------------------------------------------------------------------------
(* Counts that go on in the new state.                                     *)
TransitionCounting(state, failed, succeeded) ==
    /\ circuit' = state
    /\ failures' = failed /\ successes' = succeeded

(* _transition_to(): a change of state starts both counts again.           *)
TransitionTo(state, failed, succeeded) ==
    /\ circuit' = state
    /\ failures'  = IF state = circuit THEN failed ELSE 0
    /\ successes' = IF state = circuit THEN succeeded ELSE 0

(* An open circuit that no time opens to a probe.                          *)
NeverProbes == circuit # "OPEN"

(* can_execute(), called by the decorator.                                 *)
MayExecute == circuit = "OPEN" => rested = RecoveryTimeout

Enter(c) ==
    /\ c \notin calls
    /\ MayExecute
    /\ calls' = calls \cup {c}
    /\ TransitionTo(IF circuit = "OPEN" THEN "HALF_OPEN" ELSE circuit,
                    failures, successes)
    /\ UNCHANGED <<rested, sound, forced, goodRun, badRun>>

(* record_success()                                                        *)
Succeed(c) ==
    /\ c \in calls /\ sound
    /\ calls' = calls \ {c}
    /\ LET counted == UpTo(successes + 1, SuccessThreshold)
       IN TransitionTo(
            IF circuit = "HALF_OPEN" /\ counted >= SuccessThreshold THEN "CLOSED"
            ELSE circuit,
            IF circuit = "CLOSED" THEN 0 ELSE failures,
            counted)
    /\ goodRun' = UpTo(goodRun + 1, SuccessThreshold) /\ badRun' = 0
    /\ UNCHANGED <<rested, sound, forced>>

(* record_failure()                                                        *)
Fail(c) ==
    /\ c \in calls /\ ~sound
    /\ calls' = calls \ {c}
    /\ rested' = 0
    /\ LET counted == UpTo(failures + 1, FailureThreshold)
       IN TransitionTo(
            IF \/ circuit = "HALF_OPEN"
               \/ circuit = "CLOSED" /\ counted >= FailureThreshold
            THEN "OPEN" ELSE circuit,
            counted,
            successes)
    /\ badRun' = UpTo(badRun + 1, FailureThreshold) /\ goodRun' = 0
    /\ UNCHANGED <<sound, forced>>

(* reset(): new statistics.                                                *)
Reset ==
    /\ forced < MaxForced /\ forced' = forced + 1
    /\ circuit' = "CLOSED" /\ failures' = 0 /\ successes' = 0
    /\ rested' = RecoveryTimeout
    /\ UNCHANGED <<calls, sound, goodRun, badRun>>

(* force_open(): says nothing of a failure, so that the time the circuit   *)
(* stays open counts from the last real one.                               *)
ForceOpen ==
    /\ forced < MaxForced /\ forced' = forced + 1
    /\ TransitionTo("OPEN", failures, successes)
    /\ UNCHANGED <<rested, calls, sound, goodRun, badRun>>

Elapse ==
    /\ rested < RecoveryTimeout
    /\ rested' = rested + 1
    /\ UNCHANGED <<circuit, failures, successes, calls, sound, forced, goodRun, badRun>>

(* The guarded service breaks down or comes back.                          *)
ServiceChanges ==
    /\ sound' = ~sound
    /\ UNCHANGED <<circuit, failures, successes, rested, calls, forced, goodRun, badRun>>

BreakerNext ==
    \/ \E c \in Callers : Enter(c) \/ Succeed(c) \/ Fail(c)
    \/ Reset \/ ForceOpen \/ Elapse \/ ServiceChanges

(* The application keeps calling, its calls end (the guarded functions     *)
(* have time-outs of their own), and time passes.                          *)
BreakerFairness ==
    /\ \A c \in Callers : /\ WF_breakerVars(Enter(c))
                          /\ WF_breakerVars(Succeed(c) \/ Fail(c))
    /\ WF_breakerVars(Elapse)

BreakerSpec == BreakerInit /\ [][BreakerNext]_breakerVars /\ BreakerFairness

-----------------------------------------------------------------------------
(* Properties                                                              *)

(* The circuit is opened by a failure only when FailureThreshold results   *)
(* in a row were failures or while it was being probed, and is closed only *)
(* by SuccessThreshold results in a row that were successes or by reset(): *)
(* results of calls let through before a change of state never make up for *)
(* a failure that came after them.                                         *)
TransitionsEarned ==
    [][forced' = forced =>
         /\ (circuit = "CLOSED" /\ circuit' = "OPEN") => badRun' = FailureThreshold
         /\ (circuit = "HALF_OPEN" /\ circuit' = "CLOSED") => goodRun' = SuccessThreshold
      ]_breakerVars

(* Once the guarded service is back for good, the circuit ends up closed:  *)
(* no late result and no forced opening leaves it open or half open for    *)
(* ever.                                                                   *)
Recovers == <>[]sound => <>[](circuit = "CLOSED")
=============================================================================
