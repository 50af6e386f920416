----------------------------- MODULE TradeNotifier -----------------------------
(***************************************************************************)
(* TradeNotifier of src/monitoring/trade_notifier.py: the counters of the  *)
(* day, in memory and in Redis, as notify_trade() tasks keep them.         *)
(*                                                                         *)
(* A task runs from one await on Redis to the next; other tasks run while  *)
(* it waits.  What a trade earned is 1 or -1.  The message and its         *)
(* delivery are the alert service's.                                       *)
(***************************************************************************)
EXTENDS Integers, FiniteSets, FiniteSetsExt

CONSTANTS
    Trades,         \* each is notified once
    LossWarning,    \* LOSS_WARNING_THRESHOLD
    LossCritical,   \* LOSS_CRITICAL_THRESHOLD
    LongStreak,     \* losses in a row that raise the priority (5)
    LastDate,       \* bound: the date
    MaxRestarts     \* bound: restarts of the process

ASSUME NotifierAssumption ==
    /\ IsFiniteSet(Trades)
    /\ {LossWarning, LossCritical} \subseteq Int /\ LossCritical < LossWarning
    /\ LongStreak \in Nat /\ LastDate \in Nat /\ MaxRestarts \in Nat

VARIABLES
    onDate,         \* date.today()
    counters,       \* _daily_pnl, _loss_streak, _trade_count
    resetOn,        \* _last_reset_date, or NeverReset
    redis,          \* the same counters in Redis
    taskStep,       \* what each task does next
    earned,         \* realized_pnl of its trade
    told,           \* what its message will say: the day's result and the streak
    reported,       \* the priority of its message
    restarts,       \* history
    failed,         \* history: a Redis call of this day failed
    wiped,          \* history: a reset came after trades of this day were in Redis
    mixed           \* history: a task began while another was at work on the counters

notifierVars == <<onDate, counters, resetOn, redis, taskStep, earned, told, reported, restarts,
                  failed, wiped, mixed>>

NeverReset == -1
Zeros == [pnl |-> 0, streak |-> 0, count |-> 0]

(* A task has begun, first with the reset of a new day if it is the first. *)
Steps == {"reset", "pnl", "streak", "count"}
Working(t) == taskStep[t] \in Steps

NotifierInit ==
    /\ onDate = 0 /\ counters = Zeros /\ redis = Zeros /\ resetOn = NeverReset
    /\ taskStep = [t \in Trades |-> "none"] /\ earned \in [Trades -> {1, -1}]
    /\ told = [t \in Trades |-> Zeros] /\ reported = [t \in Trades |-> "none"]
    /\ restarts = 0 /\ failed = FALSE /\ wiped = FALSE /\ mixed = FALSE

(* _update_daily_pnl() until its await: memory first.                      *)
AddPnl(m, t) == [m EXCEPT !.pnl = @ + earned[t]]
AddStreak(m, t) == [m EXCEPT !.streak = IF earned[t] < 0 THEN @ + 1 ELSE 0]
AddCount(m) == [m EXCEPT !.count = @ + 1]

(* _check_daily_reset() until its await: memory is reset at once, and      *)
(* whoever comes now finds the day begun.                                  *)
NotifyTrade(t) ==
    /\ taskStep[t] = "none"
    /\ IF resetOn # onDate
       THEN /\ counters' = Zeros /\ resetOn' = onDate
            /\ taskStep' = [taskStep EXCEPT ![t] = "reset"]
       ELSE /\ counters' = AddPnl(counters, t) /\ UNCHANGED resetOn
            /\ taskStep' = [taskStep EXCEPT ![t] = "pnl"]
    /\ mixed' = (mixed \/ \E u \in Trades : Working(u))
    /\ UNCHANGED <<onDate, redis, earned, told, reported, restarts, failed, wiped>>

(* The three deletes, or as many as came before one failed.                *)
ResetRedis(t) ==
    /\ taskStep[t] = "reset"
    /\ \/ redis' = Zeros /\ UNCHANGED failed
       \/ /\ redis' \in {redis, [redis EXCEPT !.pnl = 0], [redis EXCEPT !.pnl = 0, !.streak = 0]}
          /\ failed' = TRUE
    /\ wiped' = (wiped \/ \E u \in Trades : taskStep[u] \in {"streak", "count", "done", "lost"})
    /\ counters' = AddPnl(counters, t)
    /\ taskStep' = [taskStep EXCEPT ![t] = "pnl"]
    /\ UNCHANGED <<onDate, resetOn, earned, told, reported, restarts, mixed>>

(* Redis answers with the counter and memory takes it, or the call fails   *)
(* and memory stays; what memory says now is told, and the next counter    *)
(* begins in memory.                                                       *)
UpdatePnl(t) ==
    LET answered == [counters EXCEPT !.pnl = redis.pnl + earned[t]]
    IN  /\ taskStep[t] = "pnl" /\ taskStep' = [taskStep EXCEPT ![t] = "streak"]
        /\ \/ /\ redis' = AddPnl(redis, t) /\ UNCHANGED failed
              /\ counters' = AddStreak(answered, t) /\ told' = [told EXCEPT ![t].pnl = answered.pnl]
           \/ /\ UNCHANGED redis /\ failed' = TRUE
              /\ counters' = AddStreak(counters, t) /\ told' = [told EXCEPT ![t].pnl = counters.pnl]
        /\ UNCHANGED <<onDate, resetOn, earned, reported, restarts, wiped, mixed>>

UpdateLossStreak(t) ==
    LET answered == [counters EXCEPT !.streak = AddStreak(redis, t).streak]
    IN  /\ taskStep[t] = "streak" /\ taskStep' = [taskStep EXCEPT ![t] = "count"]
        /\ \/ /\ redis' = AddStreak(redis, t) /\ UNCHANGED failed
              /\ counters' = AddCount(answered)
              /\ told' = [told EXCEPT ![t].streak = answered.streak]
           \/ /\ UNCHANGED redis /\ failed' = TRUE /\ counters' = AddCount(counters)
              /\ told' = [told EXCEPT ![t].streak = counters.streak]
        /\ UNCHANGED <<onDate, resetOn, earned, reported, restarts, wiped, mixed>>

(* _determine_priority()                                                   *)
Priority(m) ==
    IF m.pnl \leq LossCritical THEN "urgent"
    ELSE IF m.pnl \leq LossWarning \/ m.streak >= LongStreak THEN "high" ELSE "normal"

(* The last counter, and the message.                                      *)
IncrementTradeCount(t) ==
    /\ taskStep[t] = "count" /\ taskStep' = [taskStep EXCEPT ![t] = "done"]
    /\ \/ /\ redis' = AddCount(redis) /\ UNCHANGED failed
          /\ counters' = [counters EXCEPT !.count = redis.count + 1]
       \/ UNCHANGED <<redis, counters>> /\ failed' = TRUE
    /\ reported' = [reported EXCEPT ![t] = Priority(told[t])]
    /\ UNCHANGED <<onDate, resetOn, earned, told, restarts, wiped, mixed>>

(* A new process, which knows nothing of the day; its tasks are gone.      *)
RestartNotifier ==
    /\ restarts < MaxRestarts /\ restarts' = restarts + 1
    /\ counters' = Zeros /\ resetOn' = NeverReset
    /\ taskStep' = [t \in Trades |-> IF Working(t) THEN "lost" ELSE taskStep[t]]
    /\ UNCHANGED <<onDate, redis, earned, told, reported, failed, wiped, mixed>>

(* Midnight, between two trades.                                           *)
NextDate ==
    /\ onDate < LastDate /\ ~\E t \in Trades : Working(t)
    /\ onDate' = onDate + 1
    /\ taskStep' = [t \in Trades |-> IF taskStep[t] = "none" THEN "none" ELSE "past"]
    /\ restarts' = 0 /\ failed' = FALSE /\ wiped' = FALSE /\ mixed' = FALSE
    /\ UNCHANGED <<counters, resetOn, redis, earned, told, reported>>

NotifierNext ==
    \/ \E t \in Trades : \/ NotifyTrade(t) \/ ResetRedis(t) \/ UpdatePnl(t)
                         \/ UpdateLossStreak(t) \/ IncrementTradeCount(t)
    \/ RestartNotifier \/ NextDate

-----------------------------------------------------------------------------
(* Properties                                                              *)

OfToday == {t \in Trades : taskStep[t] = "done"}
Quiet == ~\E t \in Trades : Working(t) \/ taskStep[t] = "lost"
SumOf(trades) == MapThenSumSet(LAMBDA t : earned[t], trades)

(* One trade after the other, with Redis at hand and no restart, the       *)
(* counters are those of the day, in memory and in Redis.                  *)
CountersOfTheDay ==
    Quiet /\ resetOn = onDate /\ ~failed /\ ~mixed /\ restarts = 0 =>
      /\ redis.count = Cardinality(OfToday) /\ redis.pnl = SumOf(OfToday)
      /\ counters = redis

(* Even when notifications overlap, no trade is counted twice, and only a  *)
(* reset takes one away: that of a task that was overtaken by another, or  *)
(* of the first trade after a restart, which wipes the day for which the   *)
(* class announces "daily P&L tracking with Redis persistence".            *)
TakenByResets ==
    Quiet /\ resetOn = onDate /\ ~failed =>
      /\ redis.count \leq Cardinality(OfToday)
      /\ redis.count < Cardinality(OfToday) \/ redis.pnl # SumOf(OfToday) => wiped
      /\ wiped => mixed \/ restarts > 0
      /\ counters.count # redis.count => mixed

(* However the notifications of a day overlap, as long as no reset took    *)
(* any of them one says what the day has come to: a loss over the limit    *)
(* does not pass as a smaller one.                                         *)
LossReported ==
    Quiet /\ ~failed /\ ~wiped /\ OfToday # {} /\ SumOf(OfToday) \leq LossCritical =>
      \E t \in OfToday : reported[t] = "urgent"

NotifierSound == CountersOfTheDay /\ TakenByResets /\ LossReported
===============================================================================
