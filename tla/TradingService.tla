---------------------------- MODULE TradingService ----------------------------
(***************************************************************************)
(* PaperTradingService of scripts/paper_trading_service.py as a daemon     *)
(* that trades live data: each trading day it starts three processes, runs *)
(* a paper engine until the market closes, reports the result, stops the   *)
(* processes and sleeps until the next morning.  A day has four parts; the *)
(* processes are children of the service, which nobody waits for.  The     *)
(* messages are left out but for whose result a closing report tells.      *)
(*                                                                         *)
(* SIGTERM's handler runs stop() and raises SystemExit.  asyncio.run()     *)
(* then cancels the main task and waits for it to end: an await of the     *)
(* daemon is given up, but an engine that is cancelled returns as if the   *)
(* time had come, and the daemon goes on after it.                         *)
(***************************************************************************)
EXTENDS Naturals

CONSTANTS
    Processes,      \* tick_collector, feature_processor, prediction_engine
    TradingDays,    \* days for which is_trading_day() holds
    LastDay,        \* bound: the day on which the clock stops
    MaxErrors,      \* bound: exceptions
    NoDay

ASSUME ServiceAssumption ==
    /\ LastDay \in Nat /\ MaxErrors \in Nat
    /\ TradingDays \subseteq 0..LastDay
    /\ NoDay \notin 0..LastDay

Morning == 0    \* before 8:55, when the daemon wakes up
Early   == 1    \* until 9:00
Open    == 2    \* until 15:45
Closed  == 3

VARIABLES
    today, phase,    \* the clock
    doing,          \* where run_daemon() is
    wakeDay,        \* the day it sleeps until
    serving,        \* self.running
    children,       \* state of each process: "none", "alive", "zombie"
    pidFile,        \* processes with a pid file
    started,        \* processes that start_trading() has seen to this session
    engineDay,      \* the day of self.engine, or NoDay
    result,         \* the day whose result today_result is, or NoDay
    report,         \* history: the latest closing report, or NoDay
    engineDays,     \* history: days on which an engine ran
    errors          \* history: exceptions so far

serviceVars == <<today, phase, doing, wakeDay, serving, children, pidFile, started,
                 engineDay, result, report, engineDays, errors>>

Day == 0..LastDay

ServiceTypeOK ==
    /\ today \in Day /\ phase \in Morning..Closed
    /\ doing \in {"session", "wait open", "launch", "trade", "close",
                  "sleep", "retry", "ended"}
    /\ wakeDay \in 0..LastDay + 1
    /\ serving \in BOOLEAN
    /\ children \in [Processes -> {"none", "alive", "zombie"}]
    /\ pidFile \subseteq Processes /\ started \subseteq Processes
    /\ engineDay \in Day \cup {NoDay} /\ result \in Day \cup {NoDay}
    /\ report = NoDay \/ report \in [on : Day, of : Day]
    /\ engineDays \subseteq Day
    /\ errors \in 0..MaxErrors

(* The daemon is started at any time of the first day.                     *)
ServiceInit ==
    /\ today = 0 /\ phase \in Morning..Closed
    /\ doing = "session" /\ wakeDay = 0 /\ serving = TRUE
    /\ children = [p \in Processes |-> "none"] /\ pidFile = {} /\ started = {}
    /\ engineDay = NoDay /\ result = NoDay
    /\ report = NoDay /\ engineDays = {} /\ errors = 0

-----------------------------------------------------------------------------
(* run_daily_session()                                                     *)

BeginSession ==
    /\ doing = "session"
    /\ \/ /\ today \in TradingDays /\ UNCHANGED wakeDay
          /\ \/ phase < Open  /\ doing' = "wait open"
             \/ phase >= Open /\ doing' = "launch"
       \/ today \notin TradingDays /\ doing' = "sleep" /\ wakeDay' = today + 1
    /\ UNCHANGED <<started, today, phase, serving, children, pidFile, engineDay, result,
                   report, engineDays, errors>>

MarketOpens ==
    /\ doing = "wait open" /\ phase >= Open
    /\ doing' = "launch"
    /\ UNCHANGED <<started, today, phase, wakeDay, serving, children, pidFile, engineDay,
                   result, report, engineDays, errors>>

(* is_running(): the pid file names a process that can be signalled, as a  *)
(* zombie can.                                                             *)
IsRunning(p) == p \in pidFile /\ children[p] # "none"

(* start_process(), for one process after the other, in any order here.    *)
(* Popen reaps the zombies of earlier ones.                                *)
StartProcess(p) ==
    /\ doing = "launch" /\ p \notin started
    /\ started' = started \cup {p}
    /\ \/ IsRunning(p) /\ UNCHANGED <<children, pidFile>>
       \/ /\ ~IsRunning(p)
          /\ children' = [q \in Processes |-> IF q = p THEN "alive"
                                              ELSE IF children[q] = "zombie" THEN "none"
                                              ELSE children[q]]
          /\ pidFile' = pidFile \cup {p}
    /\ UNCHANGED <<today, phase, doing, wakeDay, serving, engineDay, result,
                   report, engineDays, errors>>

(* start_trading() makes the engine, and returns if it is too late.        *)
Prepare ==
    /\ doing = "launch" /\ started = Processes /\ started' = {}
    /\ engineDay' = today
    /\ IF phase = Closed
       THEN doing' = "close" /\ UNCHANGED engineDays
       ELSE doing' = "trade" /\ engineDays' = engineDays \cup {today}
    /\ UNCHANGED <<today, phase, wakeDay, serving, children, pidFile, result,
                   report, errors>>

(* The result is saved on the regular way out only.                        *)
EngineReturnsUnsaved ==
    /\ doing = "trade"
    /\ \/ phase = Closed /\ result' = engineDay /\ UNCHANGED errors
       \/ errors < MaxErrors /\ errors' = errors + 1 /\ UNCHANGED result
    /\ doing' = "close"
    /\ UNCHANGED <<started, today, phase, wakeDay, serving, children, pidFile, engineDay,
                   report, engineDays>>

(* The engine returns: its time is over, it was cancelled, or it failed.   *)
EngineReturns ==
    /\ doing = "trade"
    /\ \/ phase = Closed /\ UNCHANGED errors
       \/ errors < MaxErrors /\ errors' = errors + 1
    /\ result' = engineDay
    /\ doing' = "close"
    /\ UNCHANGED <<started, today, phase, wakeDay, serving, children, pidFile, engineDay,
                   report, engineDays>>

(* stop_process(): SIGTERM to the process that the pid file names.         *)
StopAll ==
    /\ children' = [p \in Processes |-> IF p \in pidFile /\ children[p] = "alive"
                                        THEN "zombie" ELSE children[p]]
    /\ pidFile' = {}

(* stop_trading() and the closing report, if there ever was a result.      *)
CloseSession ==
    /\ doing = "close"
    /\ StopAll
    /\ report' = IF result = NoDay THEN report ELSE [on |-> today, of |-> result]
    /\ doing' = "sleep" /\ wakeDay' = today + 1
    /\ UNCHANGED <<started, today, phase, serving, engineDay, result, engineDays, errors>>

-----------------------------------------------------------------------------
(* run_daemon()                                                            *)

(* A daemon that sleeps again where it should end.                         *)
WakeUpDozing ==
    /\ doing = "sleep" /\ today = wakeDay /\ phase >= Early
    /\ doing' = IF serving THEN "session" ELSE "sleep"
    /\ UNCHANGED <<started, today, phase, wakeDay, serving, children, pidFile, engineDay,
                   result, report, engineDays, errors>>

WakeUp ==
    /\ doing = "sleep" /\ today = wakeDay /\ phase >= Early
    /\ doing' = IF serving THEN "session" ELSE "ended"
    /\ UNCHANGED <<started, today, phase, wakeDay, serving, children, pidFile, engineDay,
                   result, report, engineDays, errors>>

(* An exception leaves the session as it is; a minute later all begins     *)
(* again.                                                                  *)
SessionFails ==
    /\ doing = "launch" /\ errors < MaxErrors /\ errors' = errors + 1
    /\ doing' = "retry" /\ started' = {}
    /\ UNCHANGED <<today, phase, wakeDay, serving, children, pidFile, engineDay,
                   result, report, engineDays>>

Retry ==
    /\ doing = "retry"
    /\ doing' = "session"
    /\ UNCHANGED <<started, today, phase, wakeDay, serving, children, pidFile, engineDay,
                   result, report, engineDays, errors>>

(* SIGTERM: stop() and the end of the task at its await.  Only an engine   *)
(* takes the cancellation for its own end.                                 *)
Terminate ==
    /\ serving /\ doing # "ended"
    /\ serving' = FALSE /\ started' = {}
    /\ StopAll
    /\ IF doing = "trade"
       THEN doing' = "close" /\ result' = engineDay
       ELSE doing' = "ended" /\ UNCHANGED result
    /\ UNCHANGED <<today, phase, wakeDay, engineDay, report, engineDays, errors>>

-----------------------------------------------------------------------------
ProcessDies(p) ==
    /\ children[p] = "alive"
    /\ children' = [children EXCEPT ![p] = "zombie"]
    /\ UNCHANGED <<started, today, phase, doing, wakeDay, serving, pidFile, engineDay,
                   result, report, engineDays, errors>>

(* What the service does between two awaits takes no phase of a day, and a  *)
(* session that is past its time ends before the next day.                 *)
TimeGoesOn ==
    /\ \/ doing \in {"sleep", "ended"} /\ ~(today = wakeDay /\ phase >= Early /\ doing = "sleep")
       \/ doing = "wait open" /\ phase < Open
       \/ doing \in {"trade", "launch"} /\ phase < Closed
    /\ today < LastDay \/ phase < Closed
    /\ phase' = (phase + 1) % 4
    /\ today' = IF phase = Closed THEN today + 1 ELSE today
    /\ UNCHANGED <<started, doing, wakeDay, serving, children, pidFile, engineDay, result,
                   report, engineDays, errors>>

ServiceStep ==
    \/ BeginSession \/ MarketOpens \/ Prepare \/ EngineReturns \/ CloseSession
    \/ WakeUp \/ Retry \/ \E p \in Processes : StartProcess(p)

ServiceNext ==
    \/ ServiceStep \/ SessionFails \/ Terminate \/ TimeGoesOn
    \/ \E p \in Processes : ProcessDies(p)

ServiceFairness == WF_serviceVars(ServiceStep) /\ WF_serviceVars(TimeGoesOn)

ServiceSpec == ServiceInit /\ [][ServiceNext]_serviceVars /\ ServiceFairness

-----------------------------------------------------------------------------
(* Properties                                                              *)

(* A closing report is about the day on which it is sent, unless no engine *)
(* ran that day: then it repeats the result of the last one that did.      *)
ReportsItsDay ==
    report # NoDay => IF report.on \in engineDays THEN report.of = report.on
                     ELSE \A d \in engineDays : d < report.on => d \leq report.of

(* An engine runs on trading days only, while the market is open or has    *)
(* just closed, and with its three processes started.                      *)
TradesInHours ==
    doing = "trade" => /\ today \in TradingDays /\ phase >= Open
                       /\ engineDay = today /\ serving
                       /\ pidFile = Processes

(* Once it was told to stop, the service starts nothing any more: it has   *)
(* ended, or sleeps no longer than until the next morning, and leaves no   *)
(* process behind.                                                         *)
StopsForGood ==
    ~serving => /\ doing \in {"close", "sleep", "ended"}
                /\ doing = "sleep" => \/ today + 1 = wakeDay
                                      \/ today = wakeDay /\ phase \leq Early
                /\ \A p \in Processes : children[p] # "alive"

(* A service that was told to stop ends, if the days go on: at once or, if *)
(* the signal only ended its engine, when it next wakes up.                *)
ServiceStops ==
    <>[](~serving /\ wakeDay \leq LastDay) => <>[](doing = "ended")

(* The three together: over days, crashes of processes, exceptions and a   *)
(* signal at any time, the service reports, trades and stops as it should. *)
ServiceSound == ServiceTypeOK /\ ReportsItsDay /\ TradesInHours /\ StopsForGood
=============================================================================
