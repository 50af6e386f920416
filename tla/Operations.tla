------------------------------ MODULE Operations ------------------------------
(***************************************************************************)
(* The services that watch over the system while it runs and share no      *)
(* state with each other: the circuit breaker, the alert service, the      *)
(* health checker and the daemon that runs the trading days.  What is      *)
(* asked of them is also that they go on.  A behaviour is one of one of    *)
(* them, the others standing still: this shows of each what a model of its *)
(* own would show, without the product of their states.                    *)
(***************************************************************************)
EXTENDS CircuitBreaker, AlertService, HealthChecker, TradingService

VARIABLE part   \* the service whose behaviour this is

operationVars == <<part, breakerVars, alertVars, healthVars, serviceVars>>

Parts == {"breaker", "alerts", "health", "service"}

(* Two of the services that check_pipeline_services() goes through, in its *)
(* order.                                                                  *)
PipelineServices == <<"tick_collector", "feature_processor">>

(* The others stand still in one of their initial states.                  *)
Init ==
    /\ part \in Parts
    /\ BreakerInit /\ (part # "breaker" => sound)
    /\ AlertInit /\ HealthInit
    /\ ServiceInit /\ (part # "service" => phase = Morning)

BreakerPart ==
    /\ part = "breaker" /\ BreakerNext
    /\ UNCHANGED <<part, alertVars, healthVars, serviceVars>>

AlertPart ==
    /\ part = "alerts" /\ AlertNext
    /\ UNCHANGED <<part, breakerVars, healthVars, serviceVars>>

HealthPart ==
    /\ part = "health" /\ HealthNext
    /\ UNCHANGED <<part, breakerVars, alertVars, serviceVars>>

ServicePart ==
    /\ part = "service" /\ ServiceNext
    /\ UNCHANGED <<part, breakerVars, alertVars, healthVars>>

Next == BreakerPart \/ AlertPart \/ HealthPart \/ ServicePart

(* The part that moves is scheduled as it is in the program.               *)
Fairness ==
    \/ part = "breaker" /\ BreakerFairness
    \/ part = "alerts" /\ AlertFairness
    \/ part = "health" /\ HealthFairness
    \/ part = "service" /\ ServiceFairness

Spec == Init /\ [][Next]_operationVars /\ Fairness

-----------------------------------------------------------------------------
(* Properties                                                              *)

(* What broke and works again is trusted again: the circuit closes, and    *)
(* everything that is watched is said to be healthy as long as no round of *)
(* checks hangs.                                                           *)
Recovery == Recovers /\ Recognised

(* What is told to stop ends: the daemon, and the alert service unless a   *)
(* full audit buffer has wedged one of its tasks before.                   *)
StopsEnd == ServiceStops /\ StopEndsAlerts
===============================================================================
