----------------------------- MODULE MCComponents -----------------------------
(* The constants of Components that a configuration cannot write.          *)
EXTENDS Components, MCResearch

CONSTANTS w1, w2

MCPredictions == {-2, 0, 1}

(* A small range and a wide one, a rise with a surge of volume, a fall.    *)
FedBar(h, l, c, v) == [high |-> h, low |-> l, close |-> c, volume |-> v]
MCFedBars ==
    {FedBar(11, 9, 10, 1), FedBar(10, 10, 10, 1),
     FedBar(14, 12, 13, 5), FedBar(13, 8, 8, 1)}

Forecast(h1, h3, h10) == (1 :> h1) @@ (3 :> h3) @@ (10 :> h10)
MCForecasts ==
    {Forecast(20, 20, 20), Forecast(60, 60, 90), Forecast(20, 20, 90)}

(* Indicators not ready; both for the trade, both against it, one of them; *)
(* too volatile.                                                           *)
Market(r, a, c, v) == [ready |-> r, ma |-> a, cloud |-> c, volatile |-> v]
MCMarkets ==
    {Market(FALSE, 1, 1, FALSE), Market(TRUE, 1, 1, FALSE),
     Market(TRUE, -1, -1, FALSE), Market(TRUE, 1, 0, FALSE),
     Market(TRUE, 1, 1, TRUE)}

MCPnls == {-2, 4}
MCLossWarning == -1
MCLossCritical == -2
MCRetryDelays == <<1, 2, 3>>
MCProcessOf == (w1 :> 1) @@ (w2 :> 2)
===============================================================================
