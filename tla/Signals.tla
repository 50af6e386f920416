------------------------------- MODULE Signals -------------------------------
(***************************************************************************)
(* What a strategy says about a bar, and the position it believes in: the  *)
(* Signal and PositionSide of src/strategy/base.py, which the engines that *)
(* run a strategy (PaperEngine, LiveTrading) know nothing else about.      *)
(***************************************************************************)
View   == {"FLAT", "LONG", "SHORT"}
Signal == {"BUY", "SELL", "HOLD"}

(* What the trend-confirmed strategy may answer to a bar from each of its  *)
(* positions, with the position it then believes in.                       *)
Answers(v) ==
    CASE v = "FLAT"  -> {<<"BUY", "LONG">>, <<"SELL", "SHORT">>, <<"HOLD", "FLAT">>}
      [] v = "LONG"  -> {<<"SELL", "FLAT">>, <<"HOLD", "LONG">>}
      [] v = "SHORT" -> {<<"BUY", "FLAT">>, <<"HOLD", "SHORT">>}
=============================================================================
