------------------------------ MODULE Strategy ------------------------------
(***************************************************************************)
(* What a strategy promises whoever carries out its signals: a signal to   *)
(* trade and the change of the strategy's own position are one thing, so   *)
(* that the signals, netted, are the position.  A bar whose handling       *)
(* raises has no signal ("LOST"), and may have changed the position.       *)
(***************************************************************************)
EXTENDS Signals

VARIABLES view,     \* the position the strategy believes in
          signal    \* its answer to the last bar

Init == view = "FLAT" /\ signal = "HOLD"

Next == \E a \in Answers(view) :
            /\ view' = a[2]
            /\ signal' \in {a[1], "LOST"}

Spec == Init /\ [][Next]_<<view, signal>>
=============================================================================
