----------------------------- MODULE AtLeastOnce -----------------------------
(***************************************************************************)
(* What a consumer group promises the stages of the pipeline: an entry is  *)
(* settled (acknowledged, never handed out again) only after its handler   *)
(* has completed at least once.  Handlers may complete more than once, and *)
(* nothing promises that an entry is ever settled.                         *)
(***************************************************************************)
CONSTANT Entry      \* the entries a stream can carry

VARIABLES done,     \* entries whose handler has completed at least once
          settled   \* entries the group will never hand out again

vars == <<done, settled>>

Init == done = {} /\ settled = {}

(* A handler completes, for the first time or again after a redelivery.    *)
Complete(i) == /\ done' = done \cup {i}
               /\ UNCHANGED settled

(* The group forgets an entry that was handled.                            *)
Settle(i) == /\ i \in done
             /\ settled' = settled \cup {i}
             /\ UNCHANGED done

Next == \E i \in Entry : Complete(i) \/ Settle(i)

Spec == Init /\ [][Next]_vars
=============================================================================
