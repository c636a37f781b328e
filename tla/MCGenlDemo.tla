----------------------------- MODULE MCGenlDemo -----------------------------
(* Instances of GenlDemo: listeners that want one event, or any number.      *)
EXTENDS GenlDemo, TLC

CONSTANTS l1, l2

MCNumEvents == [l \in Listeners |-> IF l = l1 THEN 1 ELSE -1]
=============================================================================
