---------------------------- MODULE MCMemdevWalker ----------------------------
(* Instances of MemdevWalker for TLC, with the pids of MCMemdev and one address. *)
EXTENDS MemdevWalker

CONSTANTS p1, p2, p3

OneAddr == {0}
MCTgid == [p \in Procs |-> IF p = p2 THEN 2 ELSE 1]
===============================================================================
