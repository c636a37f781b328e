------------------------------ MODULE MCMemdev ------------------------------
(* Instances of Memdev for TLC: three address spaces for two pids (p2 has the *)
(* other one), and two pages of addresses, so that a mapping can be cut at    *)
(* its head or at its tail.                                                   *)
EXTENDS Memdev, TLC

CONSTANTS p1, p2, p3

MCAddrs == 0 .. 1
MCTgid == [p \in Procs |-> IF p = p2 THEN 2 ELSE 1]

\* Files and pages are interchangeable: the driver compares neither with a constant.
Symmetry == Permutations(Files) \cup Permutations(Pages)

\* Of a third address space, a second file and a private mapping that is written, one
\* at a time.
Scope == Cardinality({p \in Procs : life[p] # "unborn"})
         + Cardinality({f \in Files : fstate[f] # "none"})
         + (IF \E p \in Procs, a \in Addrs : pt[p][a] = AnonPage THEN 1 ELSE 0) <= 4
=============================================================================
