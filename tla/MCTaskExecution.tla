--------------------------- MODULE MCTaskExecution ---------------------------
(* Instances of TaskExecution for TLC: up to three tasks with every acyclic *)
(* set of edges between them, two agents of unequal capacity and two        *)
(* executors.                                                               *)
EXTENDS TaskExecution, TLC

CONSTANTS t1, t2, t3, a1, a2, e1, e2

MCCap == [a \in Agents |-> IF a = a1 THEN 1 ELSE 2]

Symmetry == Permutations(Executors)
=============================================================================
