------------------------- MODULE MCPreparedDelivery -------------------------
(* Instances of PreparedDelivery for TLC: two files, of which only the      *)
(* first exists in the first commit, and two contents.                      *)
EXTENDS PreparedDelivery, TLC

CONSTANTS d1, d2, t1, t2, c1, c2, o1, o2, old, new

MCRoot == [p \in Paths |-> IF p = 1 THEN old ELSE None]

(* The first file changes back and forth, the second is only ever added.    *)
MCWritable == [p \in Paths |-> IF p = 1 THEN {old, new} ELSE {new}]

(* Every task chooses a message of its own.                                 *)
MCMessage == [t \in Tasks |-> t]

Symmetry ==
  Permutations(Callers) \cup Permutations(Deciders) \cup Permutations(Tasks)
=============================================================================
