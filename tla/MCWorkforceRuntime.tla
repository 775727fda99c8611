------------------------- MODULE MCWorkforceRuntime -------------------------
(* Instances of WorkforceRuntime for TLC: three owners, one more than a     *)
(* cycle lists, the first with tasks of one mission, the others with a task *)
(* of their own.                                                            *)
EXTENDS WorkforceRuntime, TLC

CONSTANTS w1, w2, m1

MCOwnerOf == [t \in Tasks |-> IF t = 4 THEN 2 ELSE IF t = 5 THEN 3 ELSE 1]
MCMissionOf == [t \in Tasks |-> IF t \in {4, 5} THEN None ELSE m1]
MCBudgetLimit == [m \in Missions |-> 1]
MCSlots == [o \in Owners |-> 2]

Quiet == [workers |-> {w1}, early |-> {1, 2, 3}, late |-> {4},
          stoppable |-> {}, lockable |-> {}, stops |-> 0, faults |-> 0]

(* One worker with a stop, a fault and a shutdown; one whose first owner is *)
(* locked down again and again; one whose third owner has to wait while the *)
(* others have work, the first of them locked down again and again; and two *)
(* workers on the same tasks, with a stop of the workforce.                 *)
MCEnvironments ==
  {[Quiet EXCEPT !.early = {1, 2}, !.stops = 1, !.faults = 1, !.stoppable = {w1}],
   [Quiet EXCEPT !.lockable = {1}],
   [Quiet EXCEPT !.early = {5}, !.late = {1, 4}, !.lockable = {1}],
   [Quiet EXCEPT !.workers = {w1, w2}, !.early = {1, 2}, !.late = {}, !.stops = 1]}
=============================================================================
