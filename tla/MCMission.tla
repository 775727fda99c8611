------------------------------ MODULE MCMission ------------------------------
(* Instances of Mission for TLC: proposals over three keys and two          *)
(* processes.                                                               *)
EXTENDS Mission, TLC

CONSTANTS k1, k2, k3, p1, p2

Plain(k) == [key |-> k, clean |-> TRUE, attempts |-> 3, verified |-> FALSE,
             operations |-> {}]

Proposal(tasks, edges) == [tasks |-> tasks, edges |-> edges]

Verified(k, ops) == [Plain(k) EXCEPT !.verified = TRUE, !.operations = ops]

(* Two valid plans, the first also with its tasks in the other order, and   *)
(* plans that each break one rule: a cycle, a cycle behind a first task,    *)
(* a chain that is too long, a task twice, an unknown operation, no attempt *)
(* at all; and one whose negative number of attempts goes unnoticed.        *)
MCProposed ==
  {Proposal(<<Plain(k1), Plain(k2)>>, <<<<k1, k2>>>>),
   Proposal(<<Plain(k2), Plain(k1)>>, <<<<k1, k2>>>>),
   Proposal(<<Verified(k1, {"test"})>>, <<>>),
   Proposal(<<Plain(k1), Plain(k2)>>, <<<<k1, k2>>, <<k2, k1>>>>),
   Proposal(<<Plain(k1), Plain(k2), Plain(k3)>>,
            <<<<k1, k2>>, <<k2, k3>>, <<k3, k2>>>>),
   Proposal(<<Plain(k1), Plain(k2), Plain(k3)>>, <<<<k1, k2>>, <<k2, k3>>>>),
   Proposal(<<Plain(k1), Plain(k1)>>, <<>>),
   Proposal(<<Verified(k1, {"deploy"})>>, <<>>),
   Proposal(<<[Plain(k1) EXCEPT !.attempts = 0]>>, <<>>),
   Proposal(<<[Plain(k1) EXCEPT !.attempts = -1]>>, <<>>)}

(* Decisions one after the other or racing, with and without approvals of  *)
(* the tasks' own, with and without processes that die.                    *)
MCEnvironments ==
  [deciders : {{p1}, Procs}, approvable : {{}, {k1}}, faulty : {{}, Procs}]
=============================================================================
