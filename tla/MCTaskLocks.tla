----------------------------- MODULE MCTaskLocks -----------------------------
(* Instances of TaskLocks for TLC: three tasks, and requests that close a   *)
(* ring of dependencies around them.                                        *)
EXTENDS TaskLocks, TLC

CONSTANTS t1, t2, t3, a1

Request(k, t, o) == [kind |-> k, task |-> t, other |-> o]

MCRequests ==
  {Request("add", t2, t1), Request("add", t3, t2), Request("add", t1, t3),
   Request("claim", t2, a1), Request("claim", t1, a1),
   Request("place", t2, a1), Request("assign", t2, a1),
   Request("assign", t1, None)}
==============================================================================
