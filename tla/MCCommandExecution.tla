------------------------- MODULE MCCommandExecution -------------------------
EXTENDS CommandExecution

CONSTANTS m1, m2, m3, a, b, c, e1, e2

TheRegistry ==
    m1 :> [provider |-> a, cost |-> 1, name |-> 1, status |-> "active",
           reasoning |-> 2, tools |-> TRUE] @@
    m2 :> [provider |-> b, cost |-> 2, name |-> 2, status |-> "active",
           reasoning |-> 2, tools |-> TRUE] @@
    m3 :> [provider |-> c, cost |-> 2, name |-> 3, status |-> "limited",
           reasoning |-> 3, tools |-> TRUE]

TheNeeds == {[reasoning |-> 2, latencySensitive |-> FALSE],
             [reasoning |-> 3, latencySensitive |-> TRUE]}

HighNeed == {[reasoning |-> 2, latencySensitive |-> FALSE]}

Unseen == [outcomes |-> <<>>, latency |-> 0]
Failing == [outcomes |-> <<"failure", "success">>, latency |-> 9000]

TheHistories == m1 :> {Unseen, Failing} @@ m2 :> {Unseen} @@ m3 :> {Unseen}

Step(deps, names) == [tool |-> "known", dependsOn |-> deps, refs |-> names]

(* A chain with a reference, a step before what it needs, a cycle, a plan that *)
(* is too long and one without arguments.                                     *)
ThePlans ==
    {<<Step({}, {}), Step({1}, {1})>>,
     <<Step({2}, {}), Step({}, {})>>,
     <<Step({2}, {}), Step({1}, {})>>,
     <<Step({}, {}), Step({}, {}), Step({}, {})>>,
     <<[Step({}, {}) EXCEPT !.tool = "no args"]>>}
=============================================================================
