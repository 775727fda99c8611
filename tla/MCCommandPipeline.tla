------------------------- MODULE MCCommandPipeline -------------------------
(* A request of each kind the gate tells apart.                             *)
EXTENDS CommandPipeline

Ask(verb, resource, environment) ==
    [actor |-> "owner", granted |-> FALSE, project |-> TRUE, verb |-> verb,
     resource |-> resource, env |-> environment, denied |-> FALSE,
     policy |-> "none", trusted |-> FALSE]

(* Executed at once; approved first; denied by the registry; and an agent   *)
(* without the permission in staging.                                       *)
SomeRequests ==
    {Ask("execute", "other", "development"),
     Ask("deploy", "other", "production"),
     [Ask("write", "other", "staging") EXCEPT !.actor = "agent"]}
=============================================================================
