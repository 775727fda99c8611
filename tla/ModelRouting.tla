---------------------------- MODULE ModelRouting ----------------------------
(***************************************************************************)
(* The model router (core/modelRouter.ts) and the health it reads: the     *)
(* availability of a model aggregated from its last observations           *)
(* (core/modelHealth.ts) and corrected by the circuit of its provider.     *)
(* Routing is a pure function of the registry, the health table and the    *)
(* circuits at one moment.                                                 *)
(***************************************************************************)
EXTENDS Naturals, FiniteSets, SequencesExt

CONSTANTS
    Models,        \* the registered models
    Providers,     \* the providers that serve them
    Registry,      \* provider, cost, status and capabilities of each model
    Needs,         \* reasoning and latency requirements of commands
    Histories,     \* what the health table may hold for each model
    MinObservations \* fewer observations than this classify nothing

Outcomes == {"success", "failure", "timeout"}
Statuses == {"active", "limited", "retired"}

ASSUME RoutingAssumption ==
    /\ IsFiniteSet(Models)
    /\ Registry \in [Models -> [provider : Providers, cost : Nat, name : Nat,
                                status : Statuses, reasoning : 0 .. 3, tools : BOOLEAN]]
    /\ Needs \subseteq [reasoning : 0 .. 3, latencySensitive : BOOLEAN]
    /\ \A m \in Models : \A h \in Histories[m] :
          h.outcomes \in Seq(Outcomes) /\ h.latency \in Nat
    /\ MinObservations \in Nat \ {0}

(* What the health table may hold when a command is routed.                  *)
HealthTables ==
    {table \in [Models -> UNION {Histories[m] : m \in Models}] :
        \A m \in Models : table[m] \in Histories[m]}

(* The provider-neutral policy: how many of the observations in the window   *)
(* may fail, or time out, before a model counts as degraded.                 *)
Count(history, outcome) == Len(SelectSeq(history.outcomes, LAMBDA o : o = outcome))

Aggregate(history) ==
    LET seen == Len(history.outcomes) IN
    IF seen < MinObservations THEN "unknown"
    ELSE IF \/ 2 * Count(history, "failure") >= seen
            \/ 5 * Count(history, "timeout") >= 2 * seen
    THEN "degraded" ELSE "available"

(* A model without observations ignores a circuit that is half open.         *)
Availability(history, circuit) ==
    IF circuit = "open" THEN "unavailable"
    ELSE IF circuit = "half_open" /\ history.outcomes # <<>> THEN "degraded"
    ELSE Aggregate(history)

(* Median latencies in ms; nothing is known without observations.            *)
LatencyRank(history) ==
    CASE history.outcomes = <<>> -> 1
      [] history.outcomes # <<>> /\ history.latency < 2000 -> 0
      [] history.outcomes # <<>> /\ history.latency \in 2000 .. 7999 -> 2
      [] OTHER -> 3

AvailabilityRank(a) == IF a \in {"available", "unknown"} THEN 0 ELSE 1

MeetsFloor(m, need) == Registry[m].reasoning >= need.reasoning /\ Registry[m].tools

(* The first sort: availability, latency where it matters, cost, name.       *)
Key(m, need, health, circuits) ==
    <<AvailabilityRank(Availability(health[m], circuits[Registry[m].provider])),
      IF need.latencySensitive THEN LatencyRank(health[m]) ELSE 0,
      Registry[m].cost, Registry[m].name>>

Before(k, l) ==
    \E i \in 1 .. 4 : k[i] < l[i] /\ \A j \in 1 .. i - 1 : k[j] = l[j]

(* The second, stable one: at the same cost a limited model goes after an    *)
(* active one.                                                               *)
Yields(m, n) ==
    /\ Registry[m].cost = Registry[n].cost
    /\ Registry[m].status = "limited" /\ Registry[n].status # "limited"

(* It compares as equal what differs in cost, so a model only moves past      *)
(* neighbours of its own cost, whatever the first sort has put between.       *)
Overtakes(keys, m, n) ==
    /\ Yields(n, m) /\ Before(keys[n], keys[m])
    /\ \A k \in DOMAIN keys : Before(keys[n], keys[k]) /\ Before(keys[k], keys[m])
                                 => Registry[k].cost = Registry[m].cost

GoesBefore(keys, m, n) ==
    \/ Overtakes(keys, m, n)
    \/ Before(keys[m], keys[n]) /\ ~Overtakes(keys, n, m)

(* The models that have a key, each once and in their order.                  *)
Rankings(keys) ==
    {s \in [1 .. Cardinality(DOMAIN keys) -> DOMAIN keys] :
        /\ IsInjective(s)
        /\ \A i, j \in DOMAIN s : i < j => ~GoesBefore(keys, s[j], s[i])}

Eligible(need, health, circuits) ==
    {m \in Models :
       /\ MeetsFloor(m, need) /\ Registry[m].status # "retired"
       /\ Availability(health[m], circuits[Registry[m].provider]) # "unavailable"}

MaxCandidates == 3

(* The primary and at most two fallbacks; none when nothing is eligible.      *)
Routes(need, health, circuits) ==
    LET keys == [m \in Eligible(need, health, circuits) |->
                   Key(m, need, health, circuits)] IN
    {SubSeq(s, 1, IF Len(s) < MaxCandidates THEN Len(s) ELSE MaxCandidates) :
        s \in Rankings(keys)}

(* fallback: the next candidate that has not been given up.                   *)
FirstNotIn(ranked, dead) ==
    ranked[CHOOSE i \in DOMAIN ranked :
              /\ ranked[i] \notin dead
              /\ \A j \in 1 .. i - 1 : ranked[j] \in dead]
=============================================================================
