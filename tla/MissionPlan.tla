------------------------------ MODULE MissionPlan ------------------------------
(***************************************************************************)
(* The plan of a mission as it is proposed, and the deterministic check    *)
(* every proposal goes through (src/core/mission/missionEngine.ts,         *)
(* planner.ts): bounds, the verification contract of each task, and a      *)
(* dependency graph without cycles, of bounded depth and fan.              *)
(*                                                                         *)
(* A proposal is a sequence of tasks and a sequence of edges, from the     *)
(* prerequisite to the dependent.  The texts of a task are abstracted to   *)
(* `clean': within their bounds and without a rejected phrase.             *)
(***************************************************************************)
EXTENDS Integers, Sequences, FiniteSets, Functions

CONSTANTS
  Keys,      \* mission_task_key
  MaxTasks,  \* DEFAULT_MAX_TASKS
  MaxEdges,  \* DEFAULT_MAX_EDGES
  MaxDepth,  \* MAX_DAG_DEPTH
  MaxFan     \* MAX_FAN_IN, MAX_FAN_OUT

ASSUME PlanAssumption ==
  /\ MaxTasks \in Nat \ {0} /\ MaxEdges \in Nat
  /\ MaxDepth \in Nat \ {0} /\ MaxFan \in Nat \ {0}

Operations == {"test", "typecheck", "build"}

KeysOf(q) == {t.key : t \in Range(q.tasks)}
Edges(q) == Range(q.edges)
PrerequisitesOf(k, E) == {e[1] : e \in {d \in E : d[2] = k}}

NoDuplicates(s) == \A i, j \in DOMAIN s : s[i] = s[j] => i = j

(* maxAttempts: a negative number falls back to the default, so only a     *)
(* number from zero up to one is refused.                                  *)
TaskSound(t) ==
  /\ t.clean
  /\ t.attempts # 0
  /\ IF t.verified THEN t.operations # {} /\ t.operations \subseteq Operations
                   ELSE t.operations = {}

(* The tasks the topological sort reaches: round by round those whose      *)
(* prerequisites it has reached; the order within a round does not matter. *)
Ordered(q) ==
  LET N == Cardinality(KeysOf(q))
      done[i \in 0 .. N] ==
        IF i = 0 THEN {}
        ELSE {k \in KeysOf(q) : PrerequisitesOf(k, Edges(q)) \subseteq done[i - 1]}
  IN  done[N]

(* Some task has a chain of MaxDepth edges before it, along the sort.      *)
TooDeep(q) ==
  LET tails[i \in 0 .. MaxDepth] ==
        IF i = 0 THEN KeysOf(q)
        ELSE {k \in KeysOf(q) :
                PrerequisitesOf(k, Edges(q)) \cap Ordered(q) \cap tails[i - 1] # {}}
  IN  tails[MaxDepth] # {}

GraphSound(q) ==
  /\ Len(q.edges) <= MaxEdges
  /\ NoDuplicates(q.edges)
  /\ \A e \in Edges(q) : e \in KeysOf(q) \X KeysOf(q) /\ e[1] # e[2]
  /\ \A k \in KeysOf(q) :
       /\ Cardinality({e \in Edges(q) : e[1] = k}) <= MaxFan
       /\ Cardinality({e \in Edges(q) : e[2] = k}) <= MaxFan
  /\ Ordered(q) = KeysOf(q)
  /\ ~TooDeep(q)

(* validateMissionPlan.                                                    *)
ValidPlan(q) ==
  /\ q.tasks # <<>> /\ Len(q.tasks) <= MaxTasks
  /\ NoDuplicates([i \in DOMAIN q.tasks |-> q.tasks[i].key])
  /\ \A t \in Range(q.tasks) : TaskSound(t)
  /\ GraphSound(q)

(* How often each element occurs: arrays are sorted before they are hashed. *)
Counts(s) == [x \in Range(s) |-> Cardinality({i \in DOMAIN s : s[i] = x})]

(* hashMissionPlan: the canonical plan itself, equal for two proposals that *)
(* differ in the order of their tasks or of their edges only.              *)
Hash(q) == [tasks |-> Counts(q.tasks), edges |-> Counts(q.edges)]

Acyclic(K, E) ==
  \A S \in (SUBSET K) \ {{}} : \E k \in S : PrerequisitesOf(k, E) \cap S = {}

(* What the database accepts: a check wants an attempt at least, a trigger *)
(* refuses the edge that would close a cycle.                              *)
Insertable(q) ==
  /\ \A t \in Range(q.tasks) : t.attempts > 0
  /\ Acyclic(KeysOf(q), Edges(q))

(* Of a hash.                                                              *)
TasksOf(h) == {t.key : t \in DOMAIN h.tasks}
Prerequisites(h, k) == PrerequisitesOf(k, DOMAIN h.edges)
=============================================================================
