------------------------------- MODULE TaskLocks -------------------------------
(***************************************************************************)
(* The transactions over tasks and their dependencies (src/db/repo.ts):    *)
(* claimTaskForExecution, assignTaskIfUnassigned, assignTask and           *)
(* addTaskDependency with the locks each of them takes, one after the      *)
(* other, and the pool of connections they share (src/db/pool.ts).         *)
(* TaskExecution has these calls as single actions; here is why it may.    *)
(*                                                                         *)
(* The locks are PostgreSQL's: FOR UPDATE on a row excludes every other    *)
(* lock of it, the FOR KEY SHARE of a foreign key check only FOR UPDATE;   *)
(* the advisory lock of the project's graph is exclusive; all are released *)
(* when the transaction ends, and a cycle of waiting transactions is       *)
(* broken by ending one of them.  One project is modelled; whether an      *)
(* agent is active and has room is left open.                              *)
(***************************************************************************)
EXTENDS Integers, Sequences, FiniteSets

CONSTANTS
  Tasks, Agents,
  Callers,   \* concurrent calls of one process
  Requests,  \* what a call may be: its kind, its task, and the agent or the
             \* prerequisite it is about
  PoolMax,   \* connections of the pool
  MaxCalls,  \* bound on the number of calls
  Graph,     \* the advisory lock of the project
  None       \* SQL NULL

Kinds == {"claim", "place", "assign", "add"}

ASSUME TaskLocksAssumption ==
  /\ \A r \in Requests :
       /\ r \in [kind : Kinds, task : Tasks, other : Tasks \cup Agents \cup {None}]
       /\ r.kind \in {"claim", "place"} => r.other \in Agents
       /\ r.kind = "assign" => r.other \in Agents \cup {None}
       /\ r.kind = "add" => r.other \in Tasks
  /\ Tasks \cap Agents = {} /\ Graph \notin Tasks \cup Agents
  /\ None \notin Tasks \cup Agents \cup {Graph}
  /\ PoolMax \in Nat \ {0} /\ MaxCalls \in Nat

VARIABLES
  status,  \* tasks.status
  agent,   \* tasks.agent_id
  edges,   \* task_dependencies: <<prerequisite, dependent>>
  call,    \* the call each caller is making
  locks,   \* what the open transactions have locked
  conns,   \* the calls that keep a connection
  calls    \* calls made so far

vars == <<status, agent, edges, call, locks, conns, calls>>
rows == <<status, agent, edges>>

Idle == [pc |-> "idle", kind |-> "none", task |-> None, other |-> None, got |-> 0]

(***************************************************************************)
(* The dependency graph.                                                   *)
(***************************************************************************)

Acyclic(E) ==
  \A S \in (SUBSET Tasks) \ {{}} :
    \E k \in S : \A e \in E : e[2] = k => e[1] \notin S

Closed(C, E) == \A e \in E : e[1] \in C => e[2] \in C

(* Mutant: only the direct successors are looked at.                       *)
ReachesDirectly(x, y) == <<x, y>> \in edges

(* y is reached from x along the edges.                                    *)
Reaches(x, y) ==
  \A C \in SUBSET Tasks : x \in C /\ Closed(C, edges) => y \in C

(* Mutant: a prerequisite that has been started is enough.                 *)
ReadyWhenStarted(t) ==
  \A e \in edges : e[2] = t => status[e[1]] \in {"running", "completed"}

(* hasUnmetPrerequisite, negated.                                          *)
Ready(t) == \A e \in edges : e[2] = t => status[e[1]] = "completed"

(***************************************************************************)
(* Locks and connections.                                                  *)
(***************************************************************************)

At(c, label) == call[c].pc = label
Goto(c, label) == call' = [call EXCEPT ![c].pc = label]

(* Mutant: the order the comment of assignTask names, agent before task.   *)
OrderOfComment(r) ==
  CASE r.kind = "claim" -> <<r.task, Graph>>
    [] r.kind = "place" -> <<r.task, Graph, r.other>>
    [] r.kind = "assign" -> IF r.other = None THEN <<r.task>>
                            ELSE <<r.other, r.task>>
    [] OTHER -> <<Graph, r.other, r.task>>

(* The order in which a call takes its locks.  An insertion is the trigger *)
(* and then the two foreign keys of the edge.                              *)
Order(r) ==
  CASE r.kind = "claim" -> <<r.task, Graph>>
    [] r.kind = "place" -> <<r.task, Graph, r.other>>
    [] r.kind = "assign" -> IF r.other = None THEN <<r.task>>
                            ELSE <<r.task, r.other>>
    [] OTHER -> <<Graph, r.other, r.task>>

Mode(r, x) == IF r.kind = "add" /\ x # Graph THEN "share" ELSE "exclusive"

Wanted(c) == Order(call[c])[call[c].got + 1]
Waiting(c) == At(c, "locking") /\ call[c].got < Len(Order(call[c]))

(* d has a lock that excludes the one c waits for.                         *)
WaitsFor(c, d) ==
  /\ Waiting(c) /\ c # d
  /\ \E l \in locks : /\ l.caller = d /\ l.on = Wanted(c)
                      /\ "exclusive" \in {l.mode, Mode(call[c], Wanted(c))}

Free == Cardinality(conns) < PoolMax

(* COMMIT or ROLLBACK.                                                     *)
EndTransaction(c) == locks' = {l \in locks : l.caller # c}

(* The finally of every call.                                              *)
Return(c) ==
  /\ call' = [call EXCEPT ![c] = Idle]
  /\ EndTransaction(c)
  /\ conns' = conns \ {c}

(***************************************************************************)
(* The calls.                                                              *)
(***************************************************************************)

Statuses == {"queued", "running", "completed"}

Addable ==
  {<<r.other, r.task>> : r \in {q \in Requests : q.kind = "add" /\ q.other # q.task}}

(* Some dependencies have been added and some tasks started before.        *)
Init ==
  /\ edges \in {E \in SUBSET Addable : Acyclic(E)}
  /\ status \in [Tasks -> Statuses]
  /\ agent \in [Tasks -> Agents \cup {None}]
  /\ \A t \in Tasks : status[t] # "queued" => Ready(t) /\ agent[t] # None
  /\ call = [c \in Callers |-> Idle]
  /\ locks = {} /\ conns = {} /\ calls = 0

Begin(c, r) ==
  /\ At(c, "idle") /\ calls < MaxCalls
  /\ call' = [call EXCEPT ![c] =
       [pc |-> IF r.kind = "add" THEN "reading" ELSE "connecting",
        kind |-> r.kind, task |-> r.task, other |-> r.other, got |-> 0]]
  /\ calls' = calls + 1
  /\ UNCHANGED <<rows, locks, conns>>

(* addTaskDependency looks at the two tasks before its transaction.        *)
ReadTasks(c) ==
  /\ At(c, "reading") /\ Free
  /\ IF call[c].task # call[c].other /\ status[call[c].task] = "queued"
       THEN Goto(c, "connecting")
       ELSE call' = [call EXCEPT ![c] = Idle]
  /\ UNCHANGED <<rows, locks, conns, calls>>

Connect(c) ==
  /\ At(c, "connecting") /\ Free
  /\ conns' = conns \cup {c}
  /\ Goto(c, "locking")
  /\ UNCHANGED <<rows, locks, calls>>

(* Mutant: the pool lets a call wait as long as it takes.                  *)
WaitsForEver(c) == FALSE

(* connectionTimeoutMillis: the call throws.                               *)
ConnectTimesOut(c) ==
  /\ call[c].pc \in {"reading", "connecting", "again"}
  /\ Return(c)
  /\ UNCHANGED <<rows, calls>>

(* What the call reads under the lock it has just got may end it, at once, *)
(* or after another query on a second connection, with the transaction     *)
(* open or already over.                                                   *)
Refusals(c, x) ==
  LET r == call[c] IN
  {o \in {"return", "query", "rollback and query"} :
     \/ /\ r.kind = "claim" /\ x = r.task
        /\ IF agent[x] # r.other THEN o = "return"
           ELSE status[x] # "queued" /\ o = "query"
     \/ r.kind = "claim" /\ x = Graph /\ ~Ready(r.task) /\ o = "rollback and query"
     \/ r.kind = "place" /\ x = r.task /\ agent[x] # None /\ o = "return"
     \/ r.kind = "place" /\ x = Graph /\ ~Ready(r.task) /\ o = "return"
     \/ r.kind = "assign" /\ x = r.task /\ agent[x] = r.other /\ o = "return"
     \/ /\ r.kind = "add" /\ x = Graph
        /\ IF Reaches(r.task, r.other) THEN o = "return"
           ELSE <<r.other, r.task>> \in edges /\ o = "rollback and query"}

(* An agent that is not active or has no room.                             *)
AgentRefuses(c, x) == x \in Agents

(* The next lock is granted and the rows behind it are read.               *)
Lock(c) ==
  LET x == Wanted(c) IN
  /\ Waiting(c) /\ \A d \in Callers : ~WaitsFor(c, d)
  /\ \/ /\ "return" \in Refusals(c, x) \/ AgentRefuses(c, x)
        /\ Return(c)
     \/ /\ "rollback and query" \in Refusals(c, x)
        /\ Goto(c, "again") /\ EndTransaction(c)
        /\ UNCHANGED conns
     \/ /\ \/ "query" \in Refusals(c, x) /\ Goto(c, "again")
           \/ /\ Refusals(c, x) = {}
              /\ call' = [call EXCEPT ![c].got = @ + 1]
        /\ locks' = locks \cup {[caller |-> c, on |-> x, mode |-> Mode(call[c], x)]}
        /\ UNCHANGED conns
  /\ UNCHANGED <<rows, calls>>

(* With all its locks the call writes and commits; a claim then reads the  *)
(* task again and an insertion writes its audit record, on a second        *)
(* connection.                                                             *)
Write(c) ==
  LET r == call[c] IN
  /\ At(c, "locking") /\ ~Waiting(c)
  /\ \/ /\ r.kind \in {"claim", "add"}
        /\ IF r.kind = "claim"
             THEN status' = [status EXCEPT ![r.task] = "running"] /\ UNCHANGED edges
             ELSE edges' = edges \cup {<<r.other, r.task>>} /\ UNCHANGED status
        /\ Goto(c, "again") /\ EndTransaction(c)
        /\ UNCHANGED <<agent, conns>>
     \/ /\ r.kind \in {"place", "assign"}
        /\ agent' = [agent EXCEPT ![r.task] = r.other]
        /\ Return(c)
        /\ UNCHANGED <<status, edges>>
  /\ UNCHANGED calls

(* The query on the second connection, and the end of the call.            *)
Again(c) ==
  /\ At(c, "again") /\ Free
  /\ Return(c)
  /\ UNCHANGED <<rows, calls>>

(* A set of transactions each of which waits for another one of it.        *)
Stuck(S) == S # {} /\ \A c \in S : \E d \in S : WaitsFor(c, d)
Deadlock(S) == Stuck(S) /\ \A Q \in SUBSET S : Stuck(Q) => Q = S

(* PostgreSQL ends one transaction of a deadlock; the call throws.         *)
Victim(c) ==
  /\ \E S \in SUBSET Callers : c \in S /\ Deadlock(S)
  /\ Return(c)
  /\ UNCHANGED <<rows, calls>>

(* The process dies or the connection breaks: the transaction is undone.   *)
Crash(c) ==
  /\ ~At(c, "idle")
  /\ Return(c)
  /\ UNCHANGED <<rows, calls>>

(* Statements of their own: completion or retry of a running task, which   *)
(* wait for the row, and removeTaskDependency.                             *)
Finish(t) ==
  /\ status[t] = "running"
  /\ \A l \in locks : l.on = t => l.mode = "share"
  /\ \E s \in {"completed", "queued"} : status' = [status EXCEPT ![t] = s]
  /\ UNCHANGED <<agent, edges, call, locks, conns, calls>>

RemoveTaskDependency(e) ==
  /\ e \in edges
  /\ edges' = edges \ {e}
  /\ UNCHANGED <<status, agent, call, locks, conns, calls>>

Proceed(c) ==
  ReadTasks(c) \/ Connect(c) \/ Lock(c) \/ Write(c) \/ Again(c)

Next ==
  \/ \E c \in Callers : \/ \E r \in Requests : Begin(c, r)
                        \/ Proceed(c) \/ ConnectTimesOut(c) \/ Victim(c) \/ Crash(c)
  \/ \E t \in Tasks : Finish(t)
  \/ \E e \in edges : RemoveTaskDependency(e)

Spec == Init /\ [][Next]_vars

(* Locks are granted in the order they are asked for, the deadlock         *)
(* detector and the timeout of the pool do run.                            *)
Fairness ==
  \A c \in Callers : /\ WF_vars(Proceed(c)) /\ SF_vars(Lock(c))
                     /\ WF_vars(Victim(c)) /\ WF_vars(ConnectTimesOut(c))

FairSpec == Spec /\ Fairness

(***************************************************************************)
(* Properties.                                                             *)
(***************************************************************************)

TypeOK ==
  /\ status \in [Tasks -> Statuses]
  /\ agent \in [Tasks -> Agents \cup {None}]
  /\ edges \subseteq Tasks \X Tasks
  /\ \A c \in Callers :
       \/ call[c] = Idle
       \/ /\ call[c].pc \in {"reading", "connecting", "locking", "again"}
          /\ \E r \in Requests : /\ call[c].kind = r.kind /\ call[c].task = r.task
                                 /\ call[c].other = r.other
          /\ call[c].got \in 0 .. Len(Order(call[c]))
  /\ locks \subseteq [caller : Callers, on : Tasks \cup Agents \cup {Graph},
                      mode : {"share", "exclusive"}]
  /\ conns = {c \in Callers : call[c].pc \in {"locking", "again"}}
  /\ \A l \in locks : l.caller \in conns
  /\ calls \in 0 .. MaxCalls

(* The dependencies never close a cycle, however many insertions run at    *)
(* the same time: what the trigger found under the advisory lock still     *)
(* holds when the edge is committed.                                       *)
GraphAcyclic == Acyclic(edges)

(* A task is claimed only at a moment when every prerequisite it has is    *)
(* completed: no edge slips in between the check and the commit.           *)
ClaimedWhenReady ==
  [][\A t \in Tasks : status[t] = "queued" /\ status'[t] = "running" => Ready(t)]_vars

(* Claims, placements and assignments never block one another for good,    *)
(* nor do insertions: a deadlock is always one insertion and the claim or  *)
(* placement of one of its two tasks.                                      *)
DeadlockNeedsInsertion ==
  \A S \in SUBSET Callers :
    Deadlock(S) =>
      \E c, d \in S :
        /\ S = {c, d}
        /\ call[c].kind = "add" /\ call[d].kind \in {"claim", "place"}
        /\ call[d].task \in {call[c].task, call[c].other}

(* Every call comes back, although calls keep a connection and their locks *)
(* while they wait for a second connection.                                *)
CallsReturn == \A c \in Callers : ~At(c, "idle") ~> At(c, "idle")
================================================================================
