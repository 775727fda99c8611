---------------------------- MODULE TaskExecution ----------------------------
(***************************************************************************)
(* The life of a task between the queue and its end, as the workforce      *)
(* runs it: discovery, selection of an agent, atomic placement, claim,     *)
(* execution, acceptance, completion or bounded retry, and the recovery of *)
(* stale RUNNING rows.                                                     *)
(*                                                                         *)
(* The rows of the database are shared (status, agent, attempts, started,  *)
(* edges, active).  An executor is one slot of one worker process carrying *)
(* one task through placeTask and executeAssignedAgentTask; every await of *)
(* the code is a point where other executors, the recovery sweep and       *)
(* crashes may interleave, so every store call is an action of its own.    *)
(*                                                                         *)
(* Abstracted: which of several schedulable tasks and eligible agents is   *)
(* taken (any may be), prompts and outputs, audit and cost rows, and the   *)
(* authority decision (it may allow or refuse).  task_runs rows of calls   *)
(* that have ended are forgotten; the row of a live call is ex[e].run.     *)
(***************************************************************************)
EXTENDS TaskStatus, FiniteSets

CONSTANTS
  Tasks,          \* tasks of one owner and project
  Agents,         \* agents of that owner
  Executors,      \* concurrent execution slots, over all workers
  Slow,           \* the slots that may outlive the 10 minute recovery window
  Cap,            \* agents.max_concurrent_tasks
  Reassignable,   \* tasks whose assignment the owner may edit
  Verified,       \* tasks with a non-empty requiredVerifications
  MaxAttempts,    \* tasks.max_attempts
  None            \* SQL NULL

ASSUME TaskExecutionAssumption ==
  /\ IsFiniteSet(Tasks)
  /\ Slow \subseteq Executors
  /\ Cap \in [Agents -> Nat]
  /\ Reassignable \subseteq Tasks
  /\ Verified \subseteq Tasks
  /\ MaxAttempts \in Nat \ {0}
  /\ None \notin Tasks \cup Agents \cup Executors

VARIABLES
  status,    \* tasks.status
  agent,     \* tasks.agent_id
  attempts,  \* tasks.attempts
  started,   \* tasks.started_at, seen from the recovery sweep
  edges,     \* task_dependencies: <<prerequisite, dependent>>
  active,    \* the agents whose status is 'active'
  ex         \* the local state of each executor

taskVars == <<status, agent, attempts, started>>
vars == <<status, agent, attempts, started, edges, active, ex>>

PC == {"idle", "discovered", "selected", "placed", "checked", "claimed",
       "executing", "completing", "closing", "recording", "failing",
       "reading", "patching"}

(* The points of executeAssignedAgentTask after a successful claim.        *)
AfterClaim == {"claimed", "executing", "completing", "closing", "recording",
               "failing", "reading", "patching"}

(* The acceptance class that steers the failure path.                      *)
Verdicts == {"none", "retry", "closed"}
RunStatuses == {"none", "running", "completed", "failed"}

Idle == [pc |-> "idle", task |-> None, agent |-> None, excluded |-> {},
         verdict |-> "none", seen |-> 0, run |-> "none"]

(* The local state of one call.                                            *)
Calls == [pc : PC, task : Tasks \cup {None}, agent : Agents \cup {None},
          excluded : SUBSET Agents, verdict : Verdicts,
          seen : 0..MaxAttempts, run : RunStatuses]

WellFormed(c) ==
  /\ c.pc # "idle" => c.task \in Tasks
  /\ c.pc \notin {"idle", "discovered"} => c.agent \in Agents

TypeOK ==
  /\ status \in [Tasks -> TaskStatuses]
  /\ agent \in [Tasks -> Agents \cup {None}]
  /\ attempts \in [Tasks -> 0..MaxAttempts]
  /\ started \in [Tasks -> {"null", "recent", "stale"}]
  /\ edges \subseteq Tasks \X Tasks
  /\ active \subseteq Agents
  /\ ex \in [Executors -> Calls]
  /\ \A e \in Executors : WellFormed(ex[e])

(***************************************************************************)
(* Queries.                                                                *)
(***************************************************************************)

(* Mutant: any end of the prerequisite satisfies the dependency.           *)
ReadyWhenEnded(t) ==
  \A p \in Tasks : <<p, t>> \in edges => status[p] \in TerminalTaskStatuses

(* hasUnmetPrerequisite, negated: only 'completed' satisfies a dependency. *)
Ready(t) == \A p \in Tasks : <<p, t>> \in edges => status[p] = "completed"

(* The row filter of listSchedulableTasks.                                 *)
Schedulable(t) ==
  /\ agent[t] = None
  /\ status[t] = "queued"
  /\ attempts[t] < MaxAttempts
  /\ Ready(t)

(* The workload count: tasks of the agent that are not in a terminal state.*)
Assigned(a) == {t \in Tasks : agent[t] = a
                              /\ status[t] \notin TerminalTaskStatuses}
Load(a) == Cardinality(Assigned(a))
HasRoom(a) == Load(a) < Cap[a]

(* selectCandidate's filter; the ranking among the eligible is abstracted. *)
Eligible(e) == {a \in active \ ex[e].excluded : HasRoom(a)}

(***************************************************************************)
(* Helpers on the local state of a call.                                   *)
(***************************************************************************)

At(e, label) == ex[e].pc = label
Goto(e, label) == ex' = [ex EXCEPT ![e].pc = label]
Return(e) == ex' = [ex EXCEPT ![e] = Idle]
Deny(e, verdict) ==
  ex' = [ex EXCEPT ![e].pc = "failing", ![e].verdict = verdict]
Reads == UNCHANGED <<status, agent, attempts, started, edges, active>>

(* What fn_task_dependency_cycle_guard maintains: the edges admit an order.*)
Acyclic(E) ==
  \E rank \in [Tasks -> 1..Cardinality(Tasks)] :
    \A edge \in E : rank[edge[1]] < rank[edge[2]]

Init ==
  /\ status = [t \in Tasks |-> "queued"]
  /\ agent = [t \in Tasks |-> None]
  /\ attempts = [t \in Tasks |-> 0]
  /\ started = [t \in Tasks |-> "null"]
  /\ edges \in {E \in SUBSET (Tasks \X Tasks) : Acyclic(E)}
  /\ active \in SUBSET Agents
  /\ ex = [e \in Executors |-> Idle]

(***************************************************************************)
(* Placement: runWorkforce takes a task from its discovery snapshot and    *)
(* placeTask makes at most two selections for it.                          *)
(***************************************************************************)

Discover(e, t) ==
  /\ At(e, "idle")
  /\ Schedulable(t)
  /\ ex' = [ex EXCEPT ![e].pc = "discovered", ![e].task = t]
  /\ Reads

SelectCandidate(e, a) ==
  /\ At(e, "discovered")
  /\ a \in Eligible(e)
  /\ ex' = [ex EXCEPT ![e].pc = "selected", ![e].agent = a]
  /\ Reads

NoCandidate(e) ==
  /\ At(e, "discovered")
  /\ Eligible(e) = {}
  /\ Return(e)
  /\ Reads

(* Mutant: the capacity is not counted again under the agent lock.         *)
AgentAcceptsUncounted(a) == a \in active

(* The transaction of assignTaskIfUnassigned, whose guards are evaluated   *)
(* under the row, advisory and agent locks.  It does not look at status.   *)
AssignmentOpen(t) == agent[t] = None /\ Ready(t)
AgentAccepts(a) == a \in active /\ HasRoom(a)

AssignTaskIfUnassigned(e) ==
  LET t == ex[e].task
      a == ex[e].agent
  IN  /\ At(e, "selected")
      /\ AssignmentOpen(t)
      /\ AgentAccepts(a)
      /\ agent' = [agent EXCEPT ![t] = a]
      /\ Goto(e, "placed")
      /\ UNCHANGED <<status, attempts, started, edges, active>>

(* already_assigned and not_ready end placeTask.                           *)
AssignmentRefused(e) ==
  /\ At(e, "selected")
  /\ ~AssignmentOpen(ex[e].task)
  /\ Return(e)
  /\ Reads

(* agent_not_eligible and agent_at_capacity: once more without that agent. *)
AgentRefused(e) ==
  LET tried == ex[e].excluded \cup {ex[e].agent}
  IN  /\ At(e, "selected")
      /\ AssignmentOpen(ex[e].task)
      /\ ~AgentAccepts(ex[e].agent)
      /\ IF Cardinality(tried) < 2
           THEN ex' = [ex EXCEPT ![e].pc = "discovered",
                                 ![e].excluded = tried]
           ELSE Return(e)
      /\ Reads

(***************************************************************************)
(* executeAssignedAgentTask up to the claim.                               *)
(***************************************************************************)

(* getAgent, getTask and resolveAgentAuthority: reads only.                *)
CheckAssignment(e) ==
  /\ At(e, "placed")
  /\ ex[e].agent \in active
  /\ agent[ex[e].task] = ex[e].agent
  /\ status[ex[e].task] = "queued"
  /\ Goto(e, "checked")
  /\ Reads

(* A failed check, or an authority that denies or wants an approval: the   *)
(* call returns and the task stays as it was, still assigned.              *)
Refuse(e) ==
  /\ At(e, "placed")
  /\ Return(e)
  /\ Reads

(* Mutants: the claim does not look at the status, or only refuses RUNNING. *)
ClaimableAnyStatus(t, a) == agent[t] = a /\ Ready(t)
ClaimableUnlessRunning(t, a) ==
  agent[t] = a /\ status[t] # "running" /\ Ready(t)

Claimable(t, a) == agent[t] = a /\ status[t] = "queued" /\ Ready(t)

(* Mutant: the claim forgets to set started_at.                            *)
ClaimWithoutStart(e) ==
  LET t == ex[e].task
  IN  /\ At(e, "checked")
      /\ Claimable(t, ex[e].agent)
      /\ status' = [status EXCEPT ![t] = "running"]
      /\ Goto(e, "claimed")
      /\ UNCHANGED <<agent, attempts, started, edges, active>>

ClaimTaskForExecution(e) ==
  LET t == ex[e].task
  IN  /\ At(e, "checked")
      /\ Claimable(t, ex[e].agent)
      /\ status' = [status EXCEPT ![t] = "running"]
      /\ started' = [started EXCEPT ![t] = "recent"]
      /\ Goto(e, "claimed")
      /\ UNCHANGED <<agent, attempts, edges, active>>

ClaimRefused(e) ==
  /\ At(e, "checked")
  /\ ~Claimable(ex[e].task, ex[e].agent)
  /\ Return(e)
  /\ Reads

CreateTaskRun(e) ==
  /\ At(e, "claimed")
  /\ ex' = [ex EXCEPT ![e].pc = "executing", ![e].run = "running"]
  /\ Reads

(***************************************************************************)
(* The outcome of the attempt and the acceptance gate.                     *)
(***************************************************************************)

ExecutionFails(e) ==
  /\ At(e, "executing")
  /\ Deny(e, "retry")
  /\ Reads

(* The gate is only asked for a task that requires verification.           *)
GateDenies(e, verdict) ==
  /\ At(e, "executing")
  /\ ex[e].task \in Verified
  /\ Deny(e, verdict)
  /\ Reads

ExecutionAccepted(e) ==
  /\ At(e, "executing")
  /\ Goto(e, "completing")
  /\ Reads

(* withStableWorkspace finds another fingerprint under the workspace lock. *)
WorkspaceChanged(e) ==
  /\ At(e, "completing")
  /\ ex[e].task \in Verified
  /\ Deny(e, "retry")
  /\ Reads

(* A store call that throws inside the guarded section is caught there and *)
(* turns into a blocked acceptance.                                        *)
GuardedCallThrows(e) ==
  /\ ex[e].pc \in {"completing", "closing", "recording"}
  /\ ex[e].task \in Verified
  /\ Deny(e, "closed")
  /\ Reads

(***************************************************************************)
(* persistCompletion.                                                      *)
(***************************************************************************)

CompleteRun(e) ==
  /\ At(e, "completing")
  /\ ex' = [ex EXCEPT ![e].pc = "closing", ![e].run = "completed"]
  /\ Reads

CompleteTaskIfRunning(e) ==
  LET t == ex[e].task
  IN  /\ At(e, "closing")
      /\ status[t] = "running"
      /\ status' = [status EXCEPT ![t] = "completed"]
      /\ Goto(e, "recording")
      /\ UNCHANGED <<agent, attempts, started, edges, active>>

(* task_state_changed_at_completion: caught only in the guarded section.   *)
CompletionRefused(e) ==
  /\ At(e, "closing")
  /\ status[ex[e].task] # "running"
  /\ IF ex[e].task \in Verified THEN Deny(e, "closed") ELSE Return(e)
  /\ Reads

RecordDecision(e) ==
  /\ At(e, "recording")
  /\ Return(e)
  /\ Reads

(***************************************************************************)
(* The failure path: close the run, read the task, then write it.          *)
(***************************************************************************)

FailRun(e) ==
  /\ At(e, "failing")
  /\ ex' = [ex EXCEPT ![e].pc = "reading", ![e].run = "failed"]
  /\ Reads

(* Mutant: the call goes on when another party has ended the task.         *)
ReadCurrentUnchecked(e) ==
  /\ At(e, "reading")
  /\ ex' = [ex EXCEPT ![e].pc = "patching", ![e].seen = attempts[ex[e].task]]
  /\ Reads

ReadCurrent(e) ==
  LET t == ex[e].task
  IN  /\ At(e, "reading")
      /\ IF status[t] \in TerminalTaskStatuses
           THEN Return(e)
           ELSE ex' = [ex EXCEPT ![e].pc = "patching",
                                 ![e].seen = attempts[t]]
      /\ Reads

(* patchTask has no condition on the row: it writes what was decided from  *)
(* the earlier read.                                                       *)
PatchClosed(e) ==
  LET t == ex[e].task
  IN  /\ At(e, "patching")
      /\ ex[e].verdict = "closed"
      /\ status' = [status EXCEPT ![t] = "failed"]
      /\ Return(e)
      /\ UNCHANGED <<agent, attempts, started, edges, active>>

PatchRetry(e) ==
  LET t == ex[e].task
      n == ex[e].seen
  IN  /\ At(e, "patching")
      /\ ex[e].verdict = "retry"
      /\ status' = [status EXCEPT ![t] = FailureStatus(n, MaxAttempts)]
      /\ attempts' = [attempts EXCEPT ![t] = n + 1]
      /\ Return(e)
      /\ UNCHANGED <<agent, started, edges, active>>

(***************************************************************************)
(* The environment of an executor.                                         *)
(***************************************************************************)

(* The process dies, or a store call throws out of the call: what the      *)
(* executor knew is lost and the rows stay as they are.                    *)
Crash(e) ==
  /\ ~At(e, "idle")
  /\ Return(e)
  /\ Reads

(* assignTask, behind setTaskAssignment: the owner assigns, reassigns or    *)
(* unassigns.  Unlike placement it looks neither at the capacity of the    *)
(* agent nor at the status of the task.                                    *)
AssignTask(t, a) ==
  /\ t \in Reassignable
  /\ a \in active \cup {None}
  /\ agent[t] # a
  /\ agent' = [agent EXCEPT ![t] = a]
  /\ UNCHANGED <<status, attempts, started, edges, active, ex>>

(* Ten minutes pass since started_at.                                      *)
InFlight(t) == {e \in Executors : ex[e].task = t /\ ex[e].pc \in AfterClaim}

Age(t) ==
  /\ started[t] = "recent"
  /\ InFlight(t) \subseteq Slow
  /\ started' = [started EXCEPT ![t] = "stale"]
  /\ UNCHANGED <<status, agent, attempts, edges, active, ex>>

(* recoverStaleRunningTasks: one UPDATE over all rows, by any worker's     *)
(* periodic sweep or at the start of a process.                            *)
(* Mutant: the sweep takes every RUNNING row, however young.               *)
StaleAtAnyAge == {t \in Tasks : status[t] = "running"}

Stale == {t \in Tasks : status[t] = "running" /\ started[t] = "stale"}

RecoverStaleRunningTasks ==
  /\ Stale # {}
  /\ status' = [t \in Tasks |-> IF t \in Stale THEN "failed" ELSE status[t]]
  /\ UNCHANGED <<agent, attempts, started, edges, active, ex>>

Place(e) ==
  \/ \E t \in Tasks : Discover(e, t)
  \/ \E a \in Agents : SelectCandidate(e, a)
  \/ NoCandidate(e)
  \/ AssignTaskIfUnassigned(e)
  \/ AssignmentRefused(e)
  \/ AgentRefused(e)

Prepare(e) ==
  \/ CheckAssignment(e)
  \/ Refuse(e)
  \/ ClaimTaskForExecution(e)
  \/ ClaimRefused(e)
  \/ CreateTaskRun(e)

Execute(e) ==
  \/ ExecutionFails(e)
  \/ GateDenies(e, "retry")
  \/ GateDenies(e, "closed")
  \/ ExecutionAccepted(e)
  \/ WorkspaceChanged(e)
  \/ GuardedCallThrows(e)

Persist(e) ==
  \/ CompleteRun(e)
  \/ CompleteTaskIfRunning(e)
  \/ CompletionRefused(e)
  \/ RecordDecision(e)
  \/ FailRun(e)
  \/ ReadCurrent(e)
  \/ PatchClosed(e)
  \/ PatchRetry(e)

(* What an executor does by itself once it has taken a task.               *)
Step(e) == Prepare(e) \/ Execute(e) \/ Persist(e)

Next ==
  \/ \E e \in Executors : Place(e) \/ Step(e) \/ Crash(e)
  \/ \E t \in Tasks, a \in Agents \cup {None} : AssignTask(t, a)
  \/ \E t \in Tasks : Age(t)
  \/ RecoverStaleRunningTasks

Spec == Init /\ [][Next]_vars

(* A live call proceeds, time passes, and some worker keeps sweeping; new  *)
(* work need not be discovered and nothing forces a crash.                 *)
Fairness ==
  /\ \A e \in Executors : WF_vars(Step(e))
  /\ \A t \in Tasks : WF_vars(Age(t))
  /\ WF_vars(RecoverStaleRunningTasks)

FairSpec == Spec /\ Fairness

(***************************************************************************)
(* Properties.                                                             *)
(***************************************************************************)

(* No two executors are past the claim of the same task, so one attempt of *)
(* a task is in flight at a time: claimTaskForExecution, the retry through *)
(* the queue and the recovery sweep never hand a task out twice.           *)
ClaimExclusive ==
  \A e, f \in Executors :
    /\ ex[e].pc \in AfterClaim
    /\ ex[f].pc \in AfterClaim
    /\ ex[e].task = ex[f].task
    => e = f

(* What a live call may find in the row of its task: the recovery sweep    *)
(* may have failed it and the call itself may have completed it, but while *)
(* the call lives the task is never back in the queue for somebody else,   *)
(* and a call about to write a failure has not completed the task before.  *)
RowFits(c) ==
  /\ c.pc \in {"claimed", "executing", "completing", "closing", "patching"}
       => status[c.task] \in {"running", "failed"}
  /\ c.pc = "recording" => status[c.task] = "completed"
  /\ c.pc \in {"failing", "reading"}
       => status[c.task] \in {"running", "failed", "completed"}

InFlightStatus == \A e \in Executors : RowFits(ex[e])

(* The prerequisites that were completed when a task was claimed are still *)
(* completed while it runs, however its siblings fail or are recovered.    *)
RunsAfterPrerequisites ==
  \A e \in Executors : ex[e].pc \in AfterClaim =>
    \A p \in Tasks : <<p, ex[e].task>> \in edges => status[p] = "completed"

(* A completed task keeps that status for ever: neither a failure path     *)
(* that read the row earlier nor the recovery sweep takes it back.         *)
CompletedIsFinal ==
  [][\A t \in Tasks : status[t] = "completed" => status'[t] = "completed"]_vars

(* An agent never holds more unfinished tasks than max_concurrent_tasks,   *)
(* whatever placements, retries and recoveries interleave.                 *)
CapacityRespected == \A a \in Agents : Load(a) <= Cap[a]

(* A task back in the queue still has an attempt left, and an attempt that *)
(* was written back was counted exactly once.                              *)
RetryBounded ==
  /\ \A t \in Tasks :
       status[t] \in {"queued", "running"} => attempts[t] < MaxAttempts
  /\ \A e \in Executors : ex[e].pc = "patching" => ex[e].seen < MaxAttempts

(* The statuses the workforce itself ever writes or finds.                 *)
WorkStatuses == {"queued", "running", "failed", "completed"}

(* What protects a task from two executors: at most one call is past the   *)
(* claim of a task, its row is what that call may find, and a task that is *)
(* offered again has an attempt left -- whatever reassignments, calls that *)
(* outlive the recovery window, crashes and sweeps interleave.             *)
Safe ==
  /\ TypeOK
  /\ status \in [Tasks -> WorkStatuses]
  /\ ClaimExclusive
  /\ InFlightStatus
  /\ RetryBounded

(* A failed task stays failed: the failure path's re-read is there so that *)
(* it never overwrites a task another party has finished.                  *)
FailedIsFinal ==
  [][\A t \in Tasks : status[t] = "failed" => status'[t] = "failed"]_vars

(* The whole protocol keeps the promise of TaskLease: the lease of a task  *)
(* is held by the call that is past the claim.                             *)
Holder(t) ==
  IF InFlight(t) = {} THEN None ELSE CHOOSE e \in InFlight(t) : TRUE

Lease == INSTANCE TaskLease
           WITH holder <- [t \in Tasks |-> Holder(t)],
                done <- {t \in Tasks : status[t] = "completed"}

ImplementsLease == Lease!Spec

(* A task does not stay RUNNING for ever: its executor ends it, or dies    *)
(* and the recovery sweep does.                                            *)
RunningResolves ==
  \A t \in Tasks : (status[t] = "running") ~> (status[t] # "running")
=============================================================================
