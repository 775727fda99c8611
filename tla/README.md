# CHEF FACTORY in TLA+

Models of CHEF FACTORY, the TypeScript program of this repository: the life of a
task in the workforce and of a command of the owner, the life of a mission, the
execution of a command by models and tools, the way of a change into a Git commit,
and the registry of constitutions. The modules are checked with TLC on small
instances, and all of the large ones are also proved about with TLAPS, for every
size.

Paths below are relative to the directory of the program's TypeScript sources
unless they start with `supabase/` or `docs/`.

## 1. The system

CHEF FACTORY runs tasks with LLM agents on behalf of an owner. PostgreSQL is the
only shared state; any number of API and worker processes work on it. A process
is asynchronous: every `await` on the store is a point where other processes
and other calls of the same process run. Nothing but single SQL statements, a
few short transactions with row locks, and three kinds of advisory locks (per
project for dependencies, per workspace for files and Git, one for the
constitution) is atomic. Circuit breakers live in the memory of a process.

| Component | State | Operations | What makes it correct |
|---|---|---|---|
| Task engine (`core/taskEngine.ts`) | none | transition table, retry decision | retries are bounded; no transition out of a finished task |
| Task store (`db/repo.ts`) | `tasks`, `task_runs`, `agents` | list, place, claim, complete, patch, assign, recover | one executor per task; capacity; finished is final |
| Task dependencies (`db/repo.ts`, gate 38 migration) | `task_dependencies` | add, remove, readiness | acyclic; nothing is claimed before its prerequisites; no lasting deadlock |
| Placement and selection (`core/placement.ts`, `core/selector.ts`) | none | choose an agent, assign, choose once more | at most two attempts; an agent is never over its limit |
| Assigned task execution (`core/agentExecutor.ts`) | one call per slot | check, claim, execute, accept, complete or fail | a late or dead call does no harm |
| Verification acceptance (`core/gate45Acceptance.ts`, `software/verification/*`) | `task_verifications` | run the required checks, bind them to a workspace fingerprint | completion only of the state that was verified |
| Workforce orchestrator (`core/workforceOrchestrator.ts`) | a pass: budgets, outcomes | discover, place, execute in slices | the global stop and the budgets bound a pass |
| Worker loop (`runtime/*`) | timers, cycle, owners to serve | recovery sweep, passes, mission reconciliation | abandoned tasks and missions end; the owners listed for a cycle do not starve one another |
| Mission runtime (`core/mission/*`) | `missions`, `approvals`, tasks by key | validate, propose, decide, materialize, activate, reconcile | only an approved plan runs; the graph is whole and can be worked off; the end is right |
| Approvals (`core/approval.ts`, `api/handlers.ts`) | `approvals` | create, decide, continue the task | one decision, and everything linked to it follows |
| Command pipeline (`core/pipeline.ts`) | a command, its task | gate, approval, direct execution | nothing uncleared is executed; a task executed directly obeys the same life cycle |
| Authority, autonomy, guardian (`core/authority.ts`, `core/autonomy.ts`, `core/security/*`) | policies, lockdown | four verdicts on a command, reconciled | no verdict loosens a stricter one |
| Execution bridge (`api/execution.ts`, `core/orchestration.ts`) | one execution | route, fall back, tool rounds, plan and its steps, abort | effects are bounded; a plan is followed; an abort stops the tools |
| Routing and resilience (`core/modelRouter.ts`, `core/modelHealth.ts`, `gateways/*`) | health rows, circuit of each provider | rank models; call, retry, open, probe, close | an open circuit admits nobody and is probed later |
| Prepared deliveries (`software/tools/git*Commit.ts`, `software/git/*`) | `prepared_deliveries`, HEAD, worktree, index | prepare, approve, commit, recover | what is committed is what was verified and approved, once |
| Workspace mutation (`workspace/*`) | files, advisory locks | create, patch, fingerprint | no lost update; the verified state is the completed one |
| Constitution registry (`db/constitutionRepo.ts`, its migration) | versions, events, evidence, runtime state | confirm, record, activate, roll back, revoke | the runtime state is a projection of the history; an owner replaces what he saw |

The remaining parts (HTTP transport, query construction, static tables, journals,
seeds, the in-memory test double) are listed with their reasons in `PROJECT.json`
and in section 7.

How they interact: the worker loop sweeps stale RUNNING tasks, lists the owners
with schedulable work and asks the orchestrator for a pass for each; the
orchestrator discovers tasks, places each with an agent and runs it through the
assigned task execution; that calls a model and its tools, then the acceptance
gate, and writes the outcome; a pass in which something was completed or failed
makes the loop reconcile the owner's active missions. The owner's requests
(commands, proposals, decisions, assignments) reach the same rows through the API at
any moment; a command may execute its task itself, in the API process, while the
worker sees the same task in the queue. The tools that touch a workspace meet in
its advisory lock. All store calls of a process share one small pool of
connections, and some keep one while they ask for another.

What is hard: reads that are stale when they are used (nearly every handler
reads, awaits and writes); a time limit instead of a heartbeat (the recovery
window); crashes between two statements; decisions that race; locks and pool
connections that are taken in turn; fallback, retries and an abort that cut
across each other; two resources without a common transaction (rows and Git).
`PROJECT.json` lists the hazards with their lines and the properties that cover
them; section 4 ends with those no property covers.

## 2. Modules

| Module | Models |
|---|---|
| `TaskStatus` | statuses, transition table and retry decision of `core/taskEngine.ts` |
| `TaskExecution` | placement, claim, execution, acceptance outcome, completion, retry, recovery, owner's reassignment |
| `TaskLease` | the promise of the claim protocol: a lease with one holder |
| `TaskLocks` | the same transactions, and the insertion of dependencies, lock by lock and connection by connection |
| `WorkforceLimits` | what the global stop and the budgets of missions promise |
| `WorkforceRuntime` | worker loop and orchestrator: cycles, passes, control, lockdown, budgets, slices |
| `MissionPlan` | plans, their validation and their hash |
| `Mission` | one mission: proposals, both decision endpoints, materialization, activation, tasks, reconciliation |
| `CommandGate` | the verdicts on a command and how they are reconciled |
| `CommandPipeline` | commands, their tasks and approvals, beside the worker and the sweep |
| `ModelRouting` | health, circuits and the ranking of models |
| `CommandExecution` | fallback, circuit breakers, retries, tool rounds, plans, the abort |
| `WorkspaceGate` | the acceptance gate (gates 45 and 46), the guarded completion, the tools that write files, the workspace lock and the pool |
| `PreparedDelivery` | prepared deliveries (gate 47), their approvals, the repository, crashes and recovery |
| `ConstitutionLedger` | what the constitution registry promises |
| `ConstitutionRegistry` | its transactions, triggers, retries, lost connections |
| `WorkforceProofs` | theorems about `TaskExecution`, and about `WorkforceRuntime` under the name `W` |
| `TaskLocksProofs`, `MissionProofs`, `CommandPipelineProofs`, `CommandExecutionProofs`, `WorkspaceGateProofs`, `PreparedDeliveryProofs`, `ConstitutionRegistryProofs` | theorems about the module they are named after |
| `MC...` | instances for TLC |

`TaskExecution`, `Mission` and `CommandPipeline` extend `TaskStatus`; `Mission` extends
`MissionPlan`, `WorkforceRuntime` `WorkforceLimits`, `CommandPipeline` `CommandGate`,
`CommandExecution` `ModelRouting`.
`TaskExecution` instantiates `TaskLease` and `ConstitutionRegistry`
`ConstitutionLedger` under a refinement mapping. The large modules look at the
same rows at different grain: `TaskExecution` has one task's protocol in full,
`TaskLocks` justifies that its transactions are single actions, `WorkforceRuntime`,
`Mission` and `CommandPipeline` keep of an execution only the statuses it writes.
Definitions whose comment starts with "Mutant:" are not part of a
specification; they are the bugs the properties are tested against. Each module
ends with its properties; `TypeOK` gives the values of its variables.

### TaskExecution

`status`, `agent`, `attempts`, `started`, `edges` and `active` are columns of the
tables. `ex[e]` is the local state of one execution slot: `pc` names the next
store call of `placeTask` or `executeAssignedAgentTask`, and the rest is what the
code keeps in local variables (the task, the selected agent, the excluded
agents, the acceptance class, the attempts it read). There is one action per
store call, named after it.

- The transaction `assignTaskIfUnassigned` is one action with the guards it
  evaluates under its locks; its refusals that end `placeTask` and those that
  lead to the second selection are actions of their own.
- `ClaimTaskForExecution` has the guard of `claimTaskForExecution` under the row
  and advisory locks.
- The failure path is three actions, because the code closes the run, reads the
  task and writes it in three calls (`agentExecutor.ts:460-530`); `seen` carries
  the attempts from the read to the unconditional write.
- Time is abstracted: `Age(t)` says that ten minutes have passed since
  `started_at`. A live call on the task forbids it unless its slot is in `Slow`,
  so `Slow = {}` states the assumption behind the window, that no execution lasts
  ten minutes, and other values drop it. The code does not enforce it.
- A crash and a store call that throws out of the handler look the same: the
  local state is gone and the rows stay.

A task that is put back in the queue after a failure stays assigned, and
discovery only lists unassigned tasks. The workforce therefore never picks it up
again by itself; the owner has to reassign it. Retries only happen in the
instance with reassignment for that reason.

Left out: which agent and task the rankings prefer (any may be taken), audit and
cost rows, prompts, `update_task`, and adding edges while tasks run, which
`TaskLocks` has.

### TaskLocks

Claims, placements, assignments and insertions as PostgreSQL sees them. `Order`
is the sequence of locks of a call, `locks` what the open transactions hold with
its mode (an insertion's foreign keys share the rows of its two tasks), `Refusals`
what a call may find under the lock it has just got. `conns` are the calls that
keep a pool connection: a claim that finds its task already running, and an
insertion that has committed, ask for a second one while they keep theirs.
`ConnectTimesOut` is the pool's time-out, `Victim` PostgreSQL's deadlock detector,
`Crash` a lost connection. `Finish` stands for the statements of others on a task
row, `RemoveTaskDependency` for the removal of an edge, which takes no lock.

### WorkforceLimits and WorkforceRuntime

`WorkforceLimits` has the part of the state that the stop and the budgets are
about and states what they promise; `WorkforceRuntime` has the steps.

`worker[w]` is a worker process with the owners left in its cycle and the pass it
makes for the current one: placed, pending and live tasks, the budgets it read.
A pass goes through global control, lockdown, cost, discovery, control again,
placement of one task after the other, and slices of at most `MaxParallel`
executions that are awaited together; each is a read of its own, and `control`,
`locked`, `spent` and `row` change in between. `StopActive` is a control row that
says stopped or is missing (the code fails closed). `excused` is history: the
workers whose pass was past its second look when the stop came. `env`, chosen
initially, says which workers there are, which tasks exist from the start,
who may be stopped or locked down, and how many faults happen, so that one run
has several kinds of environment. The selection of an agent is a number of slots
per owner. A cycle serves the first `MaxOwners` owners with schedulable work, by id,
rotated by an offset that is counted modulo `Turns`, a multiple of every length the
list can have. An execution costs one unit, and `spent` is the sequence of the rows
of cost_events, each with its task, so that a sum over rows is a cardinality.

### MissionPlan and Mission

A proposal is a sequence of tasks and of edges; `ValidPlan` has the checks of
`validateMissionPlan` in terms of what it computes, `Ordered` the rounds of the
topological sort, `TooDeep` the bound on chains. `Hash` is the canonical plan
itself, for which bags stand: two proposals that differ in their order have the
same hash. `Insertable` is what the tables then accept, which is not the same (a
negative number of attempts passes the one and not the other).

`mission`, `plan`, `approvals` and `task` are rows; `proc[p]` is one request or
one worker slot. Proposals take three store calls and decisions four, so other
requests interleave; `materializeMissionPlanAtomic` and `activateMissionAtomic`
are transactions and one action each. `MaxProposals` bounds the proposals. `env`
says which processes decide, which tasks raise approvals of their own, and which
processes may die.

### CommandGate and CommandPipeline

`CommandGate` takes a request (who asks for what, where, under which standing
policies) through the authority matrix, the autonomy controller, the registry of
critical actions and the guardian's policy, in the order of their rules, and
reconciles the verdicts as `pipeline.ts:301-353` does.

`cmd[c]` is a command in the API process: gate, creation of the task, plan,
start, attempt, end. `tab[t]` is a decision request of the owner, `worker` the
execution of a worker that takes whatever is queued and unassigned, `Age` and
`RecoverStaleRunningTasks` the window and the sweep. Starting and ending the task
are unconditional patches, as in the code; the worker's own writes are
conditional. `granted` and `started` are history: the approvals written and the
attempts begun, by anyone.

### ModelRouting and CommandExecution

`Routes` is the ranking of the models by the registry, the requirements of a
command, a health table and the circuits: the order of the first sort, changed where
the second one lets an active model overtake a limited one (`GoesBefore`). Where the
names of two models do not tell them apart, either may come first. `run[e]` is one
execution: the candidates ranked when it was received, the one in use, rounds and
attempts, the tools left of a response, the plan and the state of its steps. A
call admits (`CanProceed`), is answered, fails transiently and is retried, or
fails for good and falls back to the next candidate, which starts the tool loop
again. `TimeOut` is the abort after a minute; it may come at any point, and only
the points where the code looks at the signal react.

The abstractions: the verdict of the tool broker, of the failure limiter and of
the providers is free; the tools of a response are called in their order without
a look at the signal, as in `execution.ts`; from the choice of a candidate or the
last tool of a round to the admission of the next call there is no `await`, so it
is one step; a plan is asked of the primary candidate only and its request
carries no signal; the pipeline passes an orchestration no options, so there are
no cancellation, no retries of steps and no time limit of its own, and a failed
step ends it; the adapter path for text only has no caller.

### WorkspaceGate

`gate[t]` is one attempt of a task from the model's declaration of success to its
end, `writer[w]` one call of `create_file` or `apply_patch`, `lock` the advisory
lock of `withRepoLock`. A fingerprint and a test run read the files one by one, in
any order, each at a moment of its own; `view` is what has been read so far. The
gate reads without the lock, the guard under it. `tested` (in `gate` and in
`evidence`) is a history: what the operations that passed had read. `Holding` are
the calls that own a connection of the pool: a call owns one from the moment it
begins to wait for the lock, and a guarded completion needs a second one for each
store call; a wait for a connection ends after 30 seconds with an error.

The contents of a file are numbered in the order in which it first has them. A
write that lowers the number puts an earlier content back, which no comparison of
hashes can tell from no write at all; `restored` is the history of the files this
has happened to, since the first fingerprint of an attempt and since that of the
attempt an evidence row comes from. `CompletedAsTested` and `EvidenceIsTested` claim
that workspace and tests agree on every other file. `MaxCalls` bounds the calls of
the writers.

Assumptions: only these two tools write files; an advisory lock lasts as long
as its holder; all calls belong to one process, which is the worst case for the
pool. The failure path of the attempt is one step here (`EndAttempt`),
`TaskExecution` has it in full; the store calls of the evaluation itself take a
connection for a moment and keep none, so they are left out of `Holding`.

### PreparedDelivery

`delivery` and `approval` are rows, `log`, `work` and `Index` the repository;
`call[c]` is a tool call that holds the repository lock from its first step to
its return and `request[o]` a decision request, which takes no lock. Trees are
functions from paths to contents, so equality of trees is equality of the SHA-256
fingerprints and Git tree ids. The status of the workspace follows
`git status --porcelain` for the three-way comparison of HEAD, index and
worktree, with the repository's index at its initial value, because every tool
writes a temporary one. A row of a delivery may say committed and name no commit
(`NoSha`): the code does not look whether `rev-parse HEAD` succeeded before it
records the result. Steps before the first write are folded into that write:
the lock keeps the repository still and the rows they read are not changed by
anybody else.

Assumptions: nobody changes HEAD or files outside the lock (no person, no Git
child that outlives its process, no deletion of files); the evidence of a
verification is the fingerprint taken before it ran. Nothing makes tasks choose
different commit messages, and with equal ones two deliveries prepared from the same
workspace are indistinguishable to the recovery; `CommitRecorded` allows a committed
delivery the commit of such a one (`ShareMessage`). In the run every task has a
message of its own; the proof is for any messages.

### ConstitutionRegistry

`versions`, `events`, `evidence` and `state` are the tables, `lock` the advisory
lock, `pool` the free connections, `call[c]` the call of a client. A transaction
connects, takes the lock, checks, writes events and state in one commit, and the
call reads the state back on a second connection while it keeps the first. The
foreign keys, constraints and triggers of the migration are `EvidenceAccepted`,
`EventAccepted` and `StateAccepted`; rows are inserted in this order, and each sees
those before it. A connection may be lost inside a
transaction, a call may throw after its commit because no second connection comes
free, and a caller may repeat a call that threw. The
payloads of `Ratified` were confirmed and made ready before (`History`); the others
go the whole way. `seen`, in `call[c]`, is history: the activation behind the pointer
the owner has read. The code compares payloads and not activations, so a pointer
that moved away and came back goes unnoticed; `ReplacesWhatWasSeen` says that the
replaced payload is the one seen all the same, and that the history then names
the activation that took its place meanwhile (`LeftAndCameBack`). `Uses` divides the
operations among the clients, which bounds the run.

## 3. Runs

| Run | Instance | Shows |
|---|---|---|
| `execution_window` | 3 tasks, every acyclic graph, 2 agents (limits 1 and 2), 2 executors, 2 attempts, `Slow = {}`, no reassignment | an agent is never over its limit; a failed task stays failed |
| `execution_reassign` | 2 tasks, one of 2 executors may be slow, one task reassignable, fairness | `Safe` (types, one executor per task, the row under a live call, bounded retries), prerequisites, completed is final, the lease as abstract specification, and no task stays RUNNING for ever |
| `task_locks` | 3 tasks, 1 agent, 2 concurrent calls on a pool of 2, 8 kinds of request that close a ring of dependencies, every acyclic start | the graph stays acyclic; a claim happens only when the task is ready; a deadlock is one insertion and the claim or placement of one of its tasks; every call returns |
| `workforce` | 3 owners, of whom a cycle lists 2, 5 tasks, one mission with an exhausted budget; one worker with a stop, a fault and a shutdown, or with lockdowns, or with an owner who waits behind two others, or two workers with a stop | a global stop bounds the work handed out; the overrun of a budget is bounded; every owner who stays among the first listed is served |
| `mission` | 10 proposals over 3 keys (two valid plans, and one for each rule that is broken), 2 processes, 2 proposals; one decider or two, with and without task approvals, with and without crashes | what runs was approved; the graph is whole and offered whole; work remains until all is done; a completed mission is done; a mission follows its life cycle and reaches its end |
| `command_pipeline` | 2 commands (one an orchestration), 3 kinds of request, 2 decision requests, the worker, 2 attempts, one fault, one lockdown | nothing uncleared is executed; attempts are bounded; an approved task leaves the gate; the queue is served |
| `pipeline_final` | that of `command_pipeline` | violated: completed is final (finding 1) |
| `command_execution` | 3 models of 3 providers (2 with a key), 2 executions (one a plan), 5 plans, circuits that open after 2 failures, 2 requests per call, 2 rounds of 2 tools | effects are bounded; an abort stops the tools; a plan is followed and reported as it went; an open circuit admits nobody |
| `circuit` | one execution at a time, requests that keep coming | violated: an open circuit is probed (finding 2) |
| `workspace_gate` | 1 task with one operation, 2 writers with 4 calls together, 2 files, 3 contents which may come back, a pool of 2, crashes | completed as tested and evidence that matches is true, but for files put back; no lost update; the lock's holder is never stuck |
| `delivery` | 2 deliveries, 2 tasks, 2 files, 2 contents, 2 calls, 2 decision requests, crashes, early decisions on one delivery | what reaches HEAD is the verified workspace on the prepared base, once; a committed delivery has its commit and names that or none; approval and delivery are decided together |
| `constitution` | 2 owners and the system on a pool of 2, 3 payloads, 2 of them ratified before, 4 calls, one connection lost | the runtime state is the projection of a chain of events; the schema accepts what the code writes; an owner replaces the payload he saw; every call returns; the ledger as abstract specification |

Why the bounds are enough: the races of the task protocol are between two calls
on one task, or between a call and the sweep or the owner; two executors and one
reassignable task produce all of them, and a third task gives the capacity of an
agent something to overflow and the graph a chain and a join. Two attempts
distinguish the last attempt from an earlier one. Two transactions suffice for
every pair of locks in both orders, and the proof covers any number; three tasks
are the smallest ring of dependencies that no single edge closes. Two processes
and two proposals give a mission every pair of concurrent requests and a
superseded approval. Two deliveries are the smallest number in which one commit
changes the world of another. Of three owners, one without budget left, two fill
the list of a cycle: the two can try to shut each other out, and the third is cut
off while both have work. Three payloads let a pointer with two ratified ones move
away and back between an owner's reading and the call, while the third is
confirmed and made ready; four calls are the fewest for that. Four calls of the
writers change a file, change it back and still find another one changed. Two
executions share a circuit, and three candidates make a fallback that is not the
last one. Symmetry is used for
executors, writers, calls, requests and deliveries, in runs without liveness only.

Deadlock is not checked except in `command_execution`: the other systems may stop,
when all tasks are ended, the bounded calls are used up, or nobody makes a request.

Fairness. Nowhere is the owner, a crash or a fault assumed to happen.

- `execution_reassign`: a live call proceeds (the store answers or the call throws),
  time passes, and some worker sweeps (`workerLoop.ts` runs the sweep at start and
  periodically). Not that work is discovered.
- `mission`: a call that has begun goes on.
- `workforce`: a worker process keeps running; its loop has bounded delays and its
  executions time out.
- `command_pipeline`: calls go on, time passes, the sweep and the worker's steps run;
  and a pass finds a task that is again and again queued without a lockdown
  (strong fairness of `PlaceTask`: discovery is by age, so a task is not passed
  over for ever, provided its owner is among the first listed; the `workforce` run is
  about that).
- `task_locks`: calls proceed, PostgreSQL grants locks in the order of its queues
  (strong fairness of `Lock`), its deadlock detector and the pool's time-out run.
- `constitution`: a client's statements are answered, timers fire.
- `circuit`: requests are answered or time out, the cooling time passes, and
  commands that need a model keep coming (strong fairness of `Receive`).

## 4. Findings

Two disagreements have a run of their own.

1. `pipeline.ts:493`: a command creates its task in the queue and starts it with an
   update that has no condition. A worker may have run and completed it in
   between; the command then executes it again and takes it out of `completed`.
2. `modelRouter.ts:199`: the router leaves out every model whose circuit is open, and
   only a call takes an open circuit to half open. Once the executions that were
   routed before are over, nothing probes the provider again.

The following were met while modelling, most of them as a counterexample of TLC,
and are stated here with the assumption or the exclusion that keeps them out of a
property:

- `agentExecutor.ts:516`: the re-read that is meant to protect a terminal task leaves
  a window; an execution older than ten minutes can put a task the sweep has
  failed back in the queue. Such executions can also take an agent over its
  limit, since a failed task no longer counts. `FailedIsFinal` and
  `CapacityRespected` are claimed under `Slow = {}` for that reason.
- `db/repo.ts:513`: `updateMissionStatus` only refuses the status a mission already
  has; with a task that raised an approval of its own, a stale reconciler turns a
  completed mission into a failed one. `MissionAdvances` excludes such tasks.
- `missionRuntime.ts:178`: two decisions on one approval can leave an approved
  mission with a rejected approval. `ExecutableIsApproved` is about one decider.
- `gitCommit.ts:80`: after a delivery that added a file, the stale index of the
  repository makes the next prepared tree drop that file while the commit keeps it.
- `gitCommit.ts:105`: the recovery compares lines in path order with lines sorted by
  kind first, so a delivery that modifies and adds and reached HEAD before its
  process died is never finished.
- `handlers.ts:336`: a decision that looks the delivery up between the creation of
  its approval and the link (`gitPrepareCommit.ts:74-75`) is decided alone, and the
  delivery can then neither be decided nor committed while it keeps the task's
  only active slot. `PairedDecision` is about deliveries outside `EarlyDecisions`.
- `workspace/integrity.ts:8-10`: where a file gets an earlier content back, equal
  fingerprints before and after do not show that nothing changed in between.
  `CompletedAsTested` and `EvidenceIsTested` except exactly these files; without the
  exception TLC refutes both.
- `workerLoop.ts:165`: the comment promises round-robin fairness across owners. The
  list is cut to `maxOwnersPerCycle` in the order of ids (`db/repo.ts:286`) before it is
  rotated, so an owner beyond the limit waits as long as the owners before it have
  schedulable work, which is for ever where that work is never placed (a lockdown, an
  exhausted budget). `OwnerServed` is about owners who stay among the first listed;
  without that restriction TLC refutes it.
- `gitCommit.ts:84-85`: when `rev-parse HEAD` fails after the commit, the delivery is
  recorded as committed with no commit. `CommitRecorded` allows that.
- `constitutionRepo.ts:500`: the expected active payload is compared, not its
  activation, so a call goes through when the pointer has moved away and back, and
  replaces an activation its owner has never seen. `ReplacesWhatWasSeen` allows
  that, and only that.
- `db/repo.ts:316`: `addTaskDependency` looks at the status of the dependent before its
  transaction, so a running task can get an unmet prerequisite, which the comment
  above it (313-315) excludes. `ClaimedWhenReady` speaks of the claim.
- `db/repo.ts:874`: the comment of `assignTask` names the lock order agent before task.
  The code takes the task first, as the other calls do; with the order of the
  comment an assignment and a placement would deadlock.
- `workforceOrchestrator.ts:362-374`: the comment says that a task is never executed
  once the spend has reached the mission's limit. The limit is only looked at
  before placement; `OverrunBounded` states what holds.
- `db/repo.ts:1306`: the owner's monthly limit is compared with the cost of all time.
- `pipeline.ts:301` against 353: a guardian verdict that asks for approval turns a
  denial of the authority matrix into an approval; `autonomy.ts:26` takes a standing
  policy `auto` of the owner as it is. `WorkIsCleared` allows both.
- `pipeline.ts:572-608`: the failure of a command raises the attempts of its task
  without looking at what a worker has made of it meanwhile, so a task of one
  attempt can count two. `attempts` has no upper bound in `TypeOK` for that reason.

Further hazards without a property: a mission with a cancelled task and no failed
one never settles (`missionEngine.ts:267`); a worker that dies before it reconciles
leaves a mission active (`workerLoop.ts:212`); a crash between the approval and the
mission leaves it pending (`missionRuntime.ts:185`); `update_task` writes without a
condition (`update-task.ts:51`); a delivery whose approval was never linked holds
its slot (`gitPrepareCommit.ts:73`); a commit that times out after it moved HEAD is
recorded as failed (`gitCommit.ts:83`); a continuation that fails after the decision
cannot be repeated (`handlers.ts:383`); dropping steps without a tool shifts the
numbers a plan refers to (`execution.ts:526`); the second sort of the router can put a
degraded model first (`modelRouter.ts:383`); a negative number of attempts passes the
validation and not the table (`missionEngine.ts:161`); the persisted rate limit loses
updates (`rateLimit.ts:129`).

## 5. Proofs

`WorkforceProofs` proves of `TaskExecution`, under `TaskExecutionAssumption` alone (finite set of
tasks, any agents, executors, capacities and attempt limit):

- `SafetyInvariant`: the inductive invariant `Safe` = `TypeOK`, "statuses are those
  the workforce writes", `ClaimExclusive`, `InFlightStatus`, `RetryBounded`. None of
  the last three is inductive alone: that no second executor claims a task needs
  that its row is never `queued` under a live call, which needs that a call about
  to write a failure has not completed the task and is the only one, and the
  retry bound needs what the pending write has read.
- `TypeCorrect`, `MutualExclusion`, `RowUnderCall`, `BoundedRetry` follow from it.
- `CompletionFinal`: every step keeps completed tasks, because a pending failure
  write finds a row that is running or failed.
- `DependencySafety`: prerequisites are completed at the claim, edges are fixed,
  and completion is final.
- `FailureFinal` (with `Slow = {}`) and `CapacityBound` (with `Slow = {}` and
  `Reassignable = {}`) need `Fresh`: without slow executions a row under a live
  call is not stale, so the sweep never fails it, and no failed task comes back.

- `LeaseRefinement`, `Spec => ImplementsLease`: the holder of a task is the call past
  its claim, unique by `MutualExclusion`; the claim acquires, the end of a call (its
  return, its crash) releases, `CompleteTaskIfRunning` completes, and every other
  step is a stutter.

Of `WorkforceRuntime` it proves, under `WorkforceRuntimeAssumption` (the hypothesis
of each of these theorems), for any workers, owners, tasks, missions, limits and
slots:

- `RuntimeSound`: the inductive invariant `Sound` = `TypeOK`, `PassesSound` (nothing is
  placed before the second look at the control, what waits or runs has been
  placed, a pass places at most `MaxTasks`), `StopBoundsWork` and
  `OutstandingBounded`.
- `StopBounds`: only the second look leads to work, and it ends the pass under a
  stop; a stop excuses exactly the passes that are past it.
- `OverrunIsBounded`. The overrun alone is not inductive: a charge raises the cost
  without looking at any budget. `OutstandingBounded` therefore counts with the cost
  the pairs of a worker and a task it has been allowed to place and was not yet
  charged for. A charge turns one pair into one row, so the sum stays; the only
  step that adds a pair is the comparison with the budget, which finds the cost
  below the limit, and then there are at most as many pairs as one pass of each
  worker (`OnePassEach`). Since pairs and rows are counted, no sum over data has to
  be unfolded.
- `RuntimeTyped`. That the sorted list of candidates is a sequence of tasks, which
  an induction would show, follows from the rank of each candidate instead
  (`AscendingSeq`).

`TaskLocksProofs` proves, for any number of calls, tasks and connections:

- `LocksInvariant`: `Inv` = `Types`, `LocksOfCalls` (a call in its transaction holds
  exactly the locks it has come by, in their order), `Exclusion` (locks that exclude
  each other have one holder), `Checked` (what a call found under its locks still
  holds while it keeps them) and `GraphAcyclic`. Acyclicity is not inductive alone:
  that the commit of an edge closes no cycle needs that no path has come about
  since the trigger looked, hence that the advisory lock is still held.
- `GraphNeverCyclic` and `ClaimsAreReady` follow from it.
- `DeadlocksAreInsertions`: the row of an agent is always the last lock, so its
  holder waits for nobody, and of the others each call but an insertion takes the
  row of one task and then the graph. A set of calls that wait for each other
  therefore contains a holder of the graph that waits for a row, which is an
  insertion; who holds that row and waits is a claim or a placement of the same
  task, and waits for the graph. These two already are a deadlock, so by
  minimality they are all of it.

`WorkspaceGateProofs` proves, for any tasks, writers, files, operations and pool:

- `TypeCorrect`, with `Counted` (an attempt that tests has operations left) and
  `Targeted` (a call in progress has its file), without which the types are not
  inductive.
- `UpdatesAreExpected` from `Locked`: a gate from its final fingerprint to its last
  record and a writer past the lock own the lock, so a file cannot change between
  a writer's check and its write.
- `CompletionCorrect` and `EvidenceCorrect` from `Witnessed`: on every file that has
  not been put back since the first fingerprint, readings that follow each other
  are ordered, the first fingerprint below what a test reads, that below the second
  fingerprint, that below the workspace. Equal fingerprints therefore force every
  passed operation between them to have read the same there, and the lock keeps the
  final fingerprint true until the completion is written. The two properties are not
  inductive alone, because a reading is made of many steps.

`MissionProofs` proves, for any plans, keys, processes, environments and number of
proposals:

- `MissionInvariant`: `Whole` = the types, `Fits` (what each process knows in each of
  its steps and no other process undoes), `Planned` (the approvals are of the saved
  plan, and a materialized plan has no cycle) and `GraphComplete`. The graph is not
  inductive alone: that materialization inserts the tasks of the saved plan into an
  empty table needs that nobody who goes on has read another plan. Steps that only
  read and steps that write are separate lemmas; `Advance` says what the writes
  leave to the other processes.
- `GraphIsComplete` follows; so does `WorkAlwaysRemains`, since a finite graph without
  cycles has, among the tasks not completed, one that waits for none of the others.
- `CompletionIsDone` and `LifecycleHolds`, from `Settled`: an outcome a reconciler has
  seen stays true until it writes it, because no step takes up again a task that is
  completed or failed, unless it raised an approval of its own.
- `ConsentHolds`, from `Consented`: with one decider (`OneDecider`) an approval that is
  about to be decided is pending, hence not the one the mission was approved by.

The assumptions are `PlanAssumption` and `MissionAssumption`: well-formed proposals, a
finite set of processes, and a NULL that is neither a key, a status nor a hash.

`CommandPipelineProofs` proves, for any commands, requests, decisions and limit of
attempts, under `CommandAssumption`:

- `SafetyInvariant`: `Safe` = the types, `Judged` (what is selected to run was not
  denied by the authority matrix, and before its task exists nobody else knows of a
  command), `Passed` (a task beyond the gate, or started, was selected to run or
  approved), `Counted` (the attempts are those of the command's own call and of the
  worker, at most one each), `Gated` (without faults, a decided task that still waits
  has a decision under way that has yet to move it), `Deciding` and `Working` (what a
  decision request and the worker know). That nothing uncleared
  runs is not inductive alone: the worker looks only at the row, so it needs that
  every way of a row into the queue passes the verdict or the owner.
- `OnlyClearedWorkRuns`, `ApprovalIsForOne` and `ApprovedGoesOn` follow from it. The
  last one speaks of histories without faults.

`CommandExecutionProofs` proves, for any models, providers, executions, plans and
limits, under `RoutingAssumption` and `ExecutionAssumption`:

- `SafetyInvariant`: `Safe` = the types and, for each execution, `Candidates` (those
  given up are exactly the ones before the current one, hence no model is called
  twice), `Effects` (the tools run are at most the rounds of the models called
  before, those of the current one, and the response in hand), `Lateness` (what
  was started after the abort is of that response) and `Stepwise` (the steps before the
  current one are done, the ones after it pending). The bound on effects needs
  `Candidates`, since fallback starts the rounds again.
- `ToolsAreBounded`, `AbortStops` and `PlansAreFollowed` follow from it.
- `OpenCircuitHolds` is an action property: the admission looks at the circuit in the
  step that begins the call, so that it holds for what was routed before.

`PreparedDeliveryProofs` proves, for any deliveries, tasks, files, calls and
decisions, under `PreparedDeliveryAssumption`:

- `SafetyInvariant`: `Safe` = the types, `Alone` (the lock has one holder), `Rows`
  (`Describes`: base and manifest of a row determine the workspace it was prepared
  from, its evidence), `History` (each commit but the first is the evidence of its
  delivery, right after its base), `OneActive` (a task has one active delivery, based
  on all commits of its others), `CallsFit` and `RequestsFit` (what calls and requests
  have read), and `PairedDecision`. `CommitIsVerified` is not inductive alone: between
  revalidation and commit the workspace must stay what the row describes, hence the
  lock; and one manifest must describe one workspace (`OneDescription`,
  `WorkspaceDescribed`), deletions in the index included.
- `CommitsAreVerified` and `DecisionIsOne` follow from it.
- `CommitsAreRecorded`, for any messages. The recovery compares parent, message and
  paths of HEAD, not the delivery: a commit with the same message is of the same
  task or of one that shares its message, and by `OneActive` one of another delivery
  of this task cannot be right after the base.

`ConstitutionRegistryProofs` proves, for any owners, payloads, clients, connections and
number of calls, under `ConstitutionAssumption`:

- `SafetyInvariant`: `Safe` = the types, `Arguments` (of the calls), `WriterHasLock`,
  `ChecksHold` (what a call checked under the lock is true until it commits),
  `PointsAtLast`, `ActiveIsRatified`, `EpochCounts` and `Chained` (the state is what
  the events say), and the count of connections. That the state is the projection of
  the history needs that the version a call has read as active still is when it
  writes, hence the lock.
- `HistoryProjects` follows from it. `LayersAgree` (foreign keys, constraints and
  triggers accept what the checks let through) needs `Known` as well: every event is
  about a recorded payload, hence so is the active one, which the events refer to.
- `ReplacementIsInformed` needs `Informed`: a call that activates has seen the
  activation the state points at, or the history names what took its place. A commit
  that replaces an activation others have seen becomes that name, and events are
  only added, so it stays.
- `LedgerRefinement`, `Spec => ImplementsLedger`: a commit is one step of the ledger,
  and every other step (waiting, losing a connection, failing after the commit,
  repeating) is a stutter.

The invariants were checked with TLC before they were proved.

Only model-checked:

- the liveness properties, which need fairness;
- `HolderProceeds` of `WorkspaceGate`, which speaks of `ENABLED`.

Nothing is proved about what the pure definitions compute compared to a reference
(rankings, verdicts, manifests); the proofs use of them what the invariants need.

## 6. Plan

To model next, if it is to be taken further: `update_task` against running
executions, the sliding windows and incidents of the guardian, and the dates of
the owner's cost limit.

## 7. Not modelled

Model calls, prompts and outputs (one nondeterministic outcome); the risk scores,
anomaly counters, sliding windows and incidents of the guardian (floating point
and time; what the modelled decisions see of them is the policy and the lockdown);
the recognition of an intent; audit, cost, journal and monitoring records, which no
modelled decision reads; authentication and HTTP; read-only queries; protected
paths and the scan for secrets; seeds and the in-memory store of the tests, whose
calls never interleave.
