-------------------------- MODULE CommandPipeline --------------------------
(***************************************************************************)
(* The owner's commands (core/pipeline.ts) beside what else moves their    *)
(* tasks: the owner's decisions on approvals (api/handlers.ts), the worker *)
(* that places, claims and runs whatever is queued, and the recovery of    *)
(* stale tasks.  A command creates at most one task and is answered when   *)
(* its own attempt is over; several commands and several decisions are in  *)
(* flight at once, and every read is separated from the write it decides.  *)
(***************************************************************************)
EXTENDS CommandGate, TaskStatus, FiniteSets

CONSTANTS Commands,     \* commands, each named like the task it creates
          NoCommand,    \* no command
          Tabs,         \* decision requests of the owner that may overlap
          Requests,     \* the requests commands are drawn from
          MultiStep,    \* commands that the text makes an orchestration
          MaxAttempts,  \* max_attempts of a task
          MaxFaults,    \* bound: crashes and failed store calls
          MaxToggles    \* bound: lockdown activations and releases

ASSUME CommandAssumption ==
    /\ Requests \subseteq RequestSpace /\ Requests # {}
    /\ MultiStep \subseteq Commands /\ NoCommand \notin Commands
    /\ MaxAttempts \in Nat \ {0}
    /\ MaxFaults \in Nat /\ MaxToggles \in Nat

VARIABLES
    cmd,       \* the call of each command
    task,      \* the row of each command's task
    approval,  \* the status of each command's approval
    tab,       \* the decision each tab is carrying out
    worker,    \* the execution of the worker
    locked,    \* an emergency lockdown is active
    toggles,   \* lockdown changes so far
    faults,    \* faults so far
    granted,   \* commands an owner's approval was written for
    started    \* attempts begun for each command, by anyone

vars == <<cmd, task, approval, tab, worker, locked, toggles, faults, granted, started>>
env == <<locked, toggles, faults>>

NoRequest == [verb |-> "none"]
Waiting == [pc |-> "idle", req |-> NoRequest, selected |-> "none", seen |-> 0]
NoTask == [status |-> "none", attempts |-> 0, assigned |-> FALSE, age |-> "none"]
NoDecision == [pc |-> "idle", of |-> NoCommand, verdict |-> "none"]
NoWork == [pc |-> "idle", of |-> NoCommand, seen |-> 0]

Init ==
    /\ cmd = [c \in Commands |-> Waiting]
    /\ task = [c \in Commands |-> NoTask]
    /\ approval = [c \in Commands |-> "none"]
    /\ tab = [t \in Tabs |-> NoDecision]
    /\ worker = NoWork
    /\ locked = FALSE /\ toggles = 0 /\ faults = 0
    /\ granted = {}
    /\ started = [c \in Commands |-> 0]

At(c, label) == cmd[c].pc = label
Goto(c, label) == cmd' = [cmd EXCEPT ![c].pc = label]
Answer(c) == cmd' = [cmd EXCEPT ![c].pc = "answered", ![c].seen = 0]
Others == UNCHANGED <<tab, worker, env, granted>>

(* patchTask: no condition on the row.                                     *)
Patch(c, to) == task' = [task EXCEPT ![c].status = to]

(* An attempt begins: status and started_at in one patch, then the run.    *)
Begins(c) ==
    /\ task' = [task EXCEPT ![c].status = "running", ![c].age = "recent"]
    /\ started' = [started EXCEPT ![c] = @ + 1]

---------------------------------------------------------------------------
(* CommandPipeline.run.                                                    *)

(* A command that is not resolved, or names an unknown project.            *)
Unresolved(c) ==
    /\ At(c, "idle")
    /\ Answer(c)
    /\ Others /\ UNCHANGED <<task, approval, started>>

(* Authority, autonomy and the Guardian, which reads the lockdown first.   *)
Decide(c) ==
    /\ At(c, "idle")
    /\ \E r \in Requests, stopped \in BOOLEAN :
          LET chosen == Selected(r, Guardian(r, locked, stopped)) IN
          cmd' = [cmd EXCEPT ![c] =
                    [@ EXCEPT !.pc = IF r.project THEN "decided" ELSE "answered",
                              !.req = r, !.selected = chosen]]
    /\ Others /\ UNCHANGED <<task, approval, started>>

InitialStatus(selected) ==
    CASE selected = "deny" -> "cancelled"
      [] selected = "require_approval" -> "needs_approval"
      [] selected \in {"auto", "notify"} -> "queued"

AfterCreation(c) ==
    CASE cmd[c].selected = "deny" -> "answered"
      [] cmd[c].selected = "require_approval" -> "asking"
      [] cmd[c].selected \in {"auto", "notify"} ->
            IF c \in MultiStep THEN "planning" ELSE "starting"

CreateTask(c) ==
    /\ At(c, "decided")
    /\ task' = [task EXCEPT ![c].status = InitialStatus(cmd[c].selected)]
    /\ Goto(c, AfterCreation(c))
    /\ Others /\ UNCHANGED <<approval, started>>

RequestApproval(c) ==
    /\ At(c, "asking")
    /\ approval' = [approval EXCEPT ![c] = "pending"]
    /\ Answer(c)
    /\ Others /\ UNCHANGED <<task, started>>

(* planSteps asks a model for the plan while the task is queued.           *)
PlanFails(c) ==
    /\ At(c, "planning")
    /\ Patch(c, "failed")
    /\ Answer(c)
    /\ Others /\ UNCHANGED <<approval, started>>

(* executeTask, or runOrchestration once it has a plan.                    *)
StartAttempt(c) ==
    /\ cmd[c].pc \in {"starting", "planning"}
    /\ Begins(c)
    /\ Goto(c, "executing")
    /\ Others /\ UNCHANGED approval

AttemptSucceeds(c) ==
    /\ At(c, "executing")
    /\ Patch(c, "completed")
    /\ Answer(c)
    /\ Others /\ UNCHANGED <<approval, started>>

(* A step of the plan without arguments makes its validation throw, which   *)
(* runOrchestration does not catch: the task stays as it is.                *)
OrchestrationThrows(c) ==
    /\ c \in MultiStep /\ At(c, "executing")
    /\ Answer(c)
    /\ Others /\ UNCHANGED <<task, approval, started>>

(* The run is closed, the task is read.                                    *)
AttemptFails(c) ==
    /\ At(c, "executing")
    /\ cmd' = [cmd EXCEPT ![c].pc = "failing", ![c].seen = task[c].attempts]
    /\ Others /\ UNCHANGED <<task, approval, started>>

(* handleTaskFailure on what was read: the status is not looked at.         *)
PatchFailure(c) ==
    /\ At(c, "failing")
    /\ task' = [task EXCEPT
          ![c] = [@ EXCEPT !.status = FailureStatus(cmd[c].seen, MaxAttempts),
                           !.attempts = cmd[c].seen + 1]]
    /\ Answer(c)
    /\ Others /\ UNCHANGED <<approval, started>>

Receive(c) == Decide(c) \/ Unresolved(c)

Command(c) ==
    \/ CreateTask(c) \/ RequestApproval(c)
    \/ PlanFails(c) \/ StartAttempt(c) \/ AttemptSucceeds(c)
    \/ AttemptFails(c) \/ PatchFailure(c) \/ OrchestrationThrows(c)

---------------------------------------------------------------------------
(* POST /api/approvals/decision: the approval is read, then written without *)
(* a condition, then the task is read and moved.                            *)

ReadApproval(t, c, verdict) ==
    /\ tab[t].pc = "idle"
    /\ approval[c] = "pending"
    /\ tab' = [tab EXCEPT ![t] = [pc |-> "deciding", of |-> c, verdict |-> verdict]]
    /\ UNCHANGED <<cmd, task, approval, worker, env, granted, started>>

PatchApproval(t) ==
    LET c == tab[t].of IN
    /\ tab[t].pc = "deciding"
    /\ approval' = [approval EXCEPT ![c] = tab[t].verdict]
    /\ granted' = IF tab[t].verdict = "approved" THEN granted \cup {c} ELSE granted
    /\ tab' = [tab EXCEPT ![t].pc = "continuing"]
    /\ UNCHANGED <<cmd, task, worker, env, started>>

Target(t) == IF tab[t].verdict = "approved" THEN "queued" ELSE "cancelled"

(* Mutant: the continuation leaves an approved task where it is.            *)
ContinuationNeverMoves(t) == FALSE

ContinuationMoves(t) ==
    LET now == task[tab[t].of].status IN
    now # Target(t) /\ CanTransition(now, Target(t))

(* continueApprovedTask.                                                    *)
ReadForContinuation(t) ==
    /\ tab[t].pc = "continuing"
    /\ tab' = [tab EXCEPT ![t] = IF ContinuationMoves(t)
                                 THEN [@ EXCEPT !.pc = "moving"] ELSE NoDecision]
    /\ UNCHANGED <<cmd, task, approval, worker, env, granted, started>>

MoveTask(t) ==
    /\ tab[t].pc = "moving"
    /\ Patch(tab[t].of, Target(t))
    /\ tab' = [tab EXCEPT ![t] = NoDecision]
    /\ UNCHANGED <<cmd, approval, worker, env, granted, started>>

(* A store call of the continuation throws: the answer says `pending'.      *)
ContinuationFails(t) ==
    /\ tab[t].pc \in {"continuing", "moving"}
    /\ faults < MaxFaults /\ faults' = faults + 1
    /\ tab' = [tab EXCEPT ![t] = NoDecision]
    /\ UNCHANGED <<cmd, task, approval, worker, locked, toggles, granted, started>>

Decision(t) == PatchApproval(t) \/ ReadForContinuation(t) \/ MoveTask(t)

---------------------------------------------------------------------------
(* The worker: discovery and placement, the claim, the execution and its    *)
(* end, as in TaskExecution.                                                *)

Rest == UNCHANGED <<cmd, approval, tab, env, granted>>

(* Mutant: discovery does not look at the assignment.                       *)
SchedulableAssigned(c) == task[c].status = "queued" /\ task[c].attempts < MaxAttempts

(* Mutant: the last attempt a task has left is never placed.                *)
SchedulableShort(c) ==
    /\ task[c].status = "queued" /\ ~task[c].assigned
    /\ task[c].attempts + 1 < MaxAttempts

Schedulable(c) ==
    /\ task[c].status = "queued" /\ ~task[c].assigned
    /\ task[c].attempts < MaxAttempts

PlaceTask(c) ==
    /\ worker.pc = "idle" /\ ~locked /\ Schedulable(c)
    /\ task' = [task EXCEPT ![c].assigned = TRUE]
    /\ worker' = [NoWork EXCEPT !.pc = "placed", !.of = c]
    /\ Rest /\ UNCHANGED started

Claim ==
    LET c == worker.of IN
    /\ worker.pc = "placed"
    /\ \/ /\ task[c].status = "queued"
          /\ Begins(c)
          /\ worker' = [worker EXCEPT !.pc = "executing"]
       \/ /\ task[c].status # "queued"
          /\ worker' = NoWork
          /\ UNCHANGED <<task, started>>
    /\ Rest

(* completeTaskIfRunning.                                                   *)
WorkerSucceeds ==
    LET c == worker.of IN
    /\ worker.pc = "executing"
    /\ IF task[c].status = "running" THEN Patch(c, "completed") ELSE UNCHANGED task
    /\ worker' = NoWork
    /\ Rest /\ UNCHANGED started

(* The failure path gives up a task that another party has ended.           *)
WorkerFails ==
    LET c == worker.of IN
    /\ worker.pc = "executing"
    /\ worker' = IF task[c].status \in TerminalTaskStatuses THEN NoWork
                 ELSE [worker EXCEPT !.pc = "failing", !.seen = task[c].attempts]
    /\ Rest /\ UNCHANGED <<task, started>>

WorkerPatches ==
    LET c == worker.of IN
    /\ worker.pc = "failing"
    /\ task' = [task EXCEPT
          ![c] = [@ EXCEPT !.status = FailureStatus(worker.seen, MaxAttempts),
                           !.attempts = worker.seen + 1]]
    /\ worker' = NoWork
    /\ Rest /\ UNCHANGED started

Work == Claim \/ WorkerSucceeds \/ WorkerFails \/ WorkerPatches

---------------------------------------------------------------------------
(* Time, recovery, faults and the owner's lockdown.                         *)

Executing(c) == \/ At(c, "executing")
                \/ worker.pc = "executing" /\ worker.of = c

(* Ten minutes pass.  Only an orchestration runs that long: the execution    *)
(* of a single step is aborted after a minute.                               *)
Age(c) ==
    /\ task[c].status = "running" /\ task[c].age = "recent"
    /\ Executing(c) => c \in MultiStep
    /\ task' = [task EXCEPT ![c].age = "stale"]
    /\ UNCHANGED <<cmd, approval, tab, worker, env, granted, started>>

Stale == {c \in Commands : task[c].status = "running" /\ task[c].age = "stale"}

Abandoned == Stale

RecoverStaleRunningTasks ==
    /\ Abandoned # {}
    /\ task' = [c \in Commands |->
                  IF c \in Abandoned THEN [task[c] EXCEPT !.status = "failed"]
                  ELSE task[c]]
    /\ UNCHANGED <<cmd, approval, tab, worker, env, granted, started>>

(* The API process dies: calls and decisions in flight are gone.             *)
ApiCrash ==
    /\ faults < MaxFaults /\ faults' = faults + 1
    /\ cmd' = [c \in Commands |->
                 IF cmd[c].pc = "idle" THEN cmd[c]
                 ELSE [cmd[c] EXCEPT !.pc = "answered", !.seen = 0]]
    /\ tab' = [t \in Tabs |-> NoDecision]
    /\ UNCHANGED <<task, approval, worker, locked, toggles, granted, started>>

WorkerCrash ==
    /\ worker.pc # "idle"
    /\ faults < MaxFaults /\ faults' = faults + 1
    /\ worker' = NoWork
    /\ UNCHANGED <<cmd, task, approval, tab, locked, toggles, granted, started>>

ToggleLockdown ==
    /\ toggles < MaxToggles /\ toggles' = toggles + 1
    /\ locked' = ~locked
    /\ UNCHANGED <<cmd, task, approval, tab, worker, faults, granted, started>>

Next ==
    \/ \E c \in Commands : Receive(c) \/ Command(c) \/ PlaceTask(c) \/ Age(c)
    \/ \E t \in Tabs :
          \/ \E c \in Commands, v \in {"approved", "rejected"} : ReadApproval(t, c, v)
          \/ Decision(t) \/ ContinuationFails(t)
    \/ Work \/ RecoverStaleRunningTasks
    \/ ApiCrash \/ WorkerCrash \/ ToggleLockdown

Spec == Init /\ [][Next]_vars

(* The two processes keep running their calls, the sweep and time go on, and *)
(* a pass finds each schedulable task unless a lockdown stands.              *)
Fairness ==
    /\ \A c \in Commands : WF_vars(Command(c)) /\ SF_vars(PlaceTask(c)) /\ WF_vars(Age(c))
    /\ \A t \in Tabs : WF_vars(Decision(t))
    /\ WF_vars(Work) /\ WF_vars(RecoverStaleRunningTasks)

FairSpec == Spec /\ Fairness

---------------------------------------------------------------------------
Statuses == TaskStatuses \cup {"none"}

CallLabels == {"idle", "decided", "asking", "planning", "starting", "executing",
               "failing", "answered"}

CallRecord ==
    [pc : CallLabels, req : Requests \cup {NoRequest}, seen : Nat,
     selected : {"none", "auto", "notify", "require_approval", "deny"}]

TaskRecord ==
    [status : Statuses, attempts : Nat, assigned : BOOLEAN,
     age : {"none", "recent", "stale"}]

TabRecord ==
    [pc : {"idle", "deciding", "continuing", "moving"}, of : Commands \cup {NoCommand},
     verdict : {"none", "approved", "rejected"}]

WorkerRecord ==
    [pc : {"idle", "placed", "executing", "failing"}, of : Commands \cup {NoCommand},
     seen : Nat]

(* The values of the variables.  Attempts have no better bound: the failures *)
(* of two executions of one task are both counted, whatever MaxAttempts is.  *)
TypeOK ==
    /\ cmd \in [Commands -> CallRecord]
    /\ task \in [Commands -> TaskRecord]
    /\ approval \in [Commands -> {"none", "pending", "approved", "rejected"}]
    /\ tab \in [Tabs -> TabRecord]
    /\ worker \in WorkerRecord
    /\ locked \in BOOLEAN /\ toggles \in 0 .. MaxToggles /\ faults \in 0 .. MaxFaults
    /\ granted \subseteq Commands /\ started \in [Commands -> Nat]

(* Nothing is executed, by the pipeline or by the worker, that the authority *)
(* matrix denied or that needed an approval, unless the owner approved it --  *)
(* whatever decisions, crashes and sweeps come in between.                   *)
WorkIsCleared ==
    \A c \in Commands : started[c] > 0 =>
        \/ c \in granted
        \/ /\ cmd[c].selected \in {"auto", "notify"}
           /\ Authority(cmd[c].req) # "deny"

(* An approval is good for one execution, and a command that needed none is  *)
(* executed at most twice: by the pipeline and, from the queue, by the worker.*)
AttemptsBounded ==
    \A c \in Commands :
        started[c] <= IF cmd[c].selected = "require_approval" THEN 1 ELSE 2

(* Decisions that overlap never leave an approved task waiting, as long as   *)
(* no call fails.                                                            *)
ApprovedLeavesGate ==
    \A c \in Commands :
        /\ approval[c] = "approved" /\ faults = 0
        /\ \A t \in Tabs : tab[t].of # c
        => task[c].status # "needs_approval"

(* A task in the queue that nobody holds is taken up, a failed attempt of    *)
(* the pipeline included, unless a lockdown stands.                          *)
QueueIsServed ==
    \A c \in Commands :
        task[c].status = "queued" /\ ~task[c].assigned
        ~> \/ task[c].status # "queued" \/ task[c].assigned
           \/ locked

(* taskEngine.ts: no transition leaves `completed'.                          *)
CompletedIsFinal ==
    [][\A c \in Commands : task[c].status = "completed" => task'[c].status = "completed"]_vars
=============================================================================
