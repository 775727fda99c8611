------------------------------- MODULE Mission -------------------------------
(***************************************************************************)
(* One mission from its first plan to its end: proposal, the owner's       *)
(* decision, atomic materialization of the task graph, activation, and the *)
(* reconciliation of the mission with its tasks                            *)
(* (src/core/mission/missionRuntime.ts over the mission part of            *)
(* src/db/repo.ts).                                                        *)
(*                                                                         *)
(* A process is one request of the owner or one execution slot of a        *)
(* worker; every await between two store calls is a point where the other  *)
(* processes run.  A materialization or activation is one transaction      *)
(* under the row lock of the mission, hence one action.                    *)
(*                                                                         *)
(* Abstracted: the hard budget may be read as refusing nothing; the        *)
(* execution of a task is its outcome (TaskExecution has the details).     *)
(***************************************************************************)
EXTENDS TaskStatus, MissionPlan

CONSTANTS
  Proposed,      \* the plans the owner may send
  Procs,         \* concurrent requests and worker slots
  Environments,  \* the environments the mission may meet, see env
  MaxProposals,  \* bound on the number of proposals
  None           \* SQL NULL

ASSUME MissionAssumption ==
  /\ \A q \in Proposed :
       /\ q.tasks \in Seq([key : Keys, clean : BOOLEAN, attempts : Int,
                          verified : BOOLEAN, operations : SUBSET STRING])
       /\ q.edges \in Seq(Keys \X Keys)
  /\ Environments \subseteq [deciders : SUBSET Procs, approvable : SUBSET Keys,
                             faulty : SUBSET Procs]
  /\ MaxProposals \in Nat \ {0}
  /\ IsFiniteSet(Procs)
  /\ None \notin Keys \cup TaskStatuses /\ \A q \in Proposed : None # Hash(q)

VARIABLES
  mission,    \* missions.status
  plan,       \* missions.plan_hash
  approvals,  \* the mission.plan.approve approvals, oldest first
  task,       \* status of the task of each key, None when there is no row
  proc,       \* the local state of each process
  env         \* which processes decide for the owner, which tasks raise an
              \* approval of their own while they run, who may die

vars == <<mission, plan, approvals, task, proc, env>>

Deciders == env.deciders
Approvable == env.approvable
Faulty == env.faulty

MissionStatuses == {"draft", "pending_approval", "approved", "materialized",
                    "active", "completed", "failed", "cancelled"}

Lifecycle ==
  [draft            |-> {"pending_approval", "cancelled"},
   pending_approval |-> {"approved", "cancelled"},
   approved         |-> {"materialized", "cancelled"},
   materialized     |-> {"active", "cancelled"},
   active           |-> {"completed", "failed", "cancelled"},
   completed        |-> {},
   failed           |-> {},
   cancelled        |-> {}]

Decisions == {"approved", "rejected", "denied"}

PC == {"idle", "saved", "requesting", "loaded", "deciding", "marking",
       "generic", "activating", "running", "continuing", "reconciling",
       "listing", "updating"}

Idle == [pc |-> "idle", plan |-> None, approval |-> 0, key |-> None,
         to |-> "none"]

Hashes == {Hash(q) : q \in {p \in Proposed : ValidPlan(p)}}

Calls == [pc : PC, plan : Hashes \cup {None}, approval : Nat,
          key : Keys \cup {None},
          to : TaskStatuses \cup Decisions \cup {"none"}]

TypeOK ==
  /\ mission \in MissionStatuses
  /\ plan \in Hashes \cup {None}
  /\ approvals \in Seq([status : {"pending"} \cup Decisions, plan : Hashes])
  /\ task \in [Keys -> TaskStatuses \cup {None}]
  /\ proc \in [Procs -> Calls]
  /\ env \in Environments

(***************************************************************************)
(* Helpers.                                                                *)
(***************************************************************************)

At(p, label) == proc[p].pc = label
Goto(p, label) == proc' = [proc EXCEPT ![p].pc = label]
Return(p) == proc' = [proc EXCEPT ![p] = Idle]
Call(p, fields) == proc' = [proc EXCEPT ![p] = fields]

MissionTasks == {k \in Keys : task[k] # None}

Latest == approvals[Len(approvals)]

(* Proposals so far, the ones that have yet to create their approval too.  *)
Proposals ==
  Len(approvals) + Cardinality({p \in Procs : proc[p].pc \in
                                                {"saved", "requesting"}})

Init ==
  /\ mission = "draft"
  /\ plan = None
  /\ approvals = <<>>
  /\ task = [k \in Keys |-> None]
  /\ proc = [p \in Procs |-> Idle]
  /\ env \in Environments

(***************************************************************************)
(* proposeMissionPlan: validate and save the plan, ask for approval,       *)
(* create the approval row.                                                *)
(***************************************************************************)

SaveMissionPlan(p, q) ==
  /\ At(p, "idle")
  /\ Proposals < MaxProposals
  /\ ValidPlan(q)
  /\ mission \in {"draft", "pending_approval"}
  /\ plan \in {None, Hash(q)}
  /\ plan' = Hash(q)
  /\ mission' = "draft"
  /\ Call(p, [Idle EXCEPT !.pc = "saved", !.plan = Hash(q)])
  /\ UNCHANGED <<approvals, task>>

SetMissionPendingApproval(p) ==
  /\ At(p, "saved")
  /\ mission' = IF mission = "draft" /\ plan # None
                  THEN "pending_approval" ELSE mission
  /\ Goto(p, "requesting")
  /\ UNCHANGED <<plan, approvals, task>>

CreateApproval(p) ==
  /\ At(p, "requesting")
  /\ approvals' = Append(approvals,
                         [status |-> "pending", plan |-> proc[p].plan])
  /\ Return(p)
  /\ UNCHANGED <<mission, plan, task>>

(***************************************************************************)
(* decideMissionPlanApproval, and the generic decision endpoint, which     *)
(* accepts the approval of a mission like any other.                       *)
(***************************************************************************)

LoadMission(p, i, d) ==
  /\ p \in Deciders
  /\ At(p, "idle")
  /\ mission = "pending_approval"
  /\ Call(p, [Idle EXCEPT !.pc = "loaded", !.plan = plan, !.approval = i,
                          !.to = d])
  /\ UNCHANGED <<mission, plan, approvals, task>>

(* getApproval, the binding to the plan read before, and resolveApproval.  *)
CheckApproval(p) ==
  LET a == approvals[proc[p].approval]
  IN  /\ At(p, "loaded")
      /\ IF a.status = "pending" /\ a.plan = proc[p].plan
           THEN Goto(p, "deciding")
           ELSE Return(p)
      /\ UNCHANGED <<mission, plan, approvals, task>>

(* Mutant: every decision goes on to mark the mission approved.            *)
PatchApprovalAndMark(p) ==
  /\ At(p, "deciding")
  /\ approvals' = [approvals EXCEPT ![proc[p].approval].status = proc[p].to]
  /\ Goto(p, "marking")
  /\ UNCHANGED <<mission, plan, task>>

(* patchApproval: an UPDATE without a condition on the status.             *)
PatchApproval(p) ==
  /\ At(p, "deciding")
  /\ approvals' = [approvals EXCEPT ![proc[p].approval].status = proc[p].to]
  /\ IF proc[p].to = "approved" THEN Goto(p, "marking") ELSE Return(p)
  /\ UNCHANGED <<mission, plan, task>>

(* Mutant: the UPDATE has no condition on the status of the mission.       *)
MarkMissionAnyStatus(p) ==
  /\ At(p, "marking")
  /\ mission' = "approved"
  /\ Return(p)
  /\ UNCHANGED <<plan, approvals, task>>

MarkMissionApproved(p) ==
  /\ At(p, "marking")
  /\ mission' = IF mission = "pending_approval" THEN "approved" ELSE mission
  /\ Return(p)
  /\ UNCHANGED <<plan, approvals, task>>

GenericDecision(p, i, d) ==
  /\ p \in Deciders
  /\ At(p, "idle")
  /\ approvals[i].status = "pending"
  /\ Call(p, [Idle EXCEPT !.pc = "generic", !.approval = i, !.to = d])
  /\ UNCHANGED <<mission, plan, approvals, task>>

GenericPatch(p) ==
  /\ At(p, "generic")
  /\ approvals' = [approvals EXCEPT ![proc[p].approval].status = proc[p].to]
  /\ Return(p)
  /\ UNCHANGED <<mission, plan, task>>

(***************************************************************************)
(* materializeAndActivateMission: two transactions under the mission lock. *)
(***************************************************************************)

(* Mutant: the hash of the plan sent is not compared with the saved one.   *)
AuthorizedForAnyPlan(q) ==
  /\ mission = "approved"
  /\ approvals # <<>>
  /\ Latest.status = "approved"
  /\ Latest.plan = plan

(* The owner sends the plan again; its hash must be the saved one, and the *)
(* latest approval must be an approval of it.                              *)
Authorized(q) ==
  /\ mission = "approved"
  /\ plan = Hash(q)
  /\ approvals # <<>>
  /\ Latest.status = "approved"
  /\ Latest.plan = plan

MaterializeMissionPlan(p, q) ==
  /\ At(p, "idle")
  /\ Authorized(q) /\ Insertable(q)
  /\ task' = [k \in Keys |-> IF k \in KeysOf(q) THEN "created" ELSE task[k]]
  /\ mission' = "materialized"
  /\ Call(p, [Idle EXCEPT !.pc = "activating"])
  /\ UNCHANGED <<plan, approvals>>

AlreadyMaterialized(p) ==
  /\ At(p, "idle")
  /\ mission \in {"materialized", "active"}
  /\ Call(p, [Idle EXCEPT !.pc = "activating"])
  /\ UNCHANGED <<mission, plan, approvals, task>>

ActivateMission(p) ==
  /\ At(p, "activating")
  /\ IF mission = "materialized"
       THEN /\ task' = [k \in Keys |-> IF task[k] = "created" THEN "queued"
                                       ELSE task[k]]
            /\ mission' = "active"
       ELSE UNCHANGED <<mission, task>>
  /\ Return(p)
  /\ UNCHANGED <<plan, approvals>>

(***************************************************************************)
(* The tasks: the workforce runs them, the owner may settle an approval    *)
(* one of them raised, the recovery sweep fails the abandoned ones.        *)
(***************************************************************************)

(* Mutant: edges are followed in both directions.                          *)
ReadyBothWays(k) ==
  \A j \in MissionTasks : (j \in Prerequisites(plan, k) \/ k \in Prerequisites(plan, j))
                           => task[j] = "completed"

(* A task is claimed once its prerequisites are completed.                 *)
Ready(k) == \A j \in Prerequisites(plan, k) : task[j] = "completed"

StartTask(p, k) ==
  /\ At(p, "idle")
  /\ task[k] = "queued" /\ Ready(k)
  /\ task' = [task EXCEPT ![k] = "running"]
  /\ Call(p, [Idle EXCEPT !.pc = "running", !.key = k])
  /\ UNCHANGED <<mission, plan, approvals>>

(* Mutant: the pass that ends a task does not reconcile.                   *)
FinishTaskOnly(p, s) ==
  LET k == proc[p].key
  IN  /\ At(p, "running")
      /\ task' = IF task[k] = "running" THEN [task EXCEPT ![k] = s] ELSE task
      /\ Return(p)
      /\ UNCHANGED <<mission, plan, approvals>>

(* Completed, failed or put back in the queue, unless the row has changed; *)
(* each outcome makes the pass reconcile the missions of the owner.        *)
FinishTask(p, s) ==
  LET k == proc[p].key
  IN  /\ At(p, "running")
      /\ task' = IF task[k] = "running" THEN [task EXCEPT ![k] = s] ELSE task
      /\ Call(p, [Idle EXCEPT !.pc = "reconciling"])
      /\ UNCHANGED <<mission, plan, approvals>>

RecoverStale(k) ==
  /\ task[k] = "running"
  /\ \A p \in Procs : At(p, "running") => proc[p].key # k
  /\ task' = [task EXCEPT ![k] = "failed"]
  /\ UNCHANGED <<mission, plan, approvals, proc>>

(* continueApprovedTask: read, check the transition, write unconditionally.*)
ContinueApprovedTask(p, k, target) ==
  /\ At(p, "idle")
  /\ k \in Approvable
  /\ task[k] \notin {None, "created", target}
  /\ CanTransition(task[k], target)
  /\ Call(p, [Idle EXCEPT !.pc = "continuing", !.key = k, !.to = target])
  /\ UNCHANGED <<mission, plan, approvals, task>>

PatchTask(p) ==
  /\ At(p, "continuing")
  /\ task' = [task EXCEPT ![proc[p].key] = proc[p].to]
  /\ Return(p)
  /\ UNCHANGED <<mission, plan, approvals>>

(***************************************************************************)
(* reconcileMissionTerminalState, on demand or after a worker's pass.      *)
(***************************************************************************)

Reconcile(p) ==
  /\ At(p, "idle")
  /\ Call(p, [Idle EXCEPT !.pc = "reconciling"])
  /\ UNCHANGED <<mission, plan, approvals, task>>

GetActiveMission(p) ==
  /\ At(p, "reconciling")
  /\ IF mission = "active" THEN Goto(p, "listing") ELSE Return(p)
  /\ UNCHANGED <<mission, plan, approvals, task>>

(* Mutant: a mission is completed when none of its tasks is open.          *)
MissionEnded ==
  MissionTasks # {} /\ \A k \in MissionTasks : task[k] \in TerminalTaskStatuses

MissionCompleted ==
  MissionTasks # {} /\ \A k \in MissionTasks : task[k] = "completed"
MissionFailed == \E k \in MissionTasks : task[k] = "failed"

ListMissionTasks(p) ==
  /\ At(p, "listing")
  /\ CASE MissionCompleted -> Call(p, [Idle EXCEPT !.pc = "updating",
                                                   !.to = "completed"])
       [] ~MissionCompleted /\ MissionFailed
            -> Call(p, [Idle EXCEPT !.pc = "updating", !.to = "failed"])
       [] OTHER -> Return(p)
  /\ UNCHANGED <<mission, plan, approvals, task>>

(* An UPDATE whose only condition is that the status differs.              *)
UpdateMissionStatus(p) ==
  /\ At(p, "updating")
  /\ mission' = proc[p].to
  /\ Return(p)
  /\ UNCHANGED <<plan, approvals, task>>

Crash(p) ==
  /\ p \in Faulty
  /\ ~At(p, "idle")
  /\ Return(p)
  /\ UNCHANGED <<mission, plan, approvals, task>>

(* Requests of the owner.                                                  *)
Request(p) ==
  \/ \E q \in Proposed : SaveMissionPlan(p, q) \/ MaterializeMissionPlan(p, q)
  \/ \E i \in DOMAIN approvals, d \in Decisions :
       LoadMission(p, i, d) \/ GenericDecision(p, i, d)
  \/ AlreadyMaterialized(p)
  \/ \E k \in Keys, target \in {"queued", "cancelled"} :
       ContinueApprovedTask(p, k, target)
  \/ Reconcile(p)

(* What a process does once it has begun.                                  *)
Proceed(p) ==
  \/ SetMissionPendingApproval(p)
  \/ CreateApproval(p)
  \/ CheckApproval(p)
  \/ PatchApproval(p)
  \/ MarkMissionApproved(p)
  \/ GenericPatch(p)
  \/ ActivateMission(p)
  \/ \E s \in {"completed", "failed", "queued"} : FinishTask(p, s)
  \/ PatchTask(p)
  \/ GetActiveMission(p)
  \/ ListMissionTasks(p)
  \/ UpdateMissionStatus(p)

Step ==
  \/ \E p \in Procs : Request(p) \/ Proceed(p) \/ Crash(p)
  \/ \E p \in Procs, k \in Keys : StartTask(p, k)
  \/ \E k \in Keys : RecoverStale(k)

Next == Step /\ UNCHANGED env

Spec == Init /\ [][Next]_vars

(* A call that has begun goes on; nobody has to make a request.            *)
FairSpec == Spec /\ \A p \in Procs : WF_vars(Proceed(p) /\ UNCHANGED env)

(***************************************************************************)
(* Properties.                                                             *)
(***************************************************************************)

Executable == mission \in {"approved", "materialized", "active", "completed",
                           "failed"}

(* HUMAN_APPROVAL: a mission that may run, runs or has run is one whose    *)
(* owner approved exactly its plan, and that approval still says so, as    *)
(* long as the owner's decisions are made one after the other.             *)
ExecutableIsApproved ==
  Executable /\ Cardinality(Deciders) <= 1 =>
    \E i \in DOMAIN approvals : /\ approvals[i].status = "approved"
                                /\ approvals[i].plan = plan

(* The graph is there whole or not at all, and is offered to the workforce *)
(* whole or not at all: the tasks are those of the saved plan from         *)
(* materialization on, whoever materialized concurrently or proposed       *)
(* again, none of them leaves 'created' before activation and none is left *)
(* in it by activation.                                                    *)
GraphComplete ==
  /\ mission \in {"draft", "pending_approval", "approved"}
       => MissionTasks = {}
  /\ mission \in {"materialized", "active", "completed", "failed"}
       => MissionTasks = TasksOf(plan)
  /\ \A k \in MissionTasks :
       task[k] = "created" <=> mission \notin {"active", "completed", "failed"}

(* An active mission none of whose tasks has failed or was cancelled has   *)
(* a task running or one that may be taken up, until all are completed.    *)
WorkRemains ==
  mission = "active" /\ ~MissionCompleted
    /\ (\A k \in MissionTasks : task[k] \notin {"failed", "cancelled"})
    => \E k \in MissionTasks : task[k] # "completed" /\ Ready(k)

(* A completed mission has only completed tasks, although the reconciler   *)
(* that completed it had read them some time before; a task that raised an *)
(* approval of its own may be taken up again.                              *)
CompletedMeansDone ==
  mission = "completed" =>
    \A k \in MissionTasks \ Approvable : task[k] = "completed"

(* From its approval on, a mission only moves along the lifecycle, however *)
(* reconcilers, materializers and late proposals interleave, if no task    *)
(* raised an approval of its own.                                          *)
MissionAdvances ==
  [][mission' = mission
     \/ Approvable # {}
     \/ {mission, mission'} \subseteq {"draft", "pending_approval"}
     \/ mission' \in Lifecycle[mission]]_vars

(* A mission whose tasks decide its end does reach it, when the worker     *)
(* that finished the last of them lives to reconcile.                      *)
MissionSettles ==
  (mission = "active" /\ (MissionCompleted \/ MissionFailed)
     /\ Faulty = {} /\ Approvable = {})
    ~> (mission \in {"completed", "failed"})
=============================================================================
