----------------------------- MODULE MissionProofs -----------------------------
(***************************************************************************)
(* What Mission promises for any plans, keys, processes, environments and  *)
(* number of proposals.                                                    *)
(*                                                                         *)
(* The argument has three layers.  Whole relates the local state of each   *)
(* process and the graph of tasks to the saved plan; it gives              *)
(* GraphComplete and WorkRemains.  Settled says what the tasks look like   *)
(* once a reconciler has seen an outcome; it gives CompletedMeansDone and  *)
(* MissionAdvances.  Consented follows the approvals when one process      *)
(* decides for the owner; it gives ExecutableIsApproved.                   *)
(***************************************************************************)
EXTENDS Mission, FiniteSetTheorems, TLAPS

(***************************************************************************)
(* Plans and their hashes.                                                 *)
(***************************************************************************)

(* A hash keeps the tasks and the edges of the plan.                       *)
LEMMA HashKeeps ==
  ASSUME NEW q
  PROVE  TasksOf(Hash(q)) = KeysOf(q) /\ DOMAIN Hash(q).edges = Edges(q)
  BY DEF TasksOf, Hash, KeysOf, Edges, Counts

(* The elements of a sequence.                                             *)
LEMMA ElementOfSeq ==
  ASSUME NEW T, NEW s \in Seq(T), NEW i \in DOMAIN s
  PROVE  s[i] \in T
  OBVIOUS

(* A sequence with one of its elements replaced.                           *)
LEMMA ReplacedElement ==
  ASSUME NEW T, NEW s \in Seq(T), NEW i \in DOMAIN s, NEW v \in T
  PROVE  [s EXCEPT ![i] = v] \in Seq(T)
  OBVIOUS

(* The plan behind a hash that was saved has tasks, all with known keys,   *)
(* and its edges join them.                                                *)
LEMMA SavedPlan ==
  ASSUME NEW h \in Hashes
  PROVE  /\ h # None
         /\ TasksOf(h) # {} /\ TasksOf(h) \subseteq Keys
         /\ DOMAIN h.edges \subseteq TasksOf(h) \X TasksOf(h)
  <1>1. PICK q \in Proposed : ValidPlan(q) /\ h = Hash(q)
    BY DEF Hashes
  <1>2. /\ q.tasks \in Seq([key : Keys, clean : BOOLEAN, attempts : Int,
                           verified : BOOLEAN, operations : SUBSET STRING])
        /\ h # None
    BY <1>1, MissionAssumption
  <1>3. q.tasks # <<>> /\ Edges(q) \subseteq KeysOf(q) \X KeysOf(q)
    BY <1>1 DEF ValidPlan, GraphSound
  <1>4. KeysOf(q) # {}
    <2>1. 1 \in DOMAIN q.tasks
      BY <1>2, <1>3
    <2>2. q.tasks[1].key \in KeysOf(q)
      BY <2>1 DEF KeysOf, Range
    <2>3. QED
      BY <2>2
  <1>5. KeysOf(q) \subseteq Keys
    <2>1. ASSUME NEW i \in DOMAIN q.tasks
          PROVE  q.tasks[i].key \in Keys
      <3>1. PICK T : /\ q.tasks \in Seq(T)
                     /\ T = [key : Keys, clean : BOOLEAN, attempts : Int,
                             verified : BOOLEAN, operations : SUBSET STRING]
        BY <1>2
      <3>2. q.tasks[i] \in T
        BY <3>1, ElementOfSeq
      <3>3. QED
        BY <3>1, <3>2
    <2>2. QED
      BY <2>1 DEF KeysOf, Range
  <1>6. QED
    BY <1>1, <1>2, <1>3, <1>4, <1>5, HashKeeps

(***************************************************************************)
(* The first layer: the graph and the plan.                                *)
(***************************************************************************)

Started == {"active", "completed", "failed"}
Untouched == {None, "created"}

(* What a process knows in each of its steps that no other process undoes. *)
Fits(c) ==
  /\ c.pc \in {"saved", "requesting"} => c.plan # None /\ c.plan = plan
  /\ c.pc \in {"loaded", "deciding", "marking", "generic"}
       => c.approval \in DOMAIN approvals /\ c.to \in Decisions
  /\ c.pc = "marking" => c.to = "approved"
  /\ c.pc = "running" => c.key \in Keys /\ task[c.key] \notin Untouched
  /\ c.pc = "continuing"
       => /\ c.key \in Approvable /\ c.key \in Keys
          /\ task[c.key] \notin Untouched
          /\ c.to \in {"queued", "cancelled"}
  /\ c.pc \in {"listing", "updating"} => mission \in Started
  /\ c.pc = "updating" => c.to \in {"completed", "failed"}

(* The approvals are of the saved plan, a mission past its draft has one,  *)
(* and a plan that was materialized has no cycle.                          *)
Planned ==
  /\ \A i \in DOMAIN approvals : approvals[i].plan = plan
  /\ mission # "draft" => plan # None
  /\ mission \in {"materialized"} \cup Started
       => Acyclic(TasksOf(plan), DOMAIN plan.edges)
  /\ mission # "cancelled"

Graph == Planned /\ GraphComplete

Whole == TypeOK /\ Graph /\ \A p \in Procs : Fits(proc[p])

(* What no step undoes.                                                    *)
Advance ==
  /\ plan # None => plan' = plan
  /\ DOMAIN approvals \subseteq DOMAIN approvals'
  /\ \A k \in Keys : task[k] \notin Untouched => task'[k] \notin Untouched
  /\ mission \in Started => mission' \in Started
  /\ env' = env

(* A process goes on from a state that fits to one that fits.              *)
Moves(p) ==
  \E c \in Calls : proc' = [proc EXCEPT ![p] = c] /\ Fits(c)'

(* The types of what the processes share.                                  *)
SharedTyped ==
  /\ mission \in MissionStatuses
  /\ plan \in Hashes \cup {None}
  /\ approvals \in Seq([status : {"pending"} \cup Decisions, plan : Hashes])
  /\ task \in [Keys -> TaskStatuses \cup {None}]

(* Nothing but the local state of a process changes.                       *)
Quiet == UNCHANGED <<mission, plan, approvals, task, env>>

(* The idle call is well typed and asks for nothing.                       *)
LEMMA IdleFits == Idle \in Calls /\ Fits(Idle) /\ Fits(Idle)'
  BY DEF Idle, Calls, PC, Fits

(* What fits one process still fits it after a step of another one.        *)
LEMMA FitsStable ==
  ASSUME Advance, NEW c \in Calls, Fits(c)
  PROVE  Fits(c)'
  BY DEF Advance, Fits, Approvable

(* A step that advances, whose process goes on if it has one, and that     *)
(* leaves the graph in order preserves the first layer.                    *)
LEMMA WholeStep ==
  ASSUME Whole, Advance, Graph', SharedTyped',
         proc' = proc \/ \E p \in Procs : Moves(p)
  PROVE  Whole'
  <1>1. proc \in [Procs -> Calls] /\ env \in Environments
    BY DEF Whole, TypeOK
  <1>2. ASSUME NEW r \in Procs, proc'[r] = proc[r]
        PROVE  Fits(proc[r])'
    <2>1. PICK d \in Calls : d = proc[r] /\ Fits(d)
      BY <1>1 DEF Whole
    <2>2. Fits(d)'
      BY <2>1, FitsStable
    <2>3. QED
      BY <1>2, <2>1, <2>2 DEF Fits, Approvable
  <1>3. CASE proc' = proc
    <2>1. TypeOK'
      BY <1>1, <1>3 DEF TypeOK, Advance, SharedTyped
    <2>2. QED
      BY <2>1, <1>2, <1>3 DEF Whole
  <1>4. ASSUME NEW p \in Procs, Moves(p)
        PROVE  Whole'
    <2>1. PICK c \in Calls : proc' = [proc EXCEPT ![p] = c] /\ Fits(c)'
      BY <1>4 DEF Moves
    <2>2. TypeOK'
      BY <1>1, <2>1 DEF TypeOK, Advance, SharedTyped
    <2>3. Fits(proc[p])'
      <3>1. proc'[p] = c
        BY <1>1, <2>1
      <3>2. QED
        BY <3>1, <2>1 DEF Fits, Approvable
    <2>4. ASSUME NEW r \in Procs \ {p}
          PROVE  Fits(proc[r])'
      BY <1>1, <1>2, <2>1
    <2>5. QED
      BY <2>2, <2>3, <2>4 DEF Whole
  <1>5. QED
    BY <1>3, <1>4

(* A step that changes nothing but the local state of a process.           *)
LEMMA QuietStep ==
  ASSUME Whole, Quiet, NEW p \in Procs, Moves(p)
  PROVE  Whole'
  <1>1. Advance
    BY DEF Quiet, Advance
  <1>2. Graph'
    BY DEF Whole, Quiet, Graph, Planned, GraphComplete, MissionTasks
  <1>3. QED
    BY <1>1, <1>2, WholeStep DEF Whole, TypeOK, Quiet, SharedTyped

(* A call of a process in a known state is well typed and fits.            *)
LEMMA CallOf ==
  ASSUME Whole, NEW p \in Procs
  PROVE  proc[p] \in Calls /\ Fits(proc[p])
  BY DEF Whole, TypeOK

(* Returning leaves a process with nothing to remember.                    *)
LEMMA Returns ==
  ASSUME NEW p \in Procs, Return(p)
  PROVE  Moves(p)
  BY IdleFits DEF Return, Moves

(* The fields of an approval.                                              *)
ApprovalRows == [status : {"pending"} \cup Decisions, plan : Hashes]

(* The approvals are rows.                                                 *)
LEMMA ApprovalTyped ==
  ASSUME SharedTyped
  PROVE  /\ approvals \in Seq(ApprovalRows)
         /\ \A i \in DOMAIN approvals : approvals[i] \in ApprovalRows
  <1>1. approvals \in Seq(ApprovalRows)
    BY DEF SharedTyped, ApprovalRows
  <1>2. QED
    BY <1>1, ElementOfSeq

(* The steps that only read.                                               *)
LEMMA Reads ==
  ASSUME Whole, NEW p \in Procs, env' = env,
         \/ \E i \in DOMAIN approvals, d \in Decisions :
              LoadMission(p, i, d) \/ GenericDecision(p, i, d)
         \/ CheckApproval(p)
         \/ AlreadyMaterialized(p)
         \/ \E k \in Keys, target \in {"queued", "cancelled"} :
              ContinueApprovedTask(p, k, target)
         \/ Reconcile(p)
         \/ GetActiveMission(p)
         \/ ListMissionTasks(p)
         \/ Crash(p)
  PROVE  Quiet /\ Moves(p)
  <1> USE DEF Quiet
  <1>1. approvals \in Seq([status : {"pending"} \cup Decisions, plan : Hashes])
        /\ plan \in Hashes \cup {None} /\ env \in Environments
    BY DEF Whole, TypeOK
  <1>2. ASSUME NEW i \in DOMAIN approvals, NEW d \in Decisions,
               LoadMission(p, i, d) \/ GenericDecision(p, i, d)
        PROVE  Quiet /\ Moves(p)
    <2>1. i \in Nat
      BY <1>1
    <2>2. CASE LoadMission(p, i, d)
      <3> DEFINE c == [Idle EXCEPT !.pc = "loaded", !.plan = plan,
                                   !.approval = i, !.to = d]
      <3>1. c \in Calls
        BY <1>1, <2>1 DEF Idle, Calls, PC
      <3>2. Quiet /\ proc' = [proc EXCEPT ![p] = c] /\ approvals' = approvals
        BY <2>2 DEF LoadMission, Call
      <3>3. Fits(c)'
        BY <3>2 DEF Fits, Idle
      <3>4. QED
        BY <3>1, <3>2, <3>3 DEF Moves
    <2>3. CASE GenericDecision(p, i, d)
      <3> DEFINE c == [Idle EXCEPT !.pc = "generic", !.approval = i, !.to = d]
      <3>1. c \in Calls
        BY <2>1 DEF Idle, Calls, PC
      <3>2. Quiet /\ proc' = [proc EXCEPT ![p] = c] /\ approvals' = approvals
        BY <2>3 DEF GenericDecision, Call
      <3>3. Fits(c)'
        BY <3>2 DEF Fits, Idle
      <3>4. QED
        BY <3>1, <3>2, <3>3 DEF Moves
    <2>4. QED
      BY <1>2, <2>2, <2>3
  <1>3. CASE CheckApproval(p)
    <2>1. CASE Return(p)
      BY <1>3, <2>1, Returns DEF CheckApproval
    <2>2. CASE Goto(p, "deciding")
      <3> DEFINE c == [proc[p] EXCEPT !.pc = "deciding"]
      <3>1. c \in Calls /\ Fits(c)
        BY <1>3, CallOf DEF CheckApproval, At, Calls, PC, Fits
      <3>2. Quiet /\ proc' = [proc EXCEPT ![p] = c]
        BY <1>3, <2>2 DEF CheckApproval, Goto
      <3>3. PICK d : d = c
        OBVIOUS
      <3>4. Fits(d)'
        BY <3>1, <3>2, <3>3 DEF Fits, Approvable
      <3>5. QED
        BY <3>1, <3>2, <3>3, <3>4 DEF Moves
    <2>3. QED
      BY <1>3, <2>1, <2>2 DEF CheckApproval
  <1>4. CASE AlreadyMaterialized(p) \/ Reconcile(p)
    <2>1. PICK l \in {"activating", "reconciling"} :
            proc' = [proc EXCEPT ![p] = [Idle EXCEPT !.pc = l]]
      BY <1>4 DEF AlreadyMaterialized, Reconcile, Call
    <2> DEFINE c == [Idle EXCEPT !.pc = l]
    <2>2. c \in Calls /\ Fits(c)'
      BY DEF Idle, Calls, PC, Fits
    <2>3. QED
      BY <1>4, <2>1, <2>2 DEF AlreadyMaterialized, Reconcile, Moves
  <1>5. ASSUME NEW k \in Keys, NEW target \in {"queued", "cancelled"},
               ContinueApprovedTask(p, k, target)
        PROVE  Quiet /\ Moves(p)
    <2> DEFINE c == [Idle EXCEPT !.pc = "continuing", !.key = k, !.to = target]
    <2>1. c \in Calls
      BY DEF Idle, Calls, PC, TaskStatuses
    <2>2. Quiet /\ proc' = [proc EXCEPT ![p] = c]
      BY <1>5 DEF ContinueApprovedTask, Call
    <2>3. k \in Approvable /\ task[k] \notin Untouched
      BY <1>5 DEF ContinueApprovedTask, Untouched
    <2>4. Fits(c)'
      BY <2>2, <2>3 DEF Fits, Idle, Approvable
    <2>5. QED
      BY <2>1, <2>2, <2>4 DEF Moves
  <1>6. CASE GetActiveMission(p)
    <2>1. CASE Return(p)
      BY <1>6, <2>1, Returns DEF GetActiveMission
    <2>2. CASE mission = "active" /\ Goto(p, "listing")
      <3>1. PICK c : c = [proc[p] EXCEPT !.pc = "listing"]
        OBVIOUS
      <3>2. c \in Calls
        BY <3>1, CallOf DEF Calls, PC
      <3>3. Quiet /\ proc' = [proc EXCEPT ![p] = c]
        BY <1>6, <2>2, <3>1 DEF GetActiveMission, Goto
      <3>4. Fits(c)'
        BY <2>2, <3>1, <3>2, <3>3 DEF Fits, Started, Calls
      <3>5. QED
        BY <3>2, <3>3, <3>4 DEF Moves
    <2>3. QED
      BY <1>6, <2>1, <2>2 DEF GetActiveMission
  <1>7. CASE ListMissionTasks(p)
    <2>1. CASE Return(p)
      BY <1>7, <2>1, Returns DEF ListMissionTasks
    <2>2. ASSUME NEW s \in {"completed", "failed"},
                 Call(p, [Idle EXCEPT !.pc = "updating", !.to = s])
          PROVE  Quiet /\ Moves(p)
      <3> DEFINE c == [Idle EXCEPT !.pc = "updating", !.to = s]
      <3>1. c \in Calls
        BY DEF Idle, Calls, PC, TaskStatuses
      <3>2. Quiet /\ proc' = [proc EXCEPT ![p] = c] /\ mission \in Started
        BY <1>7, <2>2, CallOf DEF ListMissionTasks, Call, At, Fits
      <3>3. Fits(c)'
        BY <3>2 DEF Fits, Idle
      <3>4. QED
        BY <3>1, <3>2, <3>3 DEF Moves
    <2>3. QED
      BY <1>7, <2>1, <2>2 DEF ListMissionTasks
  <1>8. CASE Crash(p)
    BY <1>8, Returns DEF Crash
  <1>9. QED
    BY <1>2, <1>3, <1>4, <1>5, <1>6, <1>7, <1>8

(* The steps that write, but for the recovery, which has no process.       *)
Writes(p) ==
  \/ \E q \in Proposed : SaveMissionPlan(p, q) \/ MaterializeMissionPlan(p, q)
  \/ SetMissionPendingApproval(p)
  \/ CreateApproval(p)
  \/ PatchApproval(p)
  \/ MarkMissionApproved(p)
  \/ GenericPatch(p)
  \/ ActivateMission(p)
  \/ \E s \in {"completed", "failed", "queued"} : FinishTask(p, s)
  \/ PatchTask(p)
  \/ UpdateMissionStatus(p)
  \/ \E k \in Keys : StartTask(p, k)

(* Every step is a read, a write or a recovery.                            *)
LEMMA StepCases ==
  ASSUME Whole, Next
  PROVE  \/ \E p \in Procs : Quiet /\ Moves(p)
         \/ (\E p \in Procs : Writes(p)) /\ env' = env
         \/ (\E k \in Keys : RecoverStale(k)) /\ env' = env
  <1>1. ASSUME NEW p \in Procs, Request(p) \/ Proceed(p) \/ Crash(p)
        PROVE  (Quiet /\ Moves(p)) \/ Writes(p)
    <2>1. env' = env
      BY DEF Next
    <2>2. CASE Request(p)
      BY <2>1, <2>2, Reads DEF Request, Writes
    <2>3. CASE Proceed(p)
      BY <2>1, <2>3, Reads DEF Proceed, Writes
    <2>4. CASE Crash(p)
      BY <2>1, <2>4, Reads
    <2>5. QED
      BY <1>1, <2>2, <2>3, <2>4
  <1>2. ASSUME NEW p \in Procs, NEW k \in Keys, StartTask(p, k)
        PROVE  Writes(p)
    BY <1>2 DEF Writes
  <1>3. QED
    BY <1>1, <1>2 DEF Next, Step

(* A process that goes on with only its label changed.                     *)
LEMMA GoesOn ==
  ASSUME Whole, NEW p \in Procs, NEW l \in PC, Goto(p, l), Advance,
         \A c \in Calls : c.pc = l /\ c.plan = proc[p].plan
                          /\ c.approval = proc[p].approval /\ c.to = proc[p].to
                          => Fits(c)'
  PROVE  Moves(p)
  <1>1. PICK c : c = [proc[p] EXCEPT !.pc = l]
    OBVIOUS
  <1>2. c \in Calls /\ c.pc = l /\ c.plan = proc[p].plan
        /\ c.approval = proc[p].approval /\ c.to = proc[p].to
    BY <1>1, CallOf DEF Calls
  <1>3. proc' = [proc EXCEPT ![p] = c]
    BY <1>1 DEF Goto
  <1>4. QED
    BY <1>2, <1>3 DEF Moves

(* What the writes of the proposal and of its approval preserve.           *)
LEMMA PlanWrites ==
  ASSUME Whole, NEW p \in Procs, env' = env,
         \/ \E q \in Proposed : SaveMissionPlan(p, q)
         \/ SetMissionPendingApproval(p)
         \/ CreateApproval(p)
         \/ PatchApproval(p)
         \/ MarkMissionApproved(p)
         \/ GenericPatch(p)
  PROVE  Advance /\ SharedTyped' /\ Graph' /\ Moves(p)
  <1> USE DEF Graph, Planned, GraphComplete, MissionTasks
  <1>1. SharedTyped /\ Graph /\ proc[p] \in Calls /\ Fits(proc[p])
    BY CallOf DEF Whole, TypeOK, SharedTyped
  <1>2. \A h \in Hashes : h # None
    BY SavedPlan
  <1>3. ASSUME NEW q \in Proposed, SaveMissionPlan(p, q)
        PROVE  Advance /\ SharedTyped' /\ Graph' /\ Moves(p)
    <2>1. Hash(q) \in Hashes
      BY <1>3 DEF SaveMissionPlan, Hashes
    <2>2. Advance
      BY <1>3 DEF SaveMissionPlan, Advance, Started
    <2>3. SharedTyped'
      BY <1>1, <1>3, <2>1 DEF SaveMissionPlan, SharedTyped, MissionStatuses
    <2>4. plan' = plan \/ DOMAIN approvals = {}
      <3>1. ASSUME plan = None, NEW i \in DOMAIN approvals
            PROVE  FALSE
        <4>1. approvals[i].plan \in Hashes
          BY <1>1, ApprovalTyped DEF ApprovalRows
        <4>2. QED
          BY <1>1, <1>2, <3>1, <4>1
      <3>2. QED
        BY <1>1, <1>3, <3>1 DEF SaveMissionPlan
    <2>5. Graph'
      BY <1>1, <1>2, <1>3, <2>1, <2>4 DEF SaveMissionPlan, Started
    <2>6. Moves(p)
      <3> DEFINE c == [Idle EXCEPT !.pc = "saved", !.plan = Hash(q)]
      <3>1. c \in Calls
        BY <2>1 DEF Idle, Calls, PC
      <3>2. proc' = [proc EXCEPT ![p] = c] /\ plan' = Hash(q)
        BY <1>3 DEF SaveMissionPlan, Call
      <3>3. Fits(c)'
        BY <3>2, <2>1, <1>2 DEF Fits, Idle
      <3>4. QED
        BY <3>1, <3>2, <3>3 DEF Moves
    <2>7. QED
      BY <2>2, <2>3, <2>5, <2>6
  <1>4. CASE SetMissionPendingApproval(p)
    <2>1. Advance
      BY <1>4 DEF SetMissionPendingApproval, Advance, Started
    <2>2. SharedTyped'
      BY <1>1, <1>4 DEF SetMissionPendingApproval, SharedTyped, MissionStatuses
    <2>3. Graph'
      BY <1>1, <1>4 DEF SetMissionPendingApproval, Started
    <2>4. plan # None /\ plan = proc[p].plan /\ plan' = plan
      BY <1>1, <1>4 DEF SetMissionPendingApproval, Fits, At
    <2>5. Moves(p)
      BY <1>4, <2>1, <2>4, GoesOn DEF SetMissionPendingApproval, PC, Fits
    <2>6. QED
      BY <2>1, <2>2, <2>3, <2>5
  <1>5. CASE CreateApproval(p)
    <2> DEFINE a == [status |-> "pending", plan |-> proc[p].plan]
    <2>1. proc[p].plan = plan /\ plan \in Hashes
      BY <1>1, <1>5 DEF CreateApproval, Fits, At, SharedTyped
    <2>2. /\ approvals' = Append(approvals, a)
          /\ UNCHANGED <<mission, plan, task>> /\ Return(p)
      BY <1>5 DEF CreateApproval
    <2>3. DOMAIN approvals \subseteq DOMAIN approvals'
      BY <1>1, <2>2 DEF SharedTyped
    <2>4. Advance
      BY <2>2, <2>3 DEF Advance
    <2>5. SharedTyped'
      BY <1>1, <2>1, <2>2 DEF SharedTyped
    <2>6. \A i \in DOMAIN approvals' : approvals'[i].plan = plan'
      BY <1>1, <2>1, <2>2 DEF SharedTyped
    <2>7. Graph'
      BY <1>1, <2>2, <2>6
    <2>8. QED
      BY <2>2, <2>4, <2>5, <2>7, Returns
  <1>6. ASSUME UNCHANGED <<mission, plan, task>>, proc[p].to \in Decisions,
               proc[p].approval \in DOMAIN approvals,
               approvals' = [approvals EXCEPT
                               ![proc[p].approval].status = proc[p].to]
        PROVE  Advance /\ SharedTyped' /\ Graph'
    <2>1. DOMAIN approvals' = DOMAIN approvals
          /\ \A i \in DOMAIN approvals : approvals'[i].plan = approvals[i].plan
      <3>1. \A i \in DOMAIN approvals : approvals[i] \in ApprovalRows
        BY <1>1, ApprovalTyped
      <3>2. QED
        BY <1>6, <3>1 DEF ApprovalRows
    <2>2. Advance
      BY <1>6, <2>1 DEF Advance
    <2>3. SharedTyped'
      <3> DEFINE i == proc[p].approval
                 v == [approvals[i] EXCEPT !.status = proc[p].to]
      <3>1. v \in ApprovalRows
        BY <1>1, <1>6, ApprovalTyped DEF ApprovalRows
      <3>2. [approvals EXCEPT ![i] = v] \in Seq(ApprovalRows)
        BY <1>1, <1>6, <3>1, ApprovalTyped, ReplacedElement
      <3>3. QED
        BY <1>1, <1>6, <3>2 DEF SharedTyped, ApprovalRows
    <2>4. Graph'
      BY <1>1, <1>6, <2>1
    <2>5. QED
      BY <2>2, <2>3, <2>4
  <1>7. CASE PatchApproval(p)
    <2>1. proc[p].to \in Decisions /\ proc[p].approval \in DOMAIN approvals
      BY <1>1, <1>7 DEF PatchApproval, At, Fits
    <2>2. Advance /\ SharedTyped' /\ Graph'
      BY <1>6, <1>7, <2>1 DEF PatchApproval
    <2>3. CASE proc[p].to = "approved" /\ Goto(p, "marking")
      <3>1. proc[p].approval \in DOMAIN approvals'
        BY <2>1, <2>2 DEF Advance
      <3>2. QED
        BY <2>1, <2>2, <2>3, <3>1, GoesOn DEF PC, Fits
    <2>4. CASE Return(p)
      BY <2>2, <2>4, Returns
    <2>5. QED
      BY <1>7, <2>2, <2>3, <2>4 DEF PatchApproval
  <1>8. CASE MarkMissionApproved(p)
    <2>1. Advance
      BY <1>8 DEF MarkMissionApproved, Advance, Started
    <2>2. SharedTyped'
      BY <1>1, <1>8 DEF MarkMissionApproved, SharedTyped, MissionStatuses
    <2>3. Graph'
      BY <1>1, <1>8 DEF MarkMissionApproved, Started
    <2>4. QED
      BY <1>8, <2>1, <2>2, <2>3, Returns DEF MarkMissionApproved
  <1>9. CASE GenericPatch(p)
    <2>1. proc[p].to \in Decisions /\ proc[p].approval \in DOMAIN approvals
      BY <1>1, <1>9 DEF GenericPatch, At, Fits
    <2>2. QED
      BY <1>6, <1>9, <2>1, Returns DEF GenericPatch
  <1>10. QED
    BY <1>3, <1>4, <1>5, <1>7, <1>8, <1>9

(* The tasks of a mission that has not started are all as created, those   *)
(* of one that has are all past it.                                        *)
LEMMA TasksByMission ==
  ASSUME Whole
  PROVE  /\ \A k \in Keys : task[k] \notin Untouched => mission \in Started
         /\ mission \in Started => \A k \in Keys : task[k] # "created"
         /\ mission # "cancelled" /\ mission \in MissionStatuses
  BY MissionAssumption
  DEF Whole, Graph, Planned, GraphComplete, MissionTasks, Untouched, Started,
      TypeOK, TaskStatuses

(* Moving a task that was offered to the workforce keeps the graph.        *)
LEMMA TaskMoves ==
  ASSUME Whole, NEW k \in Keys, NEW s \in TaskStatuses, s # "created",
         task[k] \notin Untouched, task' = [task EXCEPT ![k] = s],
         UNCHANGED <<mission, plan, approvals, env>>
  PROVE  Advance /\ SharedTyped' /\ Graph'
  <1>1. s # None /\ task \in [Keys -> TaskStatuses \cup {None}]
    BY MissionAssumption DEF Whole, TypeOK
  <1>2. Advance
    BY <1>1 DEF Advance, Untouched
  <1>3. SharedTyped'
    BY <1>1 DEF Whole, TypeOK, SharedTyped
  <1>4. MissionTasks' = MissionTasks
    BY <1>1 DEF MissionTasks, Untouched
  <1>5. Graph'
    <2>1. task[k] # "created" /\ k \in MissionTasks
      BY DEF Untouched, MissionTasks
    <2>2. \A j \in MissionTasks : task'[j] = "created" <=> task[j] = "created"
      BY <1>1, <2>1 DEF MissionTasks
    <2>3. QED
      BY <1>4, <2>2 DEF Whole, Graph, Planned, GraphComplete
  <1>6. QED
    BY <1>2, <1>3, <1>5

(* What the writes of the tasks and of the mission's end preserve.         *)
LEMMA TaskWrites ==
  ASSUME Whole, NEW p \in Procs, env' = env,
         \/ \E q \in Proposed : MaterializeMissionPlan(p, q)
         \/ ActivateMission(p)
         \/ \E s \in {"completed", "failed", "queued"} : FinishTask(p, s)
         \/ PatchTask(p)
         \/ UpdateMissionStatus(p)
         \/ \E k \in Keys : StartTask(p, k)
  PROVE  Advance /\ SharedTyped' /\ Graph' /\ Moves(p)
  <1>1. SharedTyped /\ Graph /\ proc[p] \in Calls /\ Fits(proc[p])
    BY CallOf DEF Whole, TypeOK, SharedTyped
  <1>2. "created" # None /\ "queued" # None
    BY MissionAssumption DEF TaskStatuses
  <1>3. ASSUME NEW q \in Proposed, MaterializeMissionPlan(p, q)
        PROVE  Advance /\ SharedTyped' /\ Graph' /\ Moves(p)
    <2>1. mission = "approved" /\ mission' = "materialized" /\ plan = Hash(q)
          /\ plan' = plan /\ approvals' = approvals
      BY <1>3 DEF MaterializeMissionPlan, Authorized
    <2>2. plan \in Hashes
      BY <1>1, <2>1 DEF SharedTyped, Graph, Planned
    <2>3. KeysOf(q) = TasksOf(plan) /\ KeysOf(q) \subseteq Keys
          /\ Edges(q) = DOMAIN plan.edges
      BY <2>1, <2>2, HashKeeps, SavedPlan
    <2>4. \A k \in Keys : task[k] = None
      BY <1>1, <2>1 DEF Graph, GraphComplete, MissionTasks
    <2>5. \A k \in Keys : task'[k] = IF k \in KeysOf(q) THEN "created" ELSE None
      BY <1>3, <2>4 DEF MaterializeMissionPlan
    <2>6. Advance
      BY <2>1, <2>4 DEF Advance, Untouched, Started
    <2>7. SharedTyped'
      BY <1>1, <1>3, <2>1 DEF SharedTyped, MaterializeMissionPlan,
                              MissionStatuses, TaskStatuses
    <2>8. MissionTasks' = TasksOf(plan)
      BY <1>2, <2>3, <2>5 DEF MissionTasks
    <2>9. GraphComplete'
      BY <1>2, <2>1, <2>3, <2>5, <2>8 DEF GraphComplete
    <2>10. Acyclic(TasksOf(plan), DOMAIN plan.edges)
      BY <1>3, <2>3 DEF MaterializeMissionPlan, Insertable
    <2>11. Planned'
      BY <1>1, <2>1, <2>2, <2>10, SavedPlan DEF Planned, Graph
    <2>12. Moves(p)
      <3> DEFINE c == [Idle EXCEPT !.pc = "activating"]
      <3>1. c \in Calls /\ Fits(c)'
        BY DEF Idle, Calls, PC, Fits
      <3>2. proc' = [proc EXCEPT ![p] = c]
        BY <1>3 DEF MaterializeMissionPlan, Call
      <3>3. QED
        BY <3>1, <3>2 DEF Moves
    <2>13. QED
      BY <2>6, <2>7, <2>9, <2>11, <2>12 DEF Graph
  <1>4. CASE ActivateMission(p)
    <2>1. Moves(p)
      BY <1>4, Returns DEF ActivateMission
    <2>2. plan' = plan /\ approvals' = approvals
      BY <1>4 DEF ActivateMission
    <2>3. CASE mission # "materialized"
      <3>1. UNCHANGED <<mission, task>>
        BY <1>4, <2>3 DEF ActivateMission
      <3>2. QED
        BY <1>1, <2>1, <2>2, <3>1
        DEF Advance, SharedTyped, Graph, Planned, GraphComplete, MissionTasks
    <2>4. CASE mission = "materialized"
      <3>1. /\ mission' = "active"
            /\ task' = [k \in Keys |-> IF task[k] = "created" THEN "queued"
                                       ELSE task[k]]
        BY <1>4, <2>4 DEF ActivateMission
      <3>2. Advance
        BY <2>2, <2>4, <3>1 DEF Advance, Untouched, Started
      <3>3. SharedTyped'
        BY <1>1, <2>2, <3>1 DEF SharedTyped, MissionStatuses, TaskStatuses
      <3>4. MissionTasks' = MissionTasks
        BY <1>2, <3>1 DEF MissionTasks
      <3>5. \A k \in Keys : task'[k] # "created"
        BY <3>1
      <3>6. QED
        BY <1>1, <2>1, <2>2, <2>4, <3>1, <3>2, <3>3, <3>4, <3>5
        DEF Graph, Planned, GraphComplete, Started, MissionTasks
    <2>5. QED
      BY <2>3, <2>4
  <1>5. ASSUME NEW s \in {"completed", "failed", "queued"}, FinishTask(p, s)
        PROVE  Advance /\ SharedTyped' /\ Graph' /\ Moves(p)
    <2>1. /\ proc[p].key \in Keys /\ task[proc[p].key] \notin Untouched
          /\ UNCHANGED <<mission, plan, approvals>>
      BY <1>1, <1>5 DEF FinishTask, At, Fits
    <2>2. Moves(p)
      <3> DEFINE c == [Idle EXCEPT !.pc = "reconciling"]
      <3>1. c \in Calls /\ Fits(c)'
        BY DEF Idle, Calls, PC, Fits
      <3>2. proc' = [proc EXCEPT ![p] = c]
        BY <1>5 DEF FinishTask, Call
      <3>3. QED
        BY <3>1, <3>2 DEF Moves
    <2>3. CASE task' = task
      BY <1>1, <2>1, <2>2, <2>3
      DEF Advance, SharedTyped, Graph, Planned, GraphComplete, MissionTasks
    <2>4. CASE task' = [task EXCEPT ![proc[p].key] = s]
      BY <2>1, <2>2, <2>4, TaskMoves DEF TaskStatuses
    <2>5. QED
      BY <1>5, <2>3, <2>4 DEF FinishTask
  <1>6. CASE PatchTask(p)
    <2>1. /\ proc[p].key \in Keys /\ task[proc[p].key] \notin Untouched
          /\ proc[p].to \in {"queued", "cancelled"}
      BY <1>1, <1>6 DEF PatchTask, At, Fits
    <2>2. Advance /\ SharedTyped' /\ Graph'
      BY <1>6, <2>1, TaskMoves DEF PatchTask, TaskStatuses
    <2>3. QED
      BY <1>6, <2>2, Returns DEF PatchTask
  <1>7. CASE UpdateMissionStatus(p)
    <2>1. /\ mission \in Started /\ mission' \in {"completed", "failed"}
          /\ UNCHANGED <<plan, approvals, task>> /\ Return(p)
      BY <1>1, <1>7 DEF UpdateMissionStatus, At, Fits
    <2>2. Advance /\ SharedTyped'
      BY <1>1, <2>1 DEF Advance, SharedTyped, Started, MissionStatuses
    <2>3. Graph'
      BY <1>1, <2>1 DEF Graph, Planned, GraphComplete, MissionTasks, Started
    <2>4. QED
      BY <2>1, <2>2, <2>3, Returns
  <1>8. ASSUME NEW k \in Keys, StartTask(p, k)
        PROVE  Advance /\ SharedTyped' /\ Graph' /\ Moves(p)
    <2>1. task[k] \notin Untouched
      BY <1>2, <1>8 DEF StartTask, Untouched
    <2>2. Advance /\ SharedTyped' /\ Graph'
      BY <1>8, <2>1, TaskMoves DEF StartTask, TaskStatuses
    <2>3. Moves(p)
      <3> DEFINE c == [Idle EXCEPT !.pc = "running", !.key = k]
      <3>1. c \in Calls
        BY DEF Idle, Calls, PC
      <3>2. proc' = [proc EXCEPT ![p] = c] /\ task'[k] \notin Untouched
        BY <1>8, <2>1, <2>2 DEF StartTask, Call, Advance
      <3>3. Fits(c)'
        BY <3>2 DEF Fits, Idle
      <3>4. QED
        BY <3>1, <3>2, <3>3 DEF Moves
    <2>4. QED
      BY <2>2, <2>3
  <1>9. QED
    BY <1>3, <1>4, <1>5, <1>6, <1>7, <1>8

(* The first layer is preserved.                                           *)
LEMMA WholeNext ==
  ASSUME Whole, [Next]_vars
  PROVE  Whole'
  <1>1. CASE UNCHANGED vars
    BY <1>1 DEF vars, Whole, TypeOK, Graph, Planned, GraphComplete,
                MissionTasks, Fits, Approvable
  <1>2. ASSUME NEW p \in Procs, Quiet /\ Moves(p)
        PROVE  Whole'
    BY <1>2, QuietStep
  <1>3. ASSUME NEW p \in Procs, Writes(p), env' = env
        PROVE  Whole'
    <2>1. Advance /\ SharedTyped' /\ Graph' /\ Moves(p)
      BY <1>3, PlanWrites, TaskWrites DEF Writes
    <2>2. QED
      BY <2>1, WholeStep
  <1>4. ASSUME NEW k \in Keys, RecoverStale(k), env' = env
        PROVE  Whole'
    <2>1. task[k] \notin Untouched
      BY <1>4, MissionAssumption DEF RecoverStale, Untouched, TaskStatuses
    <2>2. Advance /\ SharedTyped' /\ Graph' /\ proc' = proc
      BY <1>4, <2>1, TaskMoves DEF RecoverStale, TaskStatuses
    <2>3. QED
      BY <2>2, WholeStep
  <1>5. QED
    BY <1>1, <1>2, <1>3, <1>4, StepCases

(* The first layer holds at the start.                                     *)
LEMMA WholeInit ==
  ASSUME Init
  PROVE  Whole
  <1>1. TypeOK
    BY IdleFits DEF Init, TypeOK, MissionStatuses
  <1>2. Graph
    BY DEF Init, Graph, Planned, GraphComplete, MissionTasks, Started
  <1>3. \A p \in Procs : Fits(proc[p])
    BY DEF Init, Fits, Idle
  <1>4. QED
    BY <1>1, <1>2, <1>3 DEF Whole

(* Whatever proposals, decisions, materializers and crashes interleave,    *)
(* the first layer holds in every state of a mission.                      *)
THEOREM MissionInvariant == Spec => []Whole
  <1>1. Init => Whole
    BY WholeInit
  <1>2. Whole /\ [Next]_vars => Whole'
    BY WholeNext
  <1>3. QED
    BY <1>1, <1>2, PTL DEF Spec

(* The graph of a mission is there whole or not at all, and is offered to  *)
(* the workforce whole or not at all (materializeMissionPlan,              *)
(* activateMission of src/db/repo.ts).                                     *)
THEOREM GraphIsComplete == Spec => []GraphComplete
  <1>1. Whole => GraphComplete
    BY DEF Whole, Graph
  <1>2. QED
    BY <1>1, MissionInvariant, PTL

(* A mission has a task to run until all are completed, failed or          *)
(* cancelled: no plan that was accepted can block itself.                  *)
THEOREM WorkAlwaysRemains == Spec => []WorkRemains
  <1>1. Whole => WorkRemains
    <2> SUFFICES ASSUME Whole, mission = "active", ~MissionCompleted
                 PROVE  \E k \in MissionTasks : task[k] # "completed" /\ Ready(k)
      BY DEF WorkRemains
    <2>1. /\ MissionTasks = TasksOf(plan) /\ plan \in Hashes
          /\ Acyclic(TasksOf(plan), DOMAIN plan.edges)
      BY DEF Whole, Graph, GraphComplete, Planned, TypeOK, Started
    <2> DEFINE open == {k \in MissionTasks : task[k] # "completed"}
    <2>2. open \in (SUBSET TasksOf(plan)) \ {{}}
      <3>1. MissionTasks # {}
        BY <2>1, SavedPlan
      <3>2. \E k \in MissionTasks : task[k] # "completed"
        BY <3>1 DEF MissionCompleted
      <3>3. open \subseteq TasksOf(plan) /\ open # {}
        BY <2>1, <3>2
      <3>4. QED
        BY <3>3
    <2>3. PICK k \in open : PrerequisitesOf(k, DOMAIN plan.edges) \cap open = {}
      BY <2>1, <2>2 DEF Acyclic
    <2>4. PrerequisitesOf(k, DOMAIN plan.edges) \subseteq TasksOf(plan)
      BY <2>1, SavedPlan DEF PrerequisitesOf
    <2>5. Ready(k)
      BY <2>1, <2>3, <2>4 DEF Ready, Prerequisites
    <2>6. QED
      BY <2>3, <2>5
  <1>2. QED
    BY <1>1, MissionInvariant, PTL

(***************************************************************************)
(* The second layer: how a mission ends.                                   *)
(***************************************************************************)

(* A task that ended for good.                                             *)
Ended(k, s) == k \notin Approvable /\ task[k] = s

(* What the tasks of a mission with that outcome look like.                *)
Outcome(s) ==
  /\ s = "completed" => \A k \in MissionTasks \ Approvable : task[k] = "completed"
  /\ s = "failed" /\ Approvable = {} => MissionFailed

Settled ==
  /\ Outcome(mission)
  /\ \A p \in Procs : At(p, "updating") => Outcome(proc[p].to)

(* No step takes up again a task that is completed or failed, unless it    *)
(* raised an approval of its own.                                          *)
LEMMA EndedStays ==
  ASSUME Whole, Next, NEW k \in Keys, NEW s \in {"completed", "failed"},
         Ended(k, s)
  PROVE  Ended(k, s)'
  <1>1. env' = env /\ task \in [Keys -> TaskStatuses \cup {None}]
    BY DEF Next, Whole, TypeOK
  <1>2. task[k] \notin {None, "created", "queued", "running"}
    BY MissionAssumption DEF Ended, TaskStatuses
  <1>3. task'[k] = task[k]
    <2>1. CASE Quiet
      BY <2>1 DEF Quiet
    <2>2. ASSUME NEW p \in Procs, Writes(p)
          PROVE  task'[k] = task[k]
      <3>1. CASE \E q \in Proposed : MaterializeMissionPlan(p, q)
        <4>1. mission = "approved"
          BY <3>1 DEF MaterializeMissionPlan, Authorized
        <4>2. QED
          BY <1>2, <4>1 DEF Whole, Graph, GraphComplete, MissionTasks
      <3>2. CASE PatchTask(p)
        <4>1. proc[p].key \in Approvable
          BY <3>2, CallOf DEF PatchTask, At, Fits
        <4>2. QED
          BY <1>1, <3>2, <4>1 DEF PatchTask, Ended
      <3>3. CASE ActivateMission(p)
        BY <1>2, <3>3 DEF ActivateMission
      <3>4. CASE \E u \in {"completed", "failed", "queued"} : FinishTask(p, u)
        BY <1>1, <1>2, <3>4 DEF FinishTask
      <3>5. CASE \E j \in Keys : StartTask(p, j)
        BY <1>1, <1>2, <3>5 DEF StartTask
      <3>6. QED
        BY <2>2, <3>1, <3>2, <3>3, <3>4, <3>5
        DEF Writes, SaveMissionPlan, SetMissionPendingApproval, CreateApproval,
            PatchApproval, MarkMissionApproved, GenericPatch, UpdateMissionStatus
    <2>3. ASSUME NEW j \in Keys, RecoverStale(j)
          PROVE  task'[k] = task[k]
      BY <1>1, <1>2, <2>3 DEF RecoverStale
    <2>4. QED
      BY <2>1, <2>2, <2>3, StepCases
  <1>4. QED
    BY <1>1, <1>3 DEF Ended, Approvable

(* The tasks of a mission that has started stay the same.                  *)
LEMMA TasksStay ==
  ASSUME Whole, Whole', Next, mission \in Started
  PROVE  MissionTasks' = MissionTasks
  <1>1. mission' \in Started /\ plan' = plan
    <2>1. CASE Quiet
      BY <2>1 DEF Quiet
    <2>2. ASSUME NEW p \in Procs, Writes(p), env' = env
          PROVE  Advance
      BY <2>2, PlanWrites, TaskWrites DEF Writes
    <2>3. ASSUME NEW k \in Keys, RecoverStale(k)
          PROVE  UNCHANGED <<mission, plan>>
      BY <2>3 DEF RecoverStale
    <2>4. plan # None
      BY DEF Whole, Graph, Planned, Started
    <2>5. QED
      BY <2>1, <2>2, <2>3, <2>4, StepCases DEF Advance
  <1>2. QED
    BY <1>1 DEF Whole, Graph, GraphComplete, Started

(* An outcome seen once the mission has started stays true.                *)
LEMMA OutcomeStays ==
  ASSUME Whole, Whole', Next, mission \in Started,
         NEW s \in {"completed", "failed"}, Outcome(s)
  PROVE  Outcome(s)'
  <1>1. MissionTasks' = MissionTasks /\ Approvable' = Approvable
    BY TasksStay DEF Next, Approvable
  <1>2. MissionTasks \subseteq Keys
    BY DEF MissionTasks
  <1>3. CASE s = "completed"
    <2>1. \A k \in MissionTasks \ Approvable : Ended(k, "completed")
      BY <1>3 DEF Outcome, Ended
    <2>2. \A k \in MissionTasks \ Approvable : Ended(k, "completed")'
      BY <1>2, <2>1, EndedStays
    <2>3. QED
      BY <1>1, <1>3, <2>2 DEF Outcome, Ended
  <1>4. CASE s = "failed"
    <2>1. ASSUME Approvable = {}
          PROVE  MissionFailed'
      <3>1. PICK k \in MissionTasks : Ended(k, "failed")
        BY <1>4, <2>1 DEF Outcome, MissionFailed, Ended
      <3>2. Ended(k, "failed")'
        BY <1>2, <3>1, EndedStays
      <3>3. QED
        BY <1>1, <3>1, <3>2 DEF MissionFailed, Ended
    <2>2. QED
      BY <1>1, <1>4, <2>1 DEF Outcome
  <1>5. QED
    BY <1>3, <1>4

(* A mission is ended only by the reconciler that saw its outcome, and     *)
(* otherwise moves along its lifecycle.                                    *)
Ends(p) == At(p, "updating") /\ mission' = proc[p].to

Steady ==
  \/ mission' = mission
  \/ {mission, mission'} \subseteq {"draft", "pending_approval"}
  \/ /\ mission' \in Lifecycle[mission]
     /\ mission' \notin {"completed", "failed"}

(* Each step ends the mission or leaves it on its way.                     *)
LEMMA MissionMoves ==
  ASSUME Whole, Next
  PROVE  Steady \/ \E p \in Procs : Ends(p)
  <1>1. CASE Quiet
    BY <1>1 DEF Quiet, Steady
  <1>2. ASSUME NEW p \in Procs, Writes(p)
        PROVE  Steady \/ Ends(p)
    <2>1. CASE \E q \in Proposed : SaveMissionPlan(p, q)
      BY <2>1 DEF SaveMissionPlan, Steady
    <2>2. CASE SetMissionPendingApproval(p)
      BY <2>2 DEF SetMissionPendingApproval, Steady
    <2>3. CASE MarkMissionApproved(p)
      BY <2>3 DEF MarkMissionApproved, Steady, Lifecycle
    <2>4. CASE \E q \in Proposed : MaterializeMissionPlan(p, q)
      BY <2>4 DEF MaterializeMissionPlan, Authorized, Steady, Lifecycle
    <2>5. CASE ActivateMission(p)
      BY <2>5 DEF ActivateMission, Steady, Lifecycle
    <2>6. CASE UpdateMissionStatus(p)
      BY <2>6 DEF UpdateMissionStatus, Ends
    <2>7. QED
      BY <1>2, <2>1, <2>2, <2>3, <2>4, <2>5, <2>6
      DEF Writes, CreateApproval, PatchApproval, GenericPatch, FinishTask,
          PatchTask, StartTask, Steady
  <1>3. ASSUME NEW k \in Keys, RecoverStale(k)
        PROVE  Steady
    BY <1>3 DEF RecoverStale, Steady
  <1>4. QED
    BY <1>1, <1>2, <1>3, StepCases

(* A process about to end the mission has just seen its outcome or saw it  *)
(* before this step.                                                       *)
LEMMA UpdatingSaw ==
  ASSUME Whole, Next, NEW r \in Procs, At(r, "updating")'
  PROVE  \/ At(r, "updating") /\ proc'[r] = proc[r]
         \/ /\ Outcome(proc'[r].to)
            /\ UNCHANGED <<mission, task, env>>
  <1>1. proc \in [Procs -> Calls] /\ \A p \in Procs : proc[p] \in [pc : PC,
          plan : Hashes \cup {None}, approval : Nat, key : Keys \cup {None},
          to : TaskStatuses \cup Decisions \cup {"none"}]
    BY DEF Whole, TypeOK, Calls
  <1>2. env' = env
    BY DEF Next
  <1>3. ASSUME NEW p \in Procs, Request(p) \/ Proceed(p) \/ Crash(p),
               p = r, ~ListMissionTasks(p)
        PROVE  FALSE
    <2>1. proc'[p].pc = "updating"
      BY <1>3 DEF At
    <2>2. CASE Request(p)
      <3>1. ASSUME NEW c, Call(p, c), c.pc # "updating"
            PROVE  FALSE
        BY <1>1, <2>1, <3>1 DEF Call
      <3>2. CASE \E q \in Proposed :
                   SaveMissionPlan(p, q) \/ MaterializeMissionPlan(p, q)
        BY <3>1, <3>2 DEF SaveMissionPlan, MaterializeMissionPlan, Idle
      <3>3. CASE \E i \in DOMAIN approvals, d \in Decisions :
                   LoadMission(p, i, d) \/ GenericDecision(p, i, d)
        BY <3>1, <3>3 DEF LoadMission, GenericDecision, Idle
      <3>4. CASE AlreadyMaterialized(p) \/ Reconcile(p)
        BY <3>1, <3>4 DEF AlreadyMaterialized, Reconcile, Idle
      <3>5. CASE \E k \in Keys, target \in {"queued", "cancelled"} :
                   ContinueApprovedTask(p, k, target)
        BY <3>1, <3>5 DEF ContinueApprovedTask, Idle
      <3>6. QED
        BY <2>2, <3>2, <3>3, <3>4, <3>5 DEF Request
    <2>3. CASE Proceed(p)
      BY <1>1, <1>3, <2>1, <2>3
      DEF Proceed, SetMissionPendingApproval, CreateApproval, CheckApproval,
          PatchApproval, MarkMissionApproved, GenericPatch, ActivateMission,
          FinishTask, PatchTask, GetActiveMission, UpdateMissionStatus,
          Call, Goto, Return, Idle
    <2>4. CASE Crash(p)
      BY <1>1, <2>1, <2>4 DEF Crash, Return, Idle
    <2>5. QED
      BY <1>3, <2>2, <2>3, <2>4
  <1>4. CASE ListMissionTasks(r)
    <2>1. PICK s \in {"completed", "failed"} :
            /\ Call(r, [Idle EXCEPT !.pc = "updating", !.to = s])
            /\ s = "completed" => MissionCompleted
            /\ s = "failed" => MissionFailed
      BY <1>1, <1>4 DEF ListMissionTasks, Return, Idle, At
    <2>2. proc'[r].to = s
      BY <1>1, <2>1 DEF Call, Idle
    <2>3. Outcome(s)
      BY <2>1 DEF Outcome, MissionCompleted
    <2>4. UNCHANGED <<mission, task>>
      BY <1>4 DEF ListMissionTasks
    <2>5. QED
      BY <1>2, <2>2, <2>3, <2>4
  <1>5. ASSUME NEW p \in Procs, p # r,
               \/ Request(p) \/ Proceed(p) \/ Crash(p)
               \/ \E k \in Keys : StartTask(p, k)
        PROVE  proc'[r] = proc[r]
    <2>1. ASSUME NEW c, proc' = [proc EXCEPT ![p] = c]
          PROVE  proc'[r] = proc[r]
      BY <1>1, <1>5, <2>1
    <2>2. CASE Request(p)
      BY <2>1, <2>2
      DEF Request, SaveMissionPlan, MaterializeMissionPlan, LoadMission,
          GenericDecision, AlreadyMaterialized, ContinueApprovedTask, Reconcile,
          Call
    <2>3. CASE Proceed(p)
      BY <1>1, <1>5, <2>3
      DEF Proceed, SetMissionPendingApproval, CreateApproval, CheckApproval,
          PatchApproval, MarkMissionApproved, GenericPatch, ActivateMission,
          FinishTask, PatchTask, GetActiveMission, ListMissionTasks,
          UpdateMissionStatus, Call, Goto, Return
    <2>4. CASE Crash(p) \/ \E k \in Keys : StartTask(p, k)
      BY <2>1, <2>4 DEF Crash, StartTask, Return, Call
    <2>5. QED
      BY <1>5, <2>2, <2>3, <2>4
  <1>6. ASSUME NEW k \in Keys, StartTask(r, k)
        PROVE  FALSE
    BY <1>1, <1>6 DEF StartTask, Call, Idle, At
  <1>7. ASSUME NEW k \in Keys, RecoverStale(k)
        PROVE  proc' = proc
    BY <1>7 DEF RecoverStale
  <1>8. (At(r, "updating") /\ proc'[r] = proc[r])
          \/ proc'[r] # proc[r]
    BY DEF At
  <1>9. QED
    BY <1>3, <1>4, <1>5, <1>6, <1>7, <1>8 DEF Next, Step

(* The second layer is preserved.                                          *)
LEMMA SettledNext ==
  ASSUME Whole, Whole', Settled, [Next]_vars
  PROVE  Settled'
  <1>1. CASE UNCHANGED vars
    BY <1>1 DEF vars, Settled, Outcome, MissionTasks, MissionFailed, Approvable, At
  <1>2. CASE Next
    <2>1. Outcome(mission)'
      <3>1. PICK m : m = mission'
        OBVIOUS
      <3>2. CASE m \notin {"completed", "failed"}
        BY <3>1, <3>2 DEF Outcome
      <3>3. CASE m \in {"completed", "failed"}
        <4>1. mission \in Started /\ Outcome(m)
          <5>1. CASE Steady
            <6>1. mission' = mission
              BY <3>1, <3>3, <5>1 DEF Steady
            <6>2. QED
              BY <3>1, <3>3, <6>1 DEF Settled, Started
          <5>2. ASSUME NEW p \in Procs, Ends(p)
                PROVE  mission \in Started /\ Outcome(m)
            BY <3>1, <5>2, CallOf DEF Ends, Settled, At, Fits
          <5>3. QED
            BY <1>2, <5>1, <5>2, MissionMoves
        <4>2. Outcome(m)'
          BY <1>2, <3>3, <4>1, OutcomeStays
        <4>3. QED
          BY <3>1, <4>2 DEF Outcome
      <3>4. QED
        BY <3>2, <3>3
    <2>2. ASSUME NEW r \in Procs, At(r, "updating")'
          PROVE  Outcome(proc[r].to)'
      <3>1. PICK s : s = proc'[r].to
        OBVIOUS
      <3>2. CASE At(r, "updating") /\ proc'[r] = proc[r]
        <4>1. /\ Outcome(s) /\ s \in {"completed", "failed"}
              /\ mission \in Started
          BY <3>1, <3>2, CallOf DEF Settled, At, Fits
        <4>2. Outcome(s)'
          BY <1>2, <4>1, OutcomeStays
        <4>3. QED
          BY <3>1, <4>2 DEF Outcome
      <3>3. CASE Outcome(proc'[r].to) /\ UNCHANGED <<mission, task, env>>
        BY <3>3 DEF Outcome, MissionTasks, MissionFailed, Approvable
      <3>4. QED
        BY <1>2, <2>2, <3>2, <3>3, UpdatingSaw
    <2>3. QED
      BY <2>1, <2>2 DEF Settled
  <1>3. QED
    BY <1>1, <1>2

(* In every state the outcome of a mission is that of its tasks.           *)
LEMMA SettledInvariant == Spec => [](Whole /\ Settled)
  <1>1. Init => Whole /\ Settled
    <2>1. ASSUME Init
          PROVE  Settled
      BY <2>1 DEF Init, Settled, Outcome, At, Idle
    <2>2. QED
      BY <2>1, WholeInit
  <1>2. Whole /\ Settled /\ [Next]_vars => (Whole /\ Settled)'
    BY WholeNext, SettledNext
  <1>3. QED
    BY <1>1, <1>2, PTL DEF Spec

(* A completed mission has only completed tasks, although the reconciler   *)
(* that completed it had read them some time before                        *)
(* (reconcileMissionTerminalState of src/db/repo.ts).                      *)
THEOREM CompletionIsDone == Spec => []CompletedMeansDone
  <1>1. Settled => CompletedMeansDone
    BY DEF Settled, Outcome, CompletedMeansDone
  <1>2. QED
    BY <1>1, SettledInvariant, PTL

(* From its approval on, a mission only moves along the lifecycle          *)
(* (MISSION_LIFECYCLE of src/core/mission/missionEngine.ts), though *)
(* the writes of src/db/repo.ts do not consult it.                         *)
THEOREM LifecycleHolds == Spec => MissionAdvances
  <1> DEFINE Along == \/ mission' = mission
                      \/ Approvable # {}
                      \/ {mission, mission'} \subseteq {"draft", "pending_approval"}
                      \/ mission' \in Lifecycle[mission]
  <1>1. ASSUME Whole, Settled, Next
        PROVE  Along
    <2>1. CASE Steady
      BY <2>1 DEF Steady
    <2>2. ASSUME NEW p \in Procs, Ends(p), Approvable = {}
          PROVE  Along
      <3> DEFINE m == proc[p].to
      <3>1. /\ mission \in Started /\ m \in {"completed", "failed"}
            /\ Outcome(m) /\ Outcome(mission) /\ mission' = m
        BY <1>1, <2>2, CallOf DEF Ends, Settled, At, Fits
      <3>2. CASE mission = "active"
        BY <3>1, <3>2 DEF Lifecycle
      <3>3. ASSUME Outcome("completed"), Outcome("failed")
            PROVE  FALSE
        BY <2>2, <3>3 DEF Outcome, MissionFailed
      <3>4. QED
        BY <3>1, <3>2, <3>3 DEF Started
    <2>3. QED
      BY <1>1, <2>1, <2>2, MissionMoves
  <1>2. Whole /\ Settled /\ [Next]_vars => [Along]_vars
    BY <1>1
  <1>3. QED
    BY <1>2, SettledInvariant, PTL DEF Spec, MissionAdvances

(***************************************************************************)
(* The third layer: the owner's consent, when one process decides.         *)
(***************************************************************************)

Acts(p) ==
  Request(p) \/ Proceed(p) \/ Crash(p) \/ \E k \in Keys : StartTask(p, k)

DecisionSteps == {"loaded", "deciding", "marking", "generic"}

(* What a process that decides knows of its approval.                      *)
Heeds(p) ==
  LET c == proc[p]
  IN  /\ c.pc \in DecisionSteps => p \in Deciders
      /\ c.pc \in {"deciding", "generic"} => approvals[c.approval].status = "pending"
      /\ c.pc = "marking" => approvals[c.approval].status = "approved"

Approved == \E i \in DOMAIN approvals : approvals[i].status = "approved"

Consented ==
  Cardinality(Deciders) <= 1 =>
    (\A p \in Procs : Heeds(p)) /\ (Executable => Approved)

(* Two processes that decide are the same one.                             *)
LEMMA OneDecider ==
  ASSUME Whole, Cardinality(Deciders) <= 1, NEW p \in Deciders, NEW r \in Deciders
  PROVE  p = r
  <1>1. IsFiniteSet(Deciders)
    <2>1. Deciders \subseteq Procs
      BY MissionAssumption DEF Whole, TypeOK, Deciders
    <2>2. QED
      BY <2>1, FS_Subset, MissionAssumption
  <1>2. ASSUME p # r
        PROVE  FALSE
    <2>1. IsFiniteSet({p}) /\ Cardinality({p}) = 1
      BY FS_Singleton
    <2>2. Cardinality({p} \cup {r}) = 2
      BY <1>2, <2>1, FS_AddElement
    <2>3. {p} \cup {r} \subseteq Deciders
      OBVIOUS
    <2>4. Cardinality({p} \cup {r}) <= Cardinality(Deciders)
      BY <1>1, <2>3, FS_Subset
    <2>5. Cardinality(Deciders) \in Nat
      BY <1>1, FS_CardinalityType
    <2>6. QED
      BY <2>2, <2>4, <2>5
  <1>3. QED
    BY <1>2

(* A step of one process leaves the others where they are.                 *)
LEMMA OneMoves ==
  ASSUME Whole, NEW p \in Procs, Acts(p), env' = env
  PROVE  Moves(p)
  BY Reads, PlanWrites, TaskWrites DEF Acts, Request, Proceed

(* A step changes at most the approval its process decides on.             *)
LEMMA ApprovalsKept ==
  ASSUME Whole, NEW p \in Procs, Acts(p), NEW i \in DOMAIN approvals
  PROVE  /\ i \in DOMAIN approvals'
         /\ \/ approvals'[i] = approvals[i]
            \/ proc[p].pc \in {"deciding", "generic"} /\ i = proc[p].approval
  <1>1. approvals \in Seq(ApprovalRows)
    BY ApprovalTyped DEF Whole, TypeOK, SharedTyped
  <1>2. CASE approvals' = approvals
    BY <1>2
  <1>3. CASE CreateApproval(p)
    BY <1>1, <1>3 DEF CreateApproval
  <1>4. CASE PatchApproval(p) \/ GenericPatch(p)
    BY <1>1, <1>4 DEF PatchApproval, GenericPatch, At
  <1>5. CASE Request(p)
    BY <1>2, <1>5
    DEF Request, SaveMissionPlan, MaterializeMissionPlan, LoadMission,
        GenericDecision, AlreadyMaterialized, ContinueApprovedTask, Reconcile
  <1>6. CASE Proceed(p)
    BY <1>2, <1>3, <1>4, <1>6
    DEF Proceed, SetMissionPendingApproval, CheckApproval, MarkMissionApproved,
        ActivateMission, FinishTask, PatchTask, GetActiveMission,
        ListMissionTasks, UpdateMissionStatus
  <1>7. CASE Crash(p) \/ \E k \in Keys : StartTask(p, k)
    BY <1>2, <1>7 DEF Crash, StartTask
  <1>8. QED
    BY <1>5, <1>6, <1>7 DEF Acts

(* Which steps take a process to a decision.                               *)
LEMMA DecisionStepsOf ==
  ASSUME Whole, NEW p \in Procs, Acts(p), proc'[p].pc \in DecisionSteps
  PROVE  \/ \E i \in DOMAIN approvals, d \in Decisions :
              LoadMission(p, i, d) \/ GenericDecision(p, i, d)
         \/ CheckApproval(p)
         \/ PatchApproval(p)
  <1>1. proc \in [Procs -> Calls]
    BY DEF Whole, TypeOK
  <1>2. ASSUME NEW c, proc' = [proc EXCEPT ![p] = c], c.pc \notin DecisionSteps
        PROVE  FALSE
    BY <1>1, <1>2
  <1>3. CASE Request(p)
    <2>1. ASSUME \E q \in Proposed :
                   SaveMissionPlan(p, q) \/ MaterializeMissionPlan(p, q)
          PROVE  FALSE
      BY <1>2, <2>1
      DEF SaveMissionPlan, MaterializeMissionPlan, Call, Idle, DecisionSteps
    <2>2. ASSUME AlreadyMaterialized(p) \/ Reconcile(p)
          PROVE  FALSE
      BY <1>2, <2>2 DEF AlreadyMaterialized, Reconcile, Call, Idle, DecisionSteps
    <2>3. ASSUME \E k \in Keys, target \in {"queued", "cancelled"} :
                   ContinueApprovedTask(p, k, target)
          PROVE  FALSE
      BY <1>2, <2>3 DEF ContinueApprovedTask, Call, Idle, DecisionSteps
    <2>4. QED
      BY <1>3, <2>1, <2>2, <2>3 DEF Request
  <1>4. CASE Proceed(p)
    <2>1. ~Return(p)
      BY <1>2 DEF Return, Idle, DecisionSteps
    <2>2. \A l \in PC \ DecisionSteps : ~Goto(p, l)
      <3>1. proc[p] \in [pc : PC, plan : Hashes \cup {None}, approval : Nat,
                         key : Keys \cup {None},
                         to : TaskStatuses \cup Decisions \cup {"none"}]
        BY <1>1 DEF Calls
      <3>2. ASSUME NEW l \in PC \ DecisionSteps, Goto(p, l)
            PROVE  FALSE
        <4>1. PICK c : c = [proc[p] EXCEPT !.pc = l]
          OBVIOUS
        <4>2. c.pc = l /\ proc' = [proc EXCEPT ![p] = c]
          BY <3>1, <3>2, <4>1 DEF Goto
        <4>3. QED
          BY <1>2, <3>2, <4>2
      <3>3. QED
        BY <3>2
    <2>3. ASSUME \E s \in {"completed", "failed", "queued"} : FinishTask(p, s)
          PROVE  FALSE
      BY <1>2, <2>3 DEF FinishTask, Call, Idle, DecisionSteps
    <2>4. ASSUME ListMissionTasks(p)
          PROVE  FALSE
      BY <1>2, <2>1, <2>4 DEF ListMissionTasks, Call, Idle, DecisionSteps
    <2>5. ASSUME SetMissionPendingApproval(p) \/ GetActiveMission(p)
          PROVE  FALSE
      BY <2>1, <2>2, <2>5
      DEF SetMissionPendingApproval, GetActiveMission, PC, DecisionSteps
    <2>6. QED
      BY <1>4, <2>1, <2>3, <2>4, <2>5
      DEF Proceed, CreateApproval, MarkMissionApproved, GenericPatch,
          ActivateMission, PatchTask, UpdateMissionStatus
  <1>5. CASE Crash(p) \/ \E k \in Keys : StartTask(p, k)
    BY <1>2, <1>5 DEF Crash, StartTask, Return, Call, Idle, DecisionSteps
  <1>6. QED
    BY <1>3, <1>4, <1>5 DEF Acts

(* The third layer is preserved.                                           *)
LEMMA ConsentedNext ==
  ASSUME Whole, Whole', Consented, [Next]_vars
  PROVE  Consented'
  <1>1. CASE UNCHANGED vars
    BY <1>1 DEF vars, Consented, Heeds, Approved, Executable, Deciders
  <1>2. ASSUME Next, Cardinality(Deciders) <= 1
        PROVE  (\A r \in Procs : Heeds(r)') /\ (Executable => Approved)'
    <2>1. /\ env' = env /\ Deciders' = Deciders
          /\ \A r \in Procs : Heeds(r)
          /\ Executable => Approved
          /\ proc \in [Procs -> Calls]
      BY <1>2 DEF Next, Consented, Deciders, Whole, TypeOK
    <2>2. ASSUME NEW p \in Procs, Acts(p), NEW r \in Procs \ {p}
          PROVE  Heeds(r)'
      <3>1. proc'[r] = proc[r]
        BY <2>1, <2>2, OneMoves DEF Moves
      <3>2. CASE proc[r].pc \notin DecisionSteps
        BY <3>1, <3>2 DEF Heeds, DecisionSteps
      <3>3. CASE proc[r].pc \in DecisionSteps
        <4>1. r \in Deciders /\ proc[r].approval \in DOMAIN approvals
          BY <2>1, <3>3, CallOf DEF Heeds, Fits, DecisionSteps
        <4>2. proc[p].pc \notin DecisionSteps
          BY <1>2, <2>1, <2>2, <4>1, OneDecider DEF Heeds
        <4>3. approvals'[proc[r].approval] = approvals[proc[r].approval]
          BY <2>2, <4>1, <4>2, ApprovalsKept DEF DecisionSteps
        <4>4. QED
          BY <2>1, <3>1, <4>1, <4>3 DEF Heeds
      <3>4. QED
        BY <3>2, <3>3
    <2>3. ASSUME NEW p \in Procs, Acts(p)
          PROVE  Heeds(p)'
      <3>1. CASE proc'[p].pc \notin DecisionSteps
        BY <3>1 DEF Heeds, DecisionSteps
      <3>2. ASSUME NEW i \in DOMAIN approvals, NEW d \in Decisions,
                   LoadMission(p, i, d) \/ GenericDecision(p, i, d)
            PROVE  Heeds(p)'
        <4>1. CASE LoadMission(p, i, d)
          BY <2>1, <4>1 DEF LoadMission, Call, Idle, Heeds
        <4>2. CASE GenericDecision(p, i, d)
          BY <2>1, <4>2 DEF GenericDecision, Call, Idle, Heeds
        <4>3. QED
          BY <3>2, <4>1, <4>2
      <3>3. CASE CheckApproval(p) /\ proc'[p].pc \in DecisionSteps
        <4>1. ~Return(p)
          BY <2>1, <3>3 DEF Return, Idle, DecisionSteps
        <4>2. /\ At(p, "loaded") /\ Goto(p, "deciding")
              /\ approvals' = approvals
              /\ approvals[proc[p].approval].status = "pending"
          BY <3>3, <4>1 DEF CheckApproval
        <4>3. p \in Deciders
          BY <2>1, <4>2 DEF Heeds, At, DecisionSteps
        <4>4. proc'[p].pc = "deciding" /\ proc'[p].approval = proc[p].approval
          BY <2>1, <4>2 DEF Goto, Calls
        <4>5. QED
          BY <2>1, <4>2, <4>3, <4>4 DEF Heeds
      <3>4. CASE PatchApproval(p) /\ proc'[p].pc \in DecisionSteps
        <4>1. ~Return(p)
          BY <2>1, <3>4 DEF Return, Idle, DecisionSteps
        <4>2. /\ At(p, "deciding") /\ Goto(p, "marking")
              /\ proc[p].to = "approved"
              /\ approvals' = [approvals EXCEPT
                                 ![proc[p].approval].status = proc[p].to]
          BY <3>4, <4>1 DEF PatchApproval
        <4>3. p \in Deciders /\ proc[p].approval \in DOMAIN approvals
          BY <2>1, <4>2, CallOf DEF Heeds, Fits, At, DecisionSteps
        <4>4. proc'[p].pc = "marking" /\ proc'[p].approval = proc[p].approval
          BY <2>1, <4>2 DEF Goto, Calls
        <4>5. approvals'[proc[p].approval].status = "approved"
          <5>1. approvals[proc[p].approval] \in ApprovalRows
            BY <4>3, ApprovalTyped DEF Whole, TypeOK, SharedTyped
          <5>2. QED
            BY <4>2, <4>3, <5>1 DEF ApprovalRows
        <4>6. QED
          BY <2>1, <4>3, <4>4, <4>5 DEF Heeds
      <3>5. QED
        BY <2>3, <3>1, <3>2, <3>3, <3>4, DecisionStepsOf
    <2>4. ASSUME NEW p \in Procs, Acts(p), Executable'
          PROVE  Approved'
      <3>1. CASE Executable
        <4>1. PICK i \in DOMAIN approvals : approvals[i].status = "approved"
          BY <2>1, <3>1 DEF Approved
        <4>2. i = proc[p].approval => proc[p].pc \notin {"deciding", "generic"}
          BY <2>1, <4>1 DEF Heeds
        <4>3. i \in DOMAIN approvals' /\ approvals'[i] = approvals[i]
          BY <2>4, <4>2, ApprovalsKept
        <4>4. QED
          BY <4>1, <4>3 DEF Approved
      <3>2. CASE ~Executable
        <4>1. MarkMissionApproved(p)
          BY <2>4, <3>2, CallOf
          DEF Acts, Request, Proceed, SaveMissionPlan, MaterializeMissionPlan,
              Authorized, LoadMission, GenericDecision, AlreadyMaterialized,
              ContinueApprovedTask, Reconcile, SetMissionPendingApproval,
              CreateApproval, CheckApproval, PatchApproval, GenericPatch,
              ActivateMission, FinishTask, PatchTask, GetActiveMission,
              ListMissionTasks, UpdateMissionStatus, Crash, StartTask,
              Executable, Fits, At, Started
        <4>2. /\ proc[p].approval \in DOMAIN approvals
              /\ approvals[proc[p].approval].status = "approved"
              /\ approvals' = approvals
          BY <2>1, <4>1, CallOf DEF MarkMissionApproved, At, Fits, Heeds
        <4>3. QED
          BY <4>2 DEF Approved
      <3>3. QED
        BY <3>1, <3>2
    <2>5. ASSUME NEW k \in Keys, RecoverStale(k)
          PROVE  (\A r \in Procs : Heeds(r)') /\ (Executable => Approved)'
      <3>1. UNCHANGED <<mission, approvals, proc>>
        BY <2>5 DEF RecoverStale
      <3>2. QED
        BY <2>1, <3>1 DEF Heeds, Executable, Approved
    <2>6. QED
      BY <1>2, <2>2, <2>3, <2>4, <2>5 DEF Next, Step, Acts
  <1>3. Deciders' = Deciders
    BY DEF Deciders, Next, vars
  <1>4. QED
    BY <1>1, <1>2, <1>3 DEF Consented

(* HUMAN_APPROVAL: with one process deciding for the owner, a mission that *)
(* may run, runs or has run is one whose owner approved exactly its plan   *)
(* (decideMissionPlanApproval of src/core/mission/missionRuntime.ts).      *)
THEOREM ConsentHolds == Spec => []ExecutableIsApproved
  <1>1. Init => Consented
    BY DEF Init, Consented, Heeds, Idle, DecisionSteps, Executable
  <1>2. Whole /\ Whole' /\ Consented /\ [Next]_vars => Consented'
    BY ConsentedNext
  <1>3. Whole /\ Consented => ExecutableIsApproved
    BY DEF Whole, Graph, Planned, Consented, Approved, ExecutableIsApproved
  <1>4. QED
    BY <1>1, <1>2, <1>3, MissionInvariant, PTL DEF Spec
=============================================================================
