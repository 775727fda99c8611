------------------------ MODULE CommandPipelineProofs ------------------------
(***************************************************************************)
(* What holds of the owner's commands for any number of commands, decision *)
(* requests, attempts and faults: nothing runs that was not cleared, an    *)
(* approval is good for one execution, and an approved task leaves the     *)
(* gate.                                                                   *)
(***************************************************************************)
EXTENDS CommandPipeline, TLAPS

Selections == {"auto", "notify"}

(* The command may be executed: the verdicts say so, or the owner.         *)
Cleared(c) == c \in granted \/ cmd[c].selected \in Selections

(* The verdict of the gate is no looser than the authority matrix, and     *)
(* before its task exists nothing else can know of a command.              *)
Judged(c) ==
    /\ cmd[c].selected \in Selections => Authority(cmd[c].req) # "deny"
    /\ cmd[c].pc = "decided" => cmd[c].selected # "none"
    /\ cmd[c].pc \in {"idle", "decided"} =>
          task[c] = NoTask /\ approval[c] = "none" /\ started[c] = 0
    /\ cmd[c].pc \in {"planning", "starting", "executing", "failing"} =>
          cmd[c].selected \in Selections

(* Whatever is beyond the gate was cleared.                                *)
Passed(c) ==
    \/ task[c].status \notin {"none", "needs_approval", "cancelled"} \/ started[c] > 0
    => Cleared(c)

(* Who may have begun an attempt of c: its own call, once it is past the    *)
(* start, and the worker, once it has claimed what it placed.              *)
Own(c) == IF /\ cmd[c].selected \in Selections
             /\ cmd[c].pc \notin {"idle", "decided", "planning", "starting"} THEN 1 ELSE 0

Workers(c) == IF /\ task[c].assigned
                 /\ ~(worker.pc = "placed" /\ worker.of = c) THEN 1 ELSE 0

Counted(c) == started[c] <= Own(c) + Workers(c)

(* A task that was decided and still waits has a decision that will see it. *)
Gated(c) ==
    /\ approval[c] \in {"approved", "rejected"} /\ faults = 0
    /\ task[c].status = "needs_approval"
    => \E t \in Tabs : tab[t].of = c /\ tab[t].pc \in {"continuing", "moving"}

Deciding(t) ==
    tab[t].pc # "idle" =>
       /\ tab[t].of \in Commands /\ tab[t].verdict \in {"approved", "rejected"}
       /\ approval[tab[t].of] # "none"
       /\ tab[t].pc # "deciding" /\ tab[t].verdict = "approved" => tab[t].of \in granted

Working ==
    worker.pc # "idle" =>
       worker.of \in Commands /\ task[worker.of].assigned /\ Cleared(worker.of)

Safe ==
    /\ TypeOK
    /\ \A c \in Commands : Judged(c) /\ Passed(c) /\ Counted(c) /\ Gated(c)
    /\ \A t \in Tabs : Deciding(t)
    /\ Working

---------------------------------------------------------------------------
(* The gate.                                                               *)

(* Whatever the guardian says, what is selected for execution was not      *)
(* denied by the authority matrix.                                         *)
LEMMA SelectedIsAuthorized ==
  ASSUME NEW r \in RequestSpace, NEW stopped \in BOOLEAN
  PROVE  LET s == Selected(r, Guardian(r, locked, stopped)) IN
         /\ s \in {"auto", "notify", "require_approval", "deny"}
         /\ s \in Selections => Authority(r) # "deny"
<1> PICK security, a, policy :
      security = Guardian(r, locked, stopped) /\ a = Authority(r) /\ policy = r.policy
  OBVIOUS
<1>1. policy \in {"none", "auto", "notify", "require_approval", "deny"}
  BY DEF RequestSpace, Policies
<1>2. /\ Autonomy(r) \in {"auto", "notify", "require_approval", "deny"}
      /\ a = "deny" => Autonomy(r) = "deny"
  BY <1>1 DEF Autonomy
<1> PICK autonomy : autonomy = Autonomy(r)
  OBVIOUS
<1>3. Selected(r, security) = IF security \in {"lockdown", "deny"} THEN "deny"
                              ELSE IF security = "require_approval" THEN "require_approval"
                              ELSE IF security = "notify" /\ autonomy = "auto" THEN "notify"
                              ELSE autonomy
  BY DEF Selected
<1> QED BY <1>2, <1>3 DEF Selections

(* The states a task is put into.                                          *)
LEMMA StatusesAreStatuses ==
  /\ \A n \in Nat : FailureStatus(n, MaxAttempts) \in {"failed", "queued"}
  /\ {"none", "queued", "running", "needs_approval", "failed", "completed", "cancelled"}
        \subseteq Statuses
BY DEF FailureStatus, Statuses, TaskStatuses

(* A task at the gate can be moved wherever a decision sends it.           *)
LEMMA DecisionMoves ==
  CanTransition("needs_approval", "queued") /\ CanTransition("needs_approval", "cancelled")
BY DEF CanTransition, Transitions

---------------------------------------------------------------------------
(* Types.                                                                  *)

LEMMA CallTyped ==
  ASSUME TypeOK, NEW c \in Commands, NEW x \in CallLabels, NEW n \in Nat
  PROVE  /\ [cmd EXCEPT ![c].pc = x] \in [Commands -> CallRecord]
         /\ [cmd EXCEPT ![c].pc = x, ![c].seen = n] \in [Commands -> CallRecord]
<1>1. cmd \in [Commands -> CallRecord] /\ cmd[c] \in CallRecord
  BY DEF TypeOK
<1>2. /\ [cmd[c] EXCEPT !.pc = x] \in CallRecord
      /\ [cmd[c] EXCEPT !.pc = x, !.seen = n] \in CallRecord
  BY <1>1 DEF CallRecord
<1>3. /\ [cmd EXCEPT ![c].pc = x] = [cmd EXCEPT ![c] = [cmd[c] EXCEPT !.pc = x]]
      /\ [cmd EXCEPT ![c].pc = x, ![c].seen = n]
            = [cmd EXCEPT ![c] = [cmd[c] EXCEPT !.pc = x, !.seen = n]]
  BY <1>1
<1> QED BY <1>1, <1>2, <1>3

LEMMA TaskTyped ==
  ASSUME TypeOK, NEW c \in Commands, NEW s \in Statuses, NEW n \in Nat,
         NEW a \in {"none", "recent", "stale"}
  PROVE  /\ [task EXCEPT ![c].status = s] \in [Commands -> TaskRecord]
         /\ [task EXCEPT ![c].status = s, ![c].age = a] \in [Commands -> TaskRecord]
         /\ [task EXCEPT ![c].age = a] \in [Commands -> TaskRecord]
         /\ [task EXCEPT ![c].assigned = TRUE] \in [Commands -> TaskRecord]
         /\ [task EXCEPT ![c] = [@ EXCEPT !.status = s, !.attempts = n]]
               \in [Commands -> TaskRecord]
<1>1. task \in [Commands -> TaskRecord] /\ task[c] \in TaskRecord
  BY DEF TypeOK
<1>2. /\ [task[c] EXCEPT !.status = s] \in TaskRecord
      /\ [task[c] EXCEPT !.status = s, !.age = a] \in TaskRecord
      /\ [task[c] EXCEPT !.age = a] \in TaskRecord
      /\ [task[c] EXCEPT !.assigned = TRUE] \in TaskRecord
      /\ [task[c] EXCEPT !.status = s, !.attempts = n] \in TaskRecord
  BY <1>1 DEF TaskRecord
<1>3. /\ [task EXCEPT ![c].status = s] = [task EXCEPT ![c] = [task[c] EXCEPT !.status = s]]
      /\ [task EXCEPT ![c].status = s, ![c].age = a]
            = [task EXCEPT ![c] = [task[c] EXCEPT !.status = s, !.age = a]]
      /\ [task EXCEPT ![c].age = a] = [task EXCEPT ![c] = [task[c] EXCEPT !.age = a]]
      /\ [task EXCEPT ![c].assigned = TRUE]
            = [task EXCEPT ![c] = [task[c] EXCEPT !.assigned = TRUE]]
  BY <1>1
<1> QED BY <1>1, <1>2, <1>3

---------------------------------------------------------------------------
(* The conditions of one command, as seen by a step of another.            *)

LEMMA InitSafe ==
  ASSUME Init
  PROVE  Safe
<1>1. TypeOK
  <2>1. 0 \in 0 .. MaxToggles /\ 0 \in 0 .. MaxFaults /\ 0 \in Nat
    BY CommandAssumption
  <2> QED BY <2>1, StatusesAreStatuses
             DEF Init, TypeOK, Waiting, NoTask, NoDecision, NoWork,
                 CallRecord, CallLabels, TaskRecord, TabRecord, WorkerRecord
<1>2. ASSUME NEW c \in Commands
      PROVE  Judged(c) /\ Passed(c) /\ Counted(c) /\ Gated(c)
  BY DEF Init, Waiting, NoTask, Judged, Passed, Counted, Gated, Own, Workers, Selections
<1>3. (\A t \in Tabs : Deciding(t)) /\ Working
  BY DEF Init, NoDecision, NoWork, Deciding, Working
<1> QED BY <1>1, <1>2, <1>3 DEF Safe
---------------------------------------------------------------------------
(* The steps of a command.                                                 *)

LEMMA UnresolvedSafe ==
  ASSUME Safe, NEW c \in Commands, Unresolved(c)
  PROVE  Safe'
<1>1. TypeOK'
  BY StatusesAreStatuses, CallTyped, TaskTyped
     DEF Safe, TypeOK, CallLabels, At, Answer, Others, env, Unresolved
<1>2. ASSUME NEW d \in Commands PROVE Judged(d)'
  BY DEF Safe, TypeOK, Judged, Answer, Unresolved
<1>3. ASSUME NEW d \in Commands PROVE Passed(d)'
  BY DEF Safe, TypeOK, Passed, Cleared, Answer, Others, Unresolved
<1>4. ASSUME NEW d \in Commands PROVE Counted(d)'
  BY DEF Safe, TypeOK, Counted, Own, Workers, Answer, Others, Unresolved
<1>5. ASSUME NEW d \in Commands PROVE Gated(d)'
  BY DEF Safe, Gated, Others, env, Unresolved
<1>6. ASSUME NEW t \in Tabs PROVE Deciding(t)'
  BY DEF Safe, Deciding, Others, Unresolved
<1>7. Working'
  BY DEF Safe, TypeOK, Working, Cleared, Answer, Others, Unresolved
<1> QED BY <1>1, <1>2, <1>3, <1>4, <1>5, <1>6, <1>7 DEF Safe

LEMMA CreateTaskSafe ==
  ASSUME Safe, NEW c \in Commands, CreateTask(c)
  PROVE  Safe'
<1> PICK s : s = cmd[c].selected
  OBVIOUS
<1> PICK x, y : x = InitialStatus(s) /\ y = AfterCreation(c)
  OBVIOUS
<1>0. /\ s \in {"auto", "notify", "require_approval", "deny"}
      /\ x \in {"cancelled", "needs_approval", "queued"} /\ (x = "queued" => s \in Selections)
      /\ y \in {"answered", "asking", "planning", "starting"}
      /\ (y \in {"planning", "starting"} <=> s \in Selections)
      /\ cmd' = [cmd EXCEPT ![c].pc = y] /\ task' = [task EXCEPT ![c].status = x]
      /\ cmd[c].pc = "decided" /\ UNCHANGED <<tab, worker, env, granted, approval, started>>
  <2>1. s \in {"auto", "notify", "require_approval", "deny"}
    BY DEF Safe, TypeOK, CallRecord, Judged, CreateTask, At
  <2>2. CASE s = "deny"
    BY <2>2
       DEF CreateTask, At, Goto, Others, InitialStatus, AfterCreation,
           Selections
  <2>3. CASE s = "require_approval"
    BY <2>3
       DEF CreateTask, At, Goto, Others, InitialStatus, AfterCreation,
           Selections
  <2>4. CASE s \in {"auto", "notify"}
    BY <2>4
       DEF CreateTask, At, Goto, Others, InitialStatus, AfterCreation,
           Selections
  <2> QED BY <2>1, <2>2, <2>3, <2>4
<1>1. TypeOK'
  BY <1>0, StatusesAreStatuses, CallTyped, TaskTyped
     DEF Safe, TypeOK, CallLabels, env
<1>2. ASSUME NEW d \in Commands PROVE Judged(d)'
  BY <1>0 DEF Safe, TypeOK, Judged
<1>3. ASSUME NEW d \in Commands PROVE Passed(d)'
  BY <1>0 DEF Safe, Passed, Cleared
<1>4. ASSUME NEW d \in Commands PROVE Counted(d)'
  BY <1>0 DEF Safe, Counted, Own, Workers
<1>5. ASSUME NEW d \in Commands PROVE Gated(d)'
  BY <1>0 DEF Safe, Judged, Gated, env
<1>6. ASSUME NEW t \in Tabs PROVE Deciding(t)'
  BY <1>0 DEF Safe, Deciding
<1>7. Working'
  BY <1>0 DEF Safe, Working, Cleared
<1> QED BY <1>1, <1>2, <1>3, <1>4, <1>5, <1>6, <1>7 DEF Safe

LEMMA RequestApprovalSafe ==
  ASSUME Safe, NEW c \in Commands, RequestApproval(c)
  PROVE  Safe'
<1>1. TypeOK'
  BY StatusesAreStatuses, CallTyped, TaskTyped
     DEF Safe, TypeOK, CallLabels, At, Answer, Others, env, RequestApproval
<1>2. ASSUME NEW d \in Commands PROVE Judged(d)'
  BY DEF Safe, TypeOK, Judged, Answer, RequestApproval
<1>3. ASSUME NEW d \in Commands PROVE Passed(d)'
  BY DEF Safe, TypeOK, Passed, Cleared, Answer, Others, RequestApproval
<1>4. ASSUME NEW d \in Commands PROVE Counted(d)'
  BY DEF Safe, TypeOK, Counted, Own, Workers, Answer, Others, RequestApproval
<1>5. ASSUME NEW d \in Commands PROVE Gated(d)'
  BY DEF Safe, Gated, Others, env, RequestApproval
<1>6. ASSUME NEW t \in Tabs PROVE Deciding(t)'
  BY DEF Safe, Deciding, Others, RequestApproval
<1>7. Working'
  BY DEF Safe, TypeOK, Working, Cleared, Answer, Others, RequestApproval
<1> QED BY <1>1, <1>2, <1>3, <1>4, <1>5, <1>6, <1>7 DEF Safe

LEMMA PlanFailsSafe ==
  ASSUME Safe, NEW c \in Commands, PlanFails(c)
  PROVE  Safe'
<1>1. TypeOK'
  BY StatusesAreStatuses, CallTyped, TaskTyped
     DEF Safe, TypeOK, CallLabels, At, Answer, Others, env, Patch,
         PlanFails
<1>2. ASSUME NEW d \in Commands PROVE Judged(d)'
  BY DEF Safe, TypeOK, Judged, Answer, Patch, PlanFails
<1>3. ASSUME NEW d \in Commands PROVE Passed(d)'
  BY DEF Safe, TypeOK, Judged, Passed, Cleared, At, Answer, Others, Patch,
         PlanFails
<1>4. ASSUME NEW d \in Commands PROVE Counted(d)'
  BY DEF Safe, TypeOK, Counted, Own, Workers, Answer, Others, Patch, PlanFails
<1>5. ASSUME NEW d \in Commands PROVE Gated(d)'
  BY DEF Safe, Gated, Others, env, Patch, PlanFails
<1>6. ASSUME NEW t \in Tabs PROVE Deciding(t)'
  BY DEF Safe, Deciding, Others, PlanFails
<1>7. Working'
  BY DEF Safe, TypeOK, Working, Cleared, Answer, Others, Patch, PlanFails
<1> QED BY <1>1, <1>2, <1>3, <1>4, <1>5, <1>6, <1>7 DEF Safe

LEMMA StartAttemptSafe ==
  ASSUME Safe, NEW c \in Commands, StartAttempt(c)
  PROVE  Safe'
<1>1. TypeOK'
  <2>1. started' \in [Commands -> Nat]
    BY DEF Safe, TypeOK, StartAttempt, Begins
  <2>2. cmd' \in [Commands -> CallRecord] /\ task' \in [Commands -> TaskRecord]
    BY StatusesAreStatuses, CallTyped, TaskTyped
       DEF Safe, CallLabels, StartAttempt, Begins, Goto
  <2> QED BY <2>1, <2>2 DEF Safe, TypeOK, StartAttempt, Others, env
<1>2. ASSUME NEW d \in Commands PROVE Judged(d)'
  BY DEF Safe, TypeOK, Judged, Goto, Begins, StartAttempt
<1>3. ASSUME NEW d \in Commands PROVE Passed(d)'
  BY DEF Safe, TypeOK, Judged, Passed, Cleared, Goto, Others, Begins,
         StartAttempt
<1>4. ASSUME NEW d \in Commands PROVE Counted(d)'
  BY DEF Safe, TypeOK, Judged, Counted, Own, Workers, Goto, Others, Begins,
         StartAttempt
<1>5. ASSUME NEW d \in Commands PROVE Gated(d)'
  BY DEF Safe, TypeOK, Gated, Others, env, Begins, StartAttempt
<1>6. ASSUME NEW t \in Tabs PROVE Deciding(t)'
  BY DEF Safe, Deciding, Others, StartAttempt
<1>7. Working'
  BY DEF Safe, TypeOK, Working, Cleared, Goto, Others, Begins, StartAttempt
<1> QED BY <1>1, <1>2, <1>3, <1>4, <1>5, <1>6, <1>7 DEF Safe

LEMMA AttemptSucceedsSafe ==
  ASSUME Safe, NEW c \in Commands, AttemptSucceeds(c)
  PROVE  Safe'
<1>1. TypeOK'
  BY StatusesAreStatuses, CallTyped, TaskTyped
     DEF Safe, TypeOK, CallLabels, At, Answer, Others, env, Patch,
         AttemptSucceeds
<1>2. ASSUME NEW d \in Commands PROVE Judged(d)'
  BY DEF Safe, TypeOK, Judged, Answer, Patch, AttemptSucceeds
<1>3. ASSUME NEW d \in Commands PROVE Passed(d)'
  BY DEF Safe, TypeOK, Judged, Passed, Cleared, At, Answer, Others, Patch,
         AttemptSucceeds
<1>4. ASSUME NEW d \in Commands PROVE Counted(d)'
  BY DEF Safe, TypeOK, Counted, Own, Workers, Answer, Others, Patch,
         AttemptSucceeds
<1>5. ASSUME NEW d \in Commands PROVE Gated(d)'
  BY DEF Safe, Gated, Others, env, Patch, AttemptSucceeds
<1>6. ASSUME NEW t \in Tabs PROVE Deciding(t)'
  BY DEF Safe, Deciding, Others, AttemptSucceeds
<1>7. Working'
  BY DEF Safe, TypeOK, Working, Cleared, Answer, Others, Patch,
         AttemptSucceeds
<1> QED BY <1>1, <1>2, <1>3, <1>4, <1>5, <1>6, <1>7 DEF Safe

LEMMA OrchestrationThrowsSafe ==
  ASSUME Safe, NEW c \in Commands, OrchestrationThrows(c)
  PROVE  Safe'
<1>1. TypeOK'
  BY StatusesAreStatuses, CallTyped, TaskTyped
     DEF Safe, TypeOK, CallLabels, At, Answer, Others, env,
         OrchestrationThrows
<1>2. ASSUME NEW d \in Commands PROVE Judged(d)'
  BY DEF Safe, TypeOK, Judged, Answer, OrchestrationThrows
<1>3. ASSUME NEW d \in Commands PROVE Passed(d)'
  BY DEF Safe, TypeOK, Passed, Cleared, Answer, Others, OrchestrationThrows
<1>4. ASSUME NEW d \in Commands PROVE Counted(d)'
  BY DEF Safe, TypeOK, Counted, Own, Workers, Answer, Others,
         OrchestrationThrows
<1>5. ASSUME NEW d \in Commands PROVE Gated(d)'
  BY DEF Safe, Gated, Others, env, OrchestrationThrows
<1>6. ASSUME NEW t \in Tabs PROVE Deciding(t)'
  BY DEF Safe, Deciding, Others, OrchestrationThrows
<1>7. Working'
  BY DEF Safe, TypeOK, Working, Cleared, Answer, Others, OrchestrationThrows
<1> QED BY <1>1, <1>2, <1>3, <1>4, <1>5, <1>6, <1>7 DEF Safe

LEMMA AttemptFailsSafe ==
  ASSUME Safe, NEW c \in Commands, AttemptFails(c)
  PROVE  Safe'
<1>1. TypeOK'
  <2>1. task[c].attempts \in Nat
    BY DEF Safe, TypeOK, TaskRecord
  <2>2. cmd' \in [Commands -> CallRecord]
    BY <2>1, CallTyped DEF Safe, CallLabels, AttemptFails
  <2> QED BY <2>2 DEF Safe, TypeOK, AttemptFails, Others, env
<1>2. ASSUME NEW d \in Commands PROVE Judged(d)'
  BY DEF Safe, TypeOK, Judged, At, AttemptFails
<1>3. ASSUME NEW d \in Commands PROVE Passed(d)'
  BY DEF Safe, TypeOK, Passed, Cleared, Others, AttemptFails
<1>4. ASSUME NEW d \in Commands PROVE Counted(d)'
  BY DEF Safe, TypeOK, Counted, Own, Workers, Others, AttemptFails
<1>5. ASSUME NEW d \in Commands PROVE Gated(d)'
  BY DEF Safe, Gated, Others, env, AttemptFails
<1>6. ASSUME NEW t \in Tabs PROVE Deciding(t)'
  BY DEF Safe, Deciding, Others, AttemptFails
<1>7. Working'
  BY DEF Safe, TypeOK, Working, Cleared, Others, AttemptFails
<1> QED BY <1>1, <1>2, <1>3, <1>4, <1>5, <1>6, <1>7 DEF Safe

LEMMA PatchFailureSafe ==
  ASSUME Safe, NEW c \in Commands, PatchFailure(c)
  PROVE  Safe'
<1>1. TypeOK'
  <2>1. /\ cmd[c].seen \in Nat /\ cmd[c].seen + 1 \in Nat
        /\ FailureStatus(cmd[c].seen, MaxAttempts) \in Statuses
    BY StatusesAreStatuses DEF Safe, TypeOK, CallRecord
  <2>2. task' \in [Commands -> TaskRecord]
    BY <2>1, TaskTyped DEF Safe, PatchFailure
  <2>3. cmd' \in [Commands -> CallRecord]
    BY CallTyped DEF Safe, CallLabels, PatchFailure, Answer
  <2> QED BY <2>2, <2>3 DEF Safe, TypeOK, PatchFailure, Others, env
<1>2. ASSUME NEW d \in Commands PROVE Judged(d)'
  BY DEF Safe, TypeOK, Judged, Answer, PatchFailure
<1>3. ASSUME NEW d \in Commands PROVE Passed(d)'
  BY DEF Safe, TypeOK, Judged, Passed, Cleared, At, Answer, Others,
         PatchFailure
<1>4. ASSUME NEW d \in Commands PROVE Counted(d)'
  BY DEF Safe, TypeOK, Counted, Own, Workers, Answer, Others, PatchFailure
<1>5. ASSUME NEW d \in Commands PROVE Gated(d)'
  BY StatusesAreStatuses
     DEF Safe, TypeOK, CallRecord, Gated, Others, env, PatchFailure
<1>6. ASSUME NEW t \in Tabs PROVE Deciding(t)'
  BY DEF Safe, Deciding, Others, PatchFailure
<1>7. Working'
  BY DEF Safe, TypeOK, Working, Cleared, Answer, Others, PatchFailure
<1> QED BY <1>1, <1>2, <1>3, <1>4, <1>5, <1>6, <1>7 DEF Safe

LEMMA DecideSafe ==
  ASSUME Safe, NEW c \in Commands, Decide(c)
  PROVE  Safe'
<1> PICK r \in Requests, stopped \in BOOLEAN :
      LET chosen == Selected(r, Guardian(r, locked, stopped)) IN
      cmd' = [cmd EXCEPT ![c] =
                [@ EXCEPT !.pc = IF r.project THEN "decided" ELSE "answered",
                          !.req = r, !.selected = chosen]]
  BY DEF Decide
<1> PICK s, pc : /\ s = Selected(r, Guardian(r, locked, stopped))
                 /\ pc = IF r.project THEN "decided" ELSE "answered"
  OBVIOUS
<1>0. /\ s \in {"auto", "notify", "require_approval", "deny"}
      /\ s \in Selections => Authority(r) # "deny"
      /\ pc \in {"decided", "answered"}
      /\ cmd' = [cmd EXCEPT ![c] = [cmd[c] EXCEPT !.pc = pc, !.req = r, !.selected = s]]
      /\ cmd[c].pc = "idle"
      /\ UNCHANGED <<tab, worker, locked, toggles, faults, granted, task, approval, started>>
  <2>1. r \in RequestSpace
    BY CommandAssumption
  <2>2. /\ s \in {"auto", "notify", "require_approval", "deny"}
        /\ s \in Selections => Authority(r) # "deny"
    BY <2>1, SelectedIsAuthorized
  <2> QED BY <2>2 DEF Decide, At, Others, env
<1>1. TypeOK'
  <2>1. [cmd[c] EXCEPT !.pc = pc, !.req = r, !.selected = s] \in CallRecord
    <3>1. cmd[c] \in CallRecord
      BY DEF Safe, TypeOK
    <3>2. pc \in CallLabels /\ r \in Requests \cup {NoRequest}
      BY DEF CallLabels
    <3> QED BY <1>0, <3>1, <3>2 DEF CallRecord
  <2>2. cmd' \in [Commands -> CallRecord]
    BY <2>1 DEF Safe, TypeOK
  <2> QED BY <1>0, <2>2 DEF Safe, TypeOK
<1>2. ASSUME NEW d \in Commands PROVE Judged(d)'
  <2>1. CASE d = c
    <3>1. cmd'[c].pc = pc /\ cmd'[c].req = r /\ cmd'[c].selected = s
      BY DEF Safe, TypeOK
    <3> QED BY <1>0 DEF Safe, Judged
  <2>2. CASE d # c
    <3>1. cmd'[d] = cmd[d]
      BY <2>2
    <3> QED BY <1>0 DEF Safe, Judged
  <2> QED BY <2>1, <2>2
<1>3. ASSUME NEW d \in Commands PROVE Passed(d)'
  BY <1>0 DEF Safe, Judged, Passed, Cleared, NoTask
<1>4. ASSUME NEW d \in Commands PROVE Counted(d)'
  BY <1>0 DEF Safe, Judged, Counted, Own, Workers
<1>5. ASSUME NEW d \in Commands PROVE Gated(d)'
  BY <1>0 DEF Safe, Gated
<1>6. ASSUME NEW t \in Tabs PROVE Deciding(t)'
  BY <1>0 DEF Safe, Deciding
<1>7. Working'
  BY <1>0 DEF Safe, Working, Cleared, Judged, NoTask
<1> QED BY <1>1, <1>2, <1>3, <1>4, <1>5, <1>6, <1>7 DEF Safe

LEMMA CommandSafe ==
  ASSUME Safe, NEW c \in Commands, Receive(c) \/ Command(c)
  PROVE  Safe'
BY DecideSafe, UnresolvedSafe, CreateTaskSafe, RequestApprovalSafe,
   PlanFailsSafe,
   StartAttemptSafe, AttemptSucceedsSafe, OrchestrationThrowsSafe, AttemptFailsSafe,
   PatchFailureSafe
   DEF Receive, Command

---------------------------------------------------------------------------
(* The decisions of the owner.                                             *)

LEMMA ReadApprovalSafe ==
  ASSUME Safe, NEW u \in Tabs, NEW c \in Commands, NEW v \in {"approved", "rejected"},
         ReadApproval(u, c, v)
  PROVE  Safe'
<1>1. TypeOK'
  BY StatusesAreStatuses, TaskTyped
     DEF Safe, TypeOK, TabRecord, Deciding, NoDecision, env, ReadApproval
<1>2. ASSUME NEW d \in Commands PROVE Judged(d)'
  BY DEF Safe, Judged, ReadApproval
<1>3. ASSUME NEW d \in Commands PROVE Passed(d)'
  BY DEF Safe, Passed, Cleared, ReadApproval
<1>4. ASSUME NEW d \in Commands PROVE Counted(d)'
  BY DEF Safe, Counted, Own, Workers, ReadApproval
<1>5. ASSUME NEW d \in Commands PROVE Gated(d)'
  BY DEF Safe, Gated, env, ReadApproval
<1>6. ASSUME NEW t \in Tabs PROVE Deciding(t)'
  BY DEF Safe, Deciding, ReadApproval
<1>7. Working'
  BY DEF Safe, Working, Cleared, ReadApproval
<1> QED BY <1>1, <1>2, <1>3, <1>4, <1>5, <1>6, <1>7 DEF Safe

LEMMA PatchApprovalSafe ==
  ASSUME Safe, NEW u \in Tabs, PatchApproval(u)
  PROVE  Safe'
<1> PICK c, v : c = tab[u].of /\ v = tab[u].verdict
  OBVIOUS
<1>1. TypeOK'
  <2>1. tab[u] \in TabRecord /\ v \in {"approved", "rejected"} /\ c \in Commands
    BY DEF Safe, TypeOK, Deciding, PatchApproval
  <2>2. [tab[u] EXCEPT !.pc = "continuing"] \in TabRecord
    BY <2>1 DEF TabRecord
  <2>3. tab' = [tab EXCEPT ![u] = [tab[u] EXCEPT !.pc = "continuing"]]
    BY DEF PatchApproval
  <2>4. tab' \in [Tabs -> TabRecord]
    BY <2>2, <2>3 DEF Safe, TypeOK
  <2> QED BY <2>1, <2>4 DEF Safe, TypeOK, PatchApproval, env
<1>2. ASSUME NEW d \in Commands PROVE Judged(d)'
  BY DEF Safe, Judged, Deciding, PatchApproval
<1>3. ASSUME NEW d \in Commands PROVE Passed(d)'
  BY DEF Safe, Passed, Cleared, PatchApproval
<1>4. ASSUME NEW d \in Commands PROVE Counted(d)'
  BY DEF Safe, Counted, Own, Workers, PatchApproval
<1>5. ASSUME NEW d \in Commands PROVE Gated(d)'
  BY DEF Safe, TypeOK, Gated, env, PatchApproval
<1>6. ASSUME NEW t \in Tabs PROVE Deciding(t)'
  BY DEF Safe, Deciding, PatchApproval
<1>7. Working'
  BY DEF Safe, Working, Cleared, PatchApproval
<1> QED BY <1>1, <1>2, <1>3, <1>4, <1>5, <1>6, <1>7 DEF Safe

LEMMA ReadForContinuationSafe ==
  ASSUME Safe, NEW u \in Tabs, ReadForContinuation(u)
  PROVE  Safe'
<1>1. TypeOK'
  <2>1. tab[u] \in TabRecord /\ NoDecision \in TabRecord
    BY DEF Safe, TypeOK, TabRecord, NoDecision
  <2>2. [tab[u] EXCEPT !.pc = "moving"] \in TabRecord
    BY <2>1 DEF TabRecord
  <2> QED BY <2>1, <2>2 DEF Safe, TypeOK, ReadForContinuation, env
<1>2. ASSUME NEW d \in Commands PROVE Judged(d)'
  BY DEF Safe, Judged, ReadForContinuation
<1>3. ASSUME NEW d \in Commands PROVE Passed(d)'
  BY DEF Safe, Passed, Cleared, ReadForContinuation
<1>4. ASSUME NEW d \in Commands PROVE Counted(d)'
  BY DEF Safe, Counted, Own, Workers, ReadForContinuation
<1>5. ASSUME NEW d \in Commands PROVE Gated(d)'
  BY DecisionMoves
     DEF Safe, Gated, env, ReadForContinuation, ContinuationMoves, Target
<1>6. ASSUME NEW t \in Tabs PROVE Deciding(t)'
  BY DEF Safe, Deciding, NoDecision, ReadForContinuation
<1>7. Working'
  BY DEF Safe, Working, Cleared, ReadForContinuation
<1> QED BY <1>1, <1>2, <1>3, <1>4, <1>5, <1>6, <1>7 DEF Safe

LEMMA MoveTaskSafe ==
  ASSUME Safe, NEW u \in Tabs, MoveTask(u)
  PROVE  Safe'
<1>1. TypeOK'
  BY StatusesAreStatuses, TaskTyped
     DEF Safe, TypeOK, TabRecord, Deciding, NoDecision, env, MoveTask,
         Patch, Target
<1>2. ASSUME NEW d \in Commands PROVE Judged(d)'
  BY DEF Safe, Judged, Deciding, MoveTask, Patch
<1>3. ASSUME NEW d \in Commands PROVE Passed(d)'
  BY DEF Safe, Passed, Cleared, Deciding, MoveTask, Patch, Target
<1>4. ASSUME NEW d \in Commands PROVE Counted(d)'
  BY DEF Safe, Counted, Own, Workers, MoveTask, Patch
<1>5. ASSUME NEW d \in Commands PROVE Gated(d)'
  BY DEF Safe, TypeOK, Gated, env, MoveTask, Patch, Target
<1>6. ASSUME NEW t \in Tabs PROVE Deciding(t)'
  BY DEF Safe, Deciding, NoDecision, MoveTask
<1>7. Working'
  BY DEF Safe, Working, Cleared, MoveTask, Patch
<1> QED BY <1>1, <1>2, <1>3, <1>4, <1>5, <1>6, <1>7 DEF Safe

LEMMA ContinuationFailsSafe ==
  ASSUME Safe, NEW u \in Tabs, ContinuationFails(u)
  PROVE  Safe'
<1>1. TypeOK'
  <2>1. faults' \in 0 .. MaxFaults
    BY CommandAssumption DEF Safe, TypeOK, ContinuationFails
  <2> QED BY <2>1 DEF Safe, TypeOK, TabRecord, NoDecision, ContinuationFails
<1>2. ASSUME NEW d \in Commands PROVE Judged(d)'
  BY DEF Safe, Judged, ContinuationFails
<1>3. ASSUME NEW d \in Commands PROVE Passed(d)'
  BY DEF Safe, Passed, Cleared, ContinuationFails
<1>4. ASSUME NEW d \in Commands PROVE Counted(d)'
  BY DEF Safe, Counted, Own, Workers, ContinuationFails
<1>5. ASSUME NEW d \in Commands PROVE Gated(d)'
  BY DEF Safe, TypeOK, Gated, ContinuationFails
<1>6. ASSUME NEW t \in Tabs PROVE Deciding(t)'
  BY DEF Safe, Deciding, NoDecision, ContinuationFails
<1>7. Working'
  BY DEF Safe, Working, Cleared, ContinuationFails
<1> QED BY <1>1, <1>2, <1>3, <1>4, <1>5, <1>6, <1>7 DEF Safe

LEMMA TabSafe ==
  ASSUME Safe, NEW u \in Tabs,
         \/ \E c \in Commands, v \in {"approved", "rejected"} : ReadApproval(u, c, v)
         \/ Decision(u) \/ ContinuationFails(u)
  PROVE  Safe'
BY ReadApprovalSafe, PatchApprovalSafe, ReadForContinuationSafe, MoveTaskSafe,
   ContinuationFailsSafe
   DEF Decision

---------------------------------------------------------------------------
(* The worker.                                                             *)

(* What has a status, or is assigned, is beyond the creation of its task.   *)
LEMMA NotNew ==
  ASSUME Safe, NEW c \in Commands, task[c].status # "none" \/ task[c].assigned
  PROVE  cmd[c].pc \notin {"idle", "decided"}
BY DEF Safe, Judged, NoTask

LEMMA JudgedKept ==
  ASSUME Safe, NEW c \in Commands, task[c].status # "none" \/ task[c].assigned,
         UNCHANGED <<cmd, approval>>,
         \A d \in Commands \ {c} : task'[d] = task[d] /\ started'[d] = started[d],
         NEW d \in Commands
  PROVE  Judged(d)'
<1>1. CASE d = c
  BY NotNew DEF Safe, Judged
<1>2. CASE d # c
  BY <1>2 DEF Safe, Judged
<1> QED BY <1>1, <1>2

LEMMA PlaceTaskSafe ==
  ASSUME Safe, NEW c \in Commands, PlaceTask(c)
  PROVE  Safe'
<1>1. TypeOK'
  BY StatusesAreStatuses, TaskTyped
     DEF Safe, TypeOK, WorkerRecord, NoWork, Rest, env, PlaceTask,
         Schedulable
<1>2. ASSUME NEW d \in Commands PROVE Judged(d)'
  <2>1. /\ c \in Commands /\ (task[c].status # "none" \/ task[c].assigned)
        /\ UNCHANGED <<cmd, approval>>
        /\ \A b \in Commands \ {c} : task'[b] = task[b] /\ started'[b] = started[b]
    BY DEF Rest, PlaceTask, Schedulable
  <2> QED BY <1>2, <2>1, JudgedKept
<1>3. ASSUME NEW d \in Commands PROVE Passed(d)'
  BY DEF Safe, Passed, Cleared, Rest, PlaceTask
<1>4. ASSUME NEW d \in Commands PROVE Counted(d)'
  BY DEF Safe, Counted, Own, Workers, Rest, PlaceTask, Schedulable
<1>5. ASSUME NEW d \in Commands PROVE Gated(d)'
  BY DEF Safe, Gated, Rest, env, PlaceTask
<1>6. ASSUME NEW t \in Tabs PROVE Deciding(t)'
  BY DEF Safe, Deciding, Rest, PlaceTask
<1>7. Working'
  BY DEF Safe, TypeOK, Working, Passed, Cleared, Rest, PlaceTask, Schedulable
<1> QED BY <1>1, <1>2, <1>3, <1>4, <1>5, <1>6, <1>7 DEF Safe

LEMMA ClaimSafe ==
  ASSUME Safe, Claim
  PROVE  Safe'
<1> PICK c : c = worker.of
  OBVIOUS
<1>1. /\ worker.pc = "placed" /\ c \in Commands /\ Cleared(c) /\ task[c].assigned
      /\ UNCHANGED <<cmd, approval, tab, locked, toggles, faults, granted>>
  BY DEF Safe, Working, Claim, Rest, env
<1>2. CASE task[c].status = "queued" /\ Begins(c) /\ worker' = [worker EXCEPT !.pc = "executing"]
  <2>1. TypeOK'
    <3>1. task' \in [Commands -> TaskRecord]
      BY <1>1, <1>2, StatusesAreStatuses, TaskTyped DEF Safe, Begins
    <3>2. started' \in [Commands -> Nat]
      BY <1>1, <1>2 DEF Safe, TypeOK, Begins
    <3> QED BY <1>1, <1>2, <3>1, <3>2 DEF Safe, TypeOK, WorkerRecord
  <2>2. ASSUME NEW d \in Commands PROVE Judged(d)'
    <3>1. \A b \in Commands \ {c} : task'[b] = task[b] /\ started'[b] = started[b]
      BY <1>2 DEF Safe, TypeOK, Begins
    <3> QED BY <1>1, <2>2, <3>1, JudgedKept
  <2>3. ASSUME NEW d \in Commands PROVE Passed(d)'
    BY <1>1, <1>2 DEF Safe, TypeOK, Passed, Cleared, Begins
  <2>4. ASSUME NEW d \in Commands PROVE Counted(d)'
    BY <1>1, <1>2 DEF Safe, TypeOK, Counted, Own, Workers, Begins
  <2>5. ASSUME NEW d \in Commands PROVE Gated(d)'
    BY <1>1, <1>2 DEF Safe, TypeOK, Gated, Begins
  <2>6. (\A t \in Tabs : Deciding(t))' /\ Working'
    BY <1>1, <1>2 DEF Safe, TypeOK, Deciding, Working, Cleared, Begins
  <2> QED BY <2>1, <2>2, <2>3, <2>4, <2>5, <2>6 DEF Safe
<1>3. CASE worker' = NoWork /\ UNCHANGED <<task, started>>
  <2>1. ASSUME NEW d \in Commands PROVE Counted(d)'
    BY <1>1, <1>3 DEF Safe, TypeOK, Counted, Own, Workers, NoWork
  <2>2. Working'
    BY <1>3 DEF Working, NoWork
  <2> QED BY <1>1, <1>3, <2>1, <2>2
         DEF Safe, TypeOK, WorkerRecord, NoWork, Judged, Passed, Cleared, Gated, Deciding
<1> QED BY <1>2, <1>3 DEF Claim

LEMMA WorkerSucceedsSafe ==
  ASSUME Safe, WorkerSucceeds
  PROVE  Safe'
<1>1. TypeOK'
  <2>1. worker.of \in Commands
    BY DEF Safe, Working, WorkerSucceeds
  <2>2. TypeOK /\ task \in [Commands -> TaskRecord]
    BY DEF Safe, TypeOK
  <2>3. [task EXCEPT ![worker.of].status = "completed"] \in [Commands -> TaskRecord]
    <3>1. 0 \in Nat /\ "none" \in {"none", "recent", "stale"} /\ "completed" \in Statuses
      BY StatusesAreStatuses
    <3> QED BY <2>1, <2>2, <3>1, TaskTyped
  <2>4. task' \in [Commands -> TaskRecord]
    BY <2>2, <2>3 DEF WorkerSucceeds, Patch
  <2> QED BY <2>4 DEF Safe, TypeOK, WorkerRecord, NoWork, WorkerSucceeds, Rest, env
<1>2. ASSUME NEW d \in Commands PROVE Judged(d)'
  <2>1. /\ worker.of \in Commands /\ (task[worker.of].status # "none" \/ task[worker.of].assigned)
        /\ UNCHANGED <<cmd, approval>>
        /\ \A b \in Commands \ {worker.of} : task'[b] = task[b] /\ started'[b] = started[b]
    BY DEF Safe, TypeOK, Working, Rest, WorkerSucceeds, Patch
  <2> QED BY <1>2, <2>1, JudgedKept
<1>3. ASSUME NEW d \in Commands PROVE Passed(d)'
  BY DEF Safe, TypeOK, Passed, Cleared, Rest, WorkerSucceeds, Patch
<1>4. ASSUME NEW d \in Commands PROVE Counted(d)'
  BY DEF Safe, TypeOK, TaskRecord, Counted, Own, Workers, NoWork, Rest,
         WorkerSucceeds, Patch
<1>5. ASSUME NEW d \in Commands PROVE Gated(d)'
  BY DEF Safe, TypeOK, TaskRecord, Gated, Rest, env, WorkerSucceeds, Patch
<1>6. ASSUME NEW t \in Tabs PROVE Deciding(t)'
  BY DEF Safe, Deciding, Rest, WorkerSucceeds
<1>7. Working'
  BY DEF Working, NoWork, WorkerSucceeds
<1> QED BY <1>1, <1>2, <1>3, <1>4, <1>5, <1>6, <1>7 DEF Safe

LEMMA WorkerFailsSafe ==
  ASSUME Safe, WorkerFails
  PROVE  Safe'
<1>1. TypeOK'
  <2>1. task[worker.of].attempts \in Nat
    BY DEF Safe, TypeOK, TaskRecord, Working, WorkerFails
  <2>2. worker' \in WorkerRecord
    BY <2>1 DEF Safe, TypeOK, WorkerRecord, NoWork, WorkerFails
  <2> QED BY <2>2 DEF Safe, TypeOK, WorkerFails, Rest, env
<1>2. ASSUME NEW d \in Commands PROVE Judged(d)'
  BY DEF Safe, Judged, Rest, WorkerFails
<1>3. ASSUME NEW d \in Commands PROVE Passed(d)'
  BY DEF Safe, Passed, Cleared, Rest, WorkerFails
<1>4. ASSUME NEW d \in Commands PROVE Counted(d)'
  BY DEF Safe, Counted, Own, Workers, NoWork, Rest, WorkerFails
<1>5. ASSUME NEW d \in Commands PROVE Gated(d)'
  BY DEF Safe, Gated, Rest, env, WorkerFails
<1>6. ASSUME NEW t \in Tabs PROVE Deciding(t)'
  BY DEF Safe, Deciding, Rest, WorkerFails
<1>7. Working'
  BY DEF Safe, Working, Cleared, NoWork, Rest, WorkerFails
<1> QED BY <1>1, <1>2, <1>3, <1>4, <1>5, <1>6, <1>7 DEF Safe

LEMMA WorkerPatchesSafe ==
  ASSUME Safe, WorkerPatches
  PROVE  Safe'
<1>1. TypeOK'
  <2>1. /\ worker.seen \in Nat /\ worker.seen + 1 \in Nat /\ worker.of \in Commands
        /\ FailureStatus(worker.seen, MaxAttempts) \in Statuses
    BY StatusesAreStatuses
       DEF Safe, TypeOK, WorkerRecord, Working, WorkerPatches
  <2>2. task' \in [Commands -> TaskRecord]
    BY <2>1, TaskTyped DEF Safe, WorkerPatches
  <2> QED BY <2>2 DEF Safe, TypeOK, WorkerRecord, NoWork, WorkerPatches, Rest, env
<1>2. ASSUME NEW d \in Commands PROVE Judged(d)'
  <2>1. /\ worker.of \in Commands /\ (task[worker.of].status # "none" \/ task[worker.of].assigned)
        /\ UNCHANGED <<cmd, approval>>
        /\ \A b \in Commands \ {worker.of} : task'[b] = task[b] /\ started'[b] = started[b]
    BY DEF Safe, Working, Rest, WorkerPatches
  <2> QED BY <1>2, <2>1, JudgedKept
<1>3. ASSUME NEW d \in Commands PROVE Passed(d)'
  BY DEF Safe, Passed, Cleared, Working, Rest, WorkerPatches
<1>4. ASSUME NEW d \in Commands PROVE Counted(d)'
  BY DEF Safe, Counted, Own, Workers, NoWork, Rest, WorkerPatches
<1>5. ASSUME NEW d \in Commands PROVE Gated(d)'
  BY StatusesAreStatuses
     DEF Safe, TypeOK, WorkerRecord, Gated, Rest, env, WorkerPatches
<1>6. ASSUME NEW t \in Tabs PROVE Deciding(t)'
  BY DEF Safe, Deciding, Rest, WorkerPatches
<1>7. Working'
  BY DEF Working, NoWork, WorkerPatches
<1> QED BY <1>1, <1>2, <1>3, <1>4, <1>5, <1>6, <1>7 DEF Safe

---------------------------------------------------------------------------
(* Time, recovery and faults.                                              *)

LEMMA AgeSafe ==
  ASSUME Safe, NEW c \in Commands, Age(c)
  PROVE  Safe'
<1>1. TypeOK'
  <2>1. task' \in [Commands -> TaskRecord]
    BY StatusesAreStatuses, TaskTyped DEF Safe, Age
  <2> QED BY <2>1 DEF Safe, TypeOK, Age, env
<1>2. ASSUME NEW d \in Commands PROVE Judged(d)'
  <2>1. /\ c \in Commands /\ (task[c].status # "none" \/ task[c].assigned)
        /\ UNCHANGED <<cmd, approval>>
        /\ \A b \in Commands \ {c} : task'[b] = task[b] /\ started'[b] = started[b]
    BY DEF Age
  <2> QED BY <1>2, <2>1, JudgedKept
<1>3. ASSUME NEW d \in Commands PROVE Passed(d)'
  BY DEF Safe, Passed, Cleared, Age
<1>4. ASSUME NEW d \in Commands PROVE Counted(d)'
  BY DEF Safe, Counted, Own, Workers, Age
<1>5. ASSUME NEW d \in Commands PROVE Gated(d)'
  BY DEF Safe, Gated, env, Age
<1>6. ASSUME NEW t \in Tabs PROVE Deciding(t)'
  BY DEF Safe, Deciding, Age
<1>7. Working'
  BY DEF Safe, Working, Cleared, Age
<1> QED BY <1>1, <1>2, <1>3, <1>4, <1>5, <1>6, <1>7 DEF Safe

LEMMA RecoverySafe ==
  ASSUME Safe, RecoverStaleRunningTasks
  PROVE  Safe'
<1>1. TypeOK'
  <2>1. \A c \in Commands : [task[c] EXCEPT !.status = "failed"] \in TaskRecord
    BY StatusesAreStatuses DEF Safe, TypeOK, TaskRecord
  <2> QED BY <2>1 DEF Safe, TypeOK, RecoverStaleRunningTasks, env
<1>2. ASSUME NEW d \in Commands PROVE Judged(d)'
  <2>1. CASE d \in Abandoned
    BY NotNew DEF Safe, Judged, RecoverStaleRunningTasks, Abandoned, Stale
  <2>2. CASE d \notin Abandoned
    BY <2>2 DEF Safe, Judged, RecoverStaleRunningTasks
  <2> QED BY <2>1, <2>2
<1>3. ASSUME NEW d \in Commands PROVE Passed(d)'
  BY DEF Safe, Passed, Cleared, RecoverStaleRunningTasks, Abandoned, Stale
<1>4. ASSUME NEW d \in Commands PROVE Counted(d)'
  BY DEF Safe, Counted, Own, Workers, RecoverStaleRunningTasks
<1>5. ASSUME NEW d \in Commands PROVE Gated(d)'
  BY DEF Safe, Gated, env, RecoverStaleRunningTasks
<1>6. ASSUME NEW t \in Tabs PROVE Deciding(t)'
  BY DEF Safe, Deciding, RecoverStaleRunningTasks
<1>7. Working'
  BY DEF Safe, Working, Cleared, RecoverStaleRunningTasks
<1> QED BY <1>1, <1>2, <1>3, <1>4, <1>5, <1>6, <1>7 DEF Safe

LEMMA ApiCrashSafe ==
  ASSUME Safe, ApiCrash
  PROVE  Safe'
<1>0. /\ faults < MaxFaults /\ faults' = faults + 1
      /\ tab' = [t \in Tabs |-> NoDecision]
      /\ UNCHANGED <<task, approval, worker, locked, toggles, granted, started>>
      /\ \A d \in Commands :
            /\ cmd'[d].selected = cmd[d].selected /\ cmd'[d].req = cmd[d].req
            /\ cmd'[d].pc = IF cmd[d].pc = "idle" THEN "idle" ELSE "answered"
  BY DEF Safe, TypeOK, CallRecord, ApiCrash
<1>1. TypeOK'
  <2>1. \A c \in Commands : [cmd[c] EXCEPT !.pc = "answered", !.seen = 0] \in CallRecord
    BY DEF Safe, TypeOK, CallRecord, CallLabels
  <2>2. cmd' \in [Commands -> CallRecord]
    BY <2>1 DEF Safe, TypeOK, ApiCrash
  <2>3. faults' \in 0 .. MaxFaults
    BY <1>0, CommandAssumption DEF Safe, TypeOK
  <2> QED BY <1>0, <2>2, <2>3 DEF Safe, TypeOK, TabRecord, NoDecision
<1>2. ASSUME NEW d \in Commands PROVE Judged(d)'
  BY <1>0 DEF Safe, Judged
<1>3. ASSUME NEW d \in Commands PROVE Passed(d)'
  BY <1>0 DEF Safe, Passed, Cleared
<1>4. ASSUME NEW d \in Commands PROVE Counted(d)'
  BY <1>0 DEF Safe, TypeOK, Counted, Own, Workers
<1>5. ASSUME NEW d \in Commands PROVE Gated(d)'
  BY <1>0 DEF Safe, TypeOK, Gated
<1>6. ASSUME NEW t \in Tabs PROVE Deciding(t)'
  BY <1>0 DEF Deciding, NoDecision
<1>7. Working'
  BY <1>0 DEF Safe, Working, Cleared
<1> QED BY <1>1, <1>2, <1>3, <1>4, <1>5, <1>6, <1>7 DEF Safe

LEMMA WorkerCrashSafe ==
  ASSUME Safe, WorkerCrash
  PROVE  Safe'
<1>1. TypeOK'
  <2>1. faults' \in 0 .. MaxFaults
    BY CommandAssumption DEF Safe, TypeOK, WorkerCrash
  <2> QED BY <2>1 DEF Safe, TypeOK, WorkerRecord, NoWork, WorkerCrash
<1>2. ASSUME NEW d \in Commands PROVE Judged(d)'
  BY DEF Safe, Judged, WorkerCrash
<1>3. ASSUME NEW d \in Commands PROVE Passed(d)'
  BY DEF Safe, Passed, Cleared, WorkerCrash
<1>4. ASSUME NEW d \in Commands PROVE Counted(d)'
  BY DEF Safe, TypeOK, Counted, Own, Workers, WorkerCrash, NoWork
<1>5. ASSUME NEW d \in Commands PROVE Gated(d)'
  BY DEF Safe, TypeOK, Gated, WorkerCrash
<1>6. ASSUME NEW t \in Tabs PROVE Deciding(t)'
  BY DEF Safe, Deciding, WorkerCrash
<1>7. Working'
  BY DEF Working, WorkerCrash, NoWork
<1> QED BY <1>1, <1>2, <1>3, <1>4, <1>5, <1>6, <1>7 DEF Safe

LEMMA ToggleSafe ==
  ASSUME Safe, ToggleLockdown
  PROVE  Safe'
<1>1. toggles' \in 0 .. MaxToggles
  BY CommandAssumption DEF Safe, TypeOK, ToggleLockdown
<1> QED BY <1>1
           DEF Safe, TypeOK, Judged, Passed, Counted, Gated, Deciding, Working,
               Cleared, Own, Workers, ToggleLockdown

LEMMA SafeStep ==
  ASSUME Safe, [Next]_vars
  PROVE  Safe'
<1>1. CASE UNCHANGED vars
  BY <1>1
     DEF vars, Safe, TypeOK, Judged, Passed, Counted, Gated, Deciding,
         Working, Cleared, Own, Workers
<1>2. CASE Work
  BY <1>2, ClaimSafe, WorkerSucceedsSafe, WorkerFailsSafe, WorkerPatchesSafe
     DEF Work
<1> QED BY <1>1, <1>2, CommandSafe, TabSafe, PlaceTaskSafe, AgeSafe, RecoverySafe, ApiCrashSafe,
           WorkerCrashSafe, ToggleSafe DEF Next

(* Each command keeps the verdict of the gate, whatever is beyond the gate *)
(* was cleared, every attempt is its own call's or the worker's, and a     *)
(* decided task that waits has a decision on its way.                      *)
THEOREM SafetyInvariant == Spec => []Safe
<1>1. Init => Safe
  BY InitSafe
<1>2. Safe /\ [Next]_vars => Safe'
  BY SafeStep
<1> QED BY <1>1, <1>2, PTL DEF Spec

(* WorkIsCleared: whatever decisions, crashes, sweeps and workers come in  *)
(* between, nothing is executed that the authority matrix denied or that   *)
(* needed an approval, unless the owner gave it.                           *)
THEOREM OnlyClearedWorkRuns == Spec => []WorkIsCleared
<1>1. Safe => WorkIsCleared
  BY DEF Safe, Judged, Passed, Cleared, WorkIsCleared, Selections
<1> QED BY <1>1, SafetyInvariant, PTL

(* AttemptsBounded: an approval is good for one execution, and a command    *)
(* that needed none is executed at most twice, by the pipeline and by the  *)
(* worker that finds its task in the queue.                                *)
THEOREM ApprovalIsForOne == Spec => []AttemptsBounded
<1>1. Safe => AttemptsBounded
  <2> SUFFICES ASSUME Safe, NEW c \in Commands
               PROVE  started[c] <= IF cmd[c].selected = "require_approval" THEN 1 ELSE 2
    BY DEF AttemptsBounded
  <2>1. started[c] \in Nat /\ started[c] <= Own(c) + Workers(c)
    BY DEF Safe, TypeOK, Counted
  <2>2. Own(c) \in {0, 1} /\ Workers(c) \in {0, 1}
        /\ (cmd[c].selected = "require_approval" => Own(c) = 0)
    BY DEF Own, Workers, Selections
  <2> QED BY <2>1, <2>2
<1> QED BY <1>1, SafetyInvariant, PTL

(* ApprovedLeavesGate: without faults, decisions that overlap never leave  *)
(* an approved task at the gate.                                           *)
THEOREM ApprovedGoesOn == Spec => []ApprovedLeavesGate
<1>1. Safe => ApprovedLeavesGate
  BY DEF Safe, Gated, ApprovedLeavesGate
<1> QED BY <1>1, SafetyInvariant, PTL
=============================================================================
