-------------------------- MODULE WorkforceRuntime --------------------------
(***************************************************************************)
(* The autonomous workforce: worker processes that sleep and wake, list    *)
(* the owners with schedulable work and run one bounded pass for each:     *)
(* global control, lockdown, cost, discovery, control again, sequential    *)
(* placement under the missions' budgets, then execution in slices.        *)
(*                                                                         *)
(* Everything a pass decides on is a read that may be stale when it is     *)
(* used: the administrator stops the workforce, owners are locked down,    *)
(* other workers place and spend, workers crash, between any two awaits.   *)
(*                                                                         *)
(* Abstracted: the selection of an agent (an owner has so many slots) and  *)
(* the inside of an execution, both modelled in TaskExecution; dependency  *)
(* edges; amounts (an execution costs one unit); delays; audit rows; the   *)
(* reconciliation of missions at the end of a pass (Mission).              *)
(***************************************************************************)
EXTENDS WorkforceLimits

CONSTANTS
  Owners,        \* owners, numbered in the order of their ids
  Tasks,         \* tasks, numbered in the order of their creation
  OwnerOf,       \* tasks.owner_id
  OwnerLimit,    \* ownerMonthlyHardLimit
  Slots,         \* how many unfinished tasks an owner's agents may hold
  MaxOwners,     \* maxOwnersPerCycle
  Turns,         \* the round-robin offset is counted modulo this
  MaxParallel,   \* maxParallelExecutions
  Environments,  \* the environments the workforce may meet, see env
  None

ASSUME WorkforceRuntimeAssumption ==
  /\ IsFiniteSet(Tasks) /\ Tasks \subseteq Nat
  /\ IsFiniteSet(Owners) /\ Owners \subseteq Nat
  /\ IsFiniteSet(Workers)
  /\ OwnerOf \in [Tasks -> Owners]
  /\ MissionOf \in [Tasks -> Missions \cup {None}]
  /\ None \notin Missions
  /\ BudgetLimit \in [Missions -> Nat]
  /\ OwnerLimit \in Nat
  /\ Slots \in [Owners -> Nat]
  /\ MaxOwners \in Nat \ {0}
  /\ Turns \in Nat \ {0}
  /\ \A n \in 1..MaxOwners : Turns % n = 0
  /\ MaxTasks \in Nat \ {0}
  /\ MaxParallel \in Nat \ {0}
  /\ Environments \subseteq
       [workers : SUBSET Workers, early : SUBSET Tasks, late : SUBSET Tasks,
        stoppable : SUBSET Workers, lockable : SUBSET Owners,
        stops : Nat, faults : Nat]

VARIABLES
  locked,    \* the owners with an active lockdown
  row,       \* tasks: "queued" is queued and unassigned
  stops,     \* changes of the global control so far
  faults     \* crashes and failures so far

rows == <<control, locked, row, spent, stops>>
vars == <<control, locked, row, spent, stops, worker, faults, excused, env>>

Rows == {"none", "queued", "assigned", "running", "completed", "failed"}

(* The steps of a pass up to its second look at the global control.        *)
Checking == {"initiated", "lockdown", "cost", "discover", "recheck"}
PCs == {"starting", "sleeping", "sweep", "owners", "returned",
        "stopped"} \cup Checking \cup Working

Outcomes == {"none", "completed", "partial", "blocked", "nothing_to_do",
             "aborted", "global_stopped", "budget_exhausted",
             "mission_budget_exhausted", "error"}

(* todo: discovered and not yet considered; placed: all tasks this pass    *)
(* has placed; pending: those not yet handed to a slice; slice: those      *)
(* awaited together; live: claimed; charged: their cost row is written.    *)
NoPass == [todo |-> {}, placed |-> {}, pending |-> {}, slice |-> {},
           live |-> {}, charged |-> {}, completed |-> {}, skipped |-> {},
           timedOut |-> FALSE, outcome |-> "none"]

Passes == [todo : SUBSET Tasks, placed : SUBSET Tasks,
           pending : SUBSET Tasks, slice : SUBSET Tasks,
           live : SUBSET Tasks, charged : SUBSET Tasks,
           completed : SUBSET Tasks, skipped : SUBSET Tasks,
           timedOut : BOOLEAN, outcome : Outcomes]

Processes == [pc : PCs, owners : Seq(Owners), offset : Nat,
              stopping : BOOLEAN, pass : Passes]

Fresh == [pc |-> "starting", owners |-> <<>>, offset |-> 0,
           stopping |-> FALSE, pass |-> NoPass]

TypeOK ==
  /\ control \in {"enabled", "stopped", "missing"}
  /\ locked \subseteq Owners
  /\ row \in [Tasks -> Rows]
  /\ spent \in Seq(Tasks)
  /\ env \in Environments
  /\ stops \in 0..env.stops
  /\ faults \in 0..env.faults
  /\ excused \subseteq Workers
  /\ worker \in [Workers -> Processes]
  /\ \A w \in Workers :
       worker[w].pc \in Checking \cup Working \cup {"returned"}
         => worker[w].owners # <<>>

Init ==
  /\ control = "enabled"
  /\ locked = {}
  /\ env \in Environments
  /\ row = [t \in Tasks |-> IF t \in env.early THEN "queued" ELSE "none"]
  /\ spent = <<>>
  /\ stops = 0
  /\ worker = [w \in Workers |-> IF w \in env.workers THEN Fresh
                                ELSE [Fresh EXCEPT !.pc = "stopped"]]
  /\ faults = 0
  /\ excused = {}

(***************************************************************************)
(* Queries.                                                                *)
(***************************************************************************)

Schedulable(o) == {t \in Tasks : OwnerOf[t] = o /\ row[t] = "queued"}

(* totalCost: all the owner's cost_events, of whatever month.              *)
TotalCost(o) == Cardinality({i \in DOMAIN spent : OwnerOf[spent[i]] = o})

(* The first n of a set of numbers.                                        *)
Before(S, x) == {y \in S : y < x}
FirstOf(S, n) == {x \in S : Cardinality(Before(S, x)) < n}
First(S) == CHOOSE x \in S : Before(S, x) = {}
Ascending(S) ==
  [i \in 1..Cardinality(S) |->
     CHOOSE x \in S : Cardinality(Before(S, x)) = i - 1]

(* Mutant: one owner too few.                                              *)
OwnersWithWorkShort ==
  Ascending(FirstOf({o \in Owners : Schedulable(o) # {}}, MaxOwners - 1))

(* listOwnersWithSchedulableWork: order by owner_id limit maxOwners.       *)
OwnersWithWork ==
  Ascending(FirstOf({o \in Owners : Schedulable(o) # {}}, MaxOwners))

(* #rollOwners; the offset is only used modulo the length of a list, so    *)
(* counting it modulo a common multiple of the lengths changes nothing.    *)
RollOwners(list, offset) ==
  LET k == offset % Len(list)
  IN  SubSeq(list, k + 1, Len(list)) \o SubSeq(list, 1, k)

(***************************************************************************)
(* The worker loop.                                                        *)
(***************************************************************************)

At(w, label) == worker[w].pc = label
Pass(w) == worker[w].pass
Owner(w) == Head(worker[w].owners)
Goto(w, label) == worker' = [worker EXCEPT ![w].pc = label]
EndPass(w, outcome) ==
  worker' = [worker EXCEPT ![w].pc = "returned",
                           ![w].pass.outcome = outcome]
Local == UNCHANGED <<rows, faults>>
OnlyRows == UNCHANGED <<control, locked, spent, stops, faults>>

(* Mutant: the loop looks only at the signal it was started with.          *)
StartCycleAlways(w) ==
  /\ At(w, "sleeping")
  /\ ~StopActive
  /\ Goto(w, "sweep")
  /\ Local /\ UNCHANGED excused

(* The loop condition of run, then the first read of the cycle; a stopped  *)
(* workforce, or a read that fails, sends the worker back to sleep before  *)
(* the sweep.                                                              *)
StartCycle(w) ==
  /\ At(w, "sleeping")
  /\ \/ worker[w].stopping /\ Goto(w, "stopped")
     \/ ~worker[w].stopping /\ ~StopActive /\ Goto(w, "sweep")
  /\ Local /\ UNCHANGED excused

(* A running row nobody executes is recovered once the interval of the     *)
(* worker and the age of the row allow it; otherwise, or when the sweep    *)
(* fails, the cycle goes on without it.                                    *)
Orphans == {t \in Tasks : row[t] = "running"
                          /\ \A w \in Workers : t \notin Pass(w).live}

Recover == row' = [t \in Tasks |-> IF t \in Orphans THEN "failed" ELSE row[t]]

(* buildRuntime sweeps too, before the loop and whatever the control says. *)
StartWorker(w) ==
  /\ At(w, "starting")
  /\ Recover \/ UNCHANGED row
  /\ Goto(w, "sleeping")
  /\ OnlyRows /\ UNCHANGED excused

RecoverStale(w) ==
  /\ At(w, "sweep")
  /\ Orphans # {}
  /\ Recover
  /\ Goto(w, "owners")
  /\ OnlyRows /\ UNCHANGED excused

(* The loop over the owners of the cycle.                                  *)
ServeNext(w, list, offset) ==
  worker' = [worker EXCEPT
              ![w].pc = IF list = <<>> \/ worker[w].stopping
                          THEN "sleeping" ELSE "initiated",
              ![w].owners = IF worker[w].stopping THEN <<>> ELSE list,
              ![w].offset = offset,
              ![w].pass = NoPass]

ListOwners(w) ==
  LET list == OwnersWithWork
      offset == worker[w].offset
  IN  /\ worker[w].pc \in {"sweep", "owners"}
      /\ IF Len(list) > 1
           THEN ServeNext(w, RollOwners(list, offset),
                          (offset + 1) % Turns)
           ELSE ServeNext(w, list, offset)
      /\ Local /\ UNCHANGED excused

(* Only a global stop ends the cycle early; every other outcome concerns   *)
(* this owner alone.                                                       *)
PassReturns(w) ==
  /\ At(w, "returned")
  /\ ServeNext(w, IF Pass(w).outcome = "global_stopped"
                    THEN <<>> ELSE Tail(worker[w].owners),
               worker[w].offset)
  /\ excused' = excused \ {w}
  /\ Local

(***************************************************************************)
(* runWorkforce up to the end of discovery.                                *)
(***************************************************************************)

PassReadsControl(w) ==
  /\ At(w, "initiated")
  /\ IF StopActive THEN EndPass(w, "global_stopped") ELSE Goto(w, "lockdown")
  /\ Local /\ UNCHANGED excused

PassReadsLockdown(w) ==
  /\ At(w, "lockdown")
  /\ IF Owner(w) \in locked THEN EndPass(w, "aborted") ELSE Goto(w, "cost")
  /\ Local /\ UNCHANGED excused

(* CostProtector.check of a pass without a project.                        *)
CostStopped(o) == TotalCost(o) > OwnerLimit

PassReadsCost(w) ==
  /\ At(w, "cost")
  /\ IF CostStopped(Owner(w))
       THEN EndPass(w, "budget_exhausted")
       ELSE Goto(w, "discover")
  /\ Local /\ UNCHANGED excused

Discover(w) ==
  /\ At(w, "discover")
  /\ worker' = [worker EXCEPT ![w].pc = "recheck",
                              ![w].pass.todo = Schedulable(Owner(w))]
  /\ Local /\ UNCHANGED excused

(* Mutant: discovered work is started without another look.                *)
NoRecheck(w) ==
  /\ At(w, "recheck")
  /\ IF Pass(w).todo = {} THEN EndPass(w, "nothing_to_do")
     ELSE Goto(w, "placing")
  /\ Local /\ UNCHANGED excused

Recheck(w) ==
  /\ At(w, "recheck")
  /\ CASE StopActive -> EndPass(w, "global_stopped")
       [] ~StopActive /\ Pass(w).todo = {} -> EndPass(w, "nothing_to_do")
       [] OTHER -> Goto(w, "placing")
  /\ Local /\ UNCHANGED excused

(***************************************************************************)
(* Placement, one task after the other.                                    *)
(***************************************************************************)

Considers(w, t) ==
  /\ Pass(w).todo # {}
  /\ t = First(Pass(w).todo)
  /\ Cardinality(Pass(w).placed) < MaxTasks
  /\ ~Pass(w).timedOut

(* Mutant: the spend of the task is compared, not that of its mission.     *)
ExhaustedByTask(t) ==
  /\ MissionOf[t] # None
  /\ BudgetLimit[MissionOf[t]] > 0
  /\ Cardinality({i \in DOMAIN spent : spent[i] = t})
       >= BudgetLimit[MissionOf[t]]

Exhausted(t) ==
  /\ MissionOf[t] # None
  /\ BudgetLimit[MissionOf[t]] > 0
  /\ MissionCost(MissionOf[t]) >= BudgetLimit[MissionOf[t]]

(* The budget of the task's mission, and the decision to skip the task.    *)
MissionBudgetAllows(w, t) ==
  /\ At(w, "placing")
  /\ Considers(w, t)
  /\ ~Exhausted(t)
  /\ Goto(w, "assigning")
  /\ Local /\ UNCHANGED excused

MissionBudgetSkips(w, t) ==
  /\ At(w, "placing")
  /\ Considers(w, t)
  /\ Exhausted(t)
  /\ worker' = [worker EXCEPT ![w].pass.todo = @ \ {t},
                              ![w].pass.skipped = @ \cup {t}]
  /\ Local /\ UNCHANGED excused

Held(o) == {t \in Tasks : OwnerOf[t] = o /\ row[t] \in {"assigned", "running"}}

PlaceTask(w, t) ==
  /\ At(w, "assigning")
  /\ t = First(Pass(w).todo)
  /\ IF row[t] = "queued" /\ Cardinality(Held(OwnerOf[t])) < Slots[OwnerOf[t]]
       THEN /\ row' = [row EXCEPT ![t] = "assigned"]
            /\ worker' = [worker EXCEPT ![w].pc = "placing",
                                        ![w].pass.todo = @ \ {t},
                                        ![w].pass.placed = @ \cup {t},
                                        ![w].pass.pending = @ \cup {t}]
       ELSE /\ worker' = [worker EXCEPT ![w].pc = "placing",
                                        ![w].pass.todo = @ \ {t}]
            /\ UNCHANGED row
  /\ OnlyRows /\ UNCHANGED excused

(* The elapsed time reaches runTimeoutMs; it is looked at between tasks    *)
(* and between slices only.                                                *)
TimesOut(w) ==
  /\ worker[w].pc \in Working
  /\ ~Pass(w).timedOut
  /\ worker' = [worker EXCEPT ![w].pass.timedOut = TRUE]
  /\ Local /\ UNCHANGED excused

(* What follows is decided without an await: the next slice, or the end.   *)
Handed(w) ==
  \/ At(w, "placing") /\ ~\E t \in Tasks : Considers(w, t)
  \/ At(w, "executing") /\ Pass(w).slice = {}

(***************************************************************************)
(* Execution in slices, awaited together.                                  *)
(***************************************************************************)

NextSlice(w) == FirstOf(Pass(w).pending, MaxParallel)

TakeSlice(w) ==
  /\ Handed(w)
  /\ Pass(w).pending # {}
  /\ ~Pass(w).timedOut
  /\ worker' = [worker EXCEPT ![w].pc = "executing",
                              ![w].pass.slice = NextSlice(w),
                              ![w].pass.pending = @ \ NextSlice(w)]
  /\ Local /\ UNCHANGED excused

(* executeAssignedAgentTask claims the task.                               *)
StartExecution(w, t) ==
  /\ At(w, "executing")
  /\ t \in Pass(w).slice \ Pass(w).live
  /\ row[t] = "assigned"
  /\ row' = [row EXCEPT ![t] = "running"]
  /\ worker' = [worker EXCEPT ![w].pass.live = @ \cup {t}]
  /\ OnlyRows /\ UNCHANGED excused

(* It returns without a claim: an approval is wanted, the agent is not     *)
(* active, somebody else runs the task.                                    *)
RefuseExecution(w, t) ==
  /\ At(w, "executing")
  /\ t \in Pass(w).slice \ Pass(w).live
  /\ worker' = [worker EXCEPT ![w].pass.slice = @ \ {t}]
  /\ Local /\ UNCHANGED excused

(* recordCost, once the model has answered.                                *)
ChargeExecution(w, t) ==
  /\ At(w, "executing")
  /\ t \in Pass(w).live \ Pass(w).charged
  /\ spent' = Append(spent, t)
  /\ worker' = [worker EXCEPT ![w].pass.charged = @ \cup {t}]
  /\ UNCHANGED <<control, locked, row, stops, faults, excused>>

(* The attempt succeeds, fails for the last time, or is put back for a     *)
(* retry, still assigned.                                                  *)
EndExecution(w, t, status) ==
  /\ At(w, "executing")
  /\ t \in Pass(w).live
  /\ status = "completed" => t \in Pass(w).charged
  /\ row' = [row EXCEPT ![t] = status]
  /\ worker' = [worker EXCEPT
                  ![w].pass = [Pass(w) EXCEPT
                    !.live = @ \ {t},
                    !.slice = @ \ {t},
                    !.completed = IF status = "completed"
                                    THEN @ \cup {t} ELSE @]]
  /\ OnlyRows /\ UNCHANGED excused

Outcome(p) ==
  CASE p.timedOut /\ p.completed = {} /\ p.placed = {} -> "aborted"
    [] p.timedOut /\ p.completed = {} /\ p.placed # {} -> "blocked"
    [] p.timedOut /\ p.completed # {} -> "partial"
    [] ~p.timedOut /\ p.placed = {} ->
         IF p.skipped # {} THEN "mission_budget_exhausted" ELSE "blocked"
    [] ~p.timedOut /\ p.placed # {} /\ p.completed = p.placed -> "completed"
    [] ~p.timedOut /\ p.completed = {} /\ p.placed # {} -> "blocked"
    [] OTHER -> "partial"

FinishPass(w) ==
  /\ Handed(w)
  /\ Pass(w).pending = {} \/ Pass(w).timedOut
  /\ EndPass(w, Outcome(Pass(w)))
  /\ Local /\ UNCHANGED excused

(***************************************************************************)
(* Faults and the environment.                                             *)
(***************************************************************************)

Fault == faults < env.faults /\ faults' = faults + 1

(* The owners cannot be listed: the cycle ends with an error.              *)
CycleReadFails(w) ==
  /\ worker[w].pc \in {"sweep", "owners"}
  /\ Fault
  /\ Goto(w, "sleeping")
  /\ UNCHANGED <<rows, excused>>

(* A read before placement fails: the pass ends with an error.             *)
PassReadFails(w) ==
  /\ worker[w].pc \in Checking
  /\ Fault
  /\ EndPass(w, "error")
  /\ UNCHANGED <<rows, excused>>

(* An unreadable budget skips the task; a placement that throws is passed  *)
(* over.                                                                   *)
PlacementFails(w, t) ==
  /\ \/ At(w, "placing") /\ Considers(w, t) /\ MissionOf[t] # None
     \/ At(w, "assigning") /\ t = First(Pass(w).todo)
  /\ Fault
  /\ worker' = [worker EXCEPT
                  ![w].pc = "placing",
                  ![w].pass.todo = @ \ {t},
                  ![w].pass.skipped = IF At(w, "placing") THEN @ \cup {t}
                                      ELSE @]
  /\ UNCHANGED <<rows, excused>>

(* The process dies and is started again.                                  *)
Crash(w) ==
  /\ worker[w].pc \notin {"starting", "stopped"}
  /\ Fault
  /\ worker' = [worker EXCEPT ![w] = Fresh]
  /\ excused' = excused \ {w}
  /\ UNCHANGED rows

(* requestStop, on SIGTERM or SIGINT.                                      *)
RequestStop(w) ==
  /\ w \in env.stoppable
  /\ ~worker[w].stopping
  /\ worker' = [worker EXCEPT ![w].stopping = TRUE]
  /\ Local /\ UNCHANGED excused

CreateTask(t) ==
  /\ t \in env.late /\ row[t] = "none"
  /\ row' = [row EXCEPT ![t] = "queued"]
  /\ OnlyRows /\ UNCHANGED <<worker, excused>>

(* setGlobalEmergencyStop, or the row is lost.                             *)
SetGlobalControl(value) ==
  /\ control # value
  /\ stops < env.stops
  /\ stops' = stops + 1
  /\ control' = value
  /\ excused' = IF value = "enabled" THEN {}
                ELSE IF StopActive THEN excused
                ELSE {w \in Workers : worker[w].pc \in Working}
  /\ UNCHANGED <<locked, row, spent, worker, faults>>

(* activateLockdown and releaseLockdown.                                   *)
ToggleLockdown(o) ==
  /\ o \in env.lockable
  /\ locked' = IF o \in locked THEN locked \ {o} ELSE locked \cup {o}
  /\ UNCHANGED <<control, row, spent, stops, worker, faults, excused>>

Cycle(w) ==
  \/ StartWorker(w)
  \/ StartCycle(w)
  \/ RecoverStale(w)
  \/ ListOwners(w)
  \/ PassReturns(w)

Check(w) ==
  \/ PassReadsControl(w)
  \/ PassReadsLockdown(w)
  \/ PassReadsCost(w)
  \/ Discover(w)
  \/ Recheck(w)

Place(w) ==
  \/ \E t \in Tasks : MissionBudgetAllows(w, t)
                       \/ MissionBudgetSkips(w, t)
                       \/ PlaceTask(w, t)

Execute(w) ==
  \/ TakeSlice(w)
  \/ \E t \in Tasks :
       \/ StartExecution(w, t)
       \/ RefuseExecution(w, t)
       \/ ChargeExecution(w, t)
       \/ \E status \in {"completed", "failed", "assigned"} :
            EndExecution(w, t, status)
  \/ FinishPass(w)

Step(w) == Cycle(w) \/ Check(w) \/ Place(w) \/ Execute(w)

Faults(w) ==
  \/ CycleReadFails(w)
  \/ PassReadFails(w)
  \/ \E t \in Tasks : PlacementFails(w, t)
  \/ Crash(w)

Change ==
  \/ \E w \in Workers : Step(w) \/ TimesOut(w) \/ Faults(w) \/ RequestStop(w)
  \/ \E t \in Tasks : CreateTask(t)
  \/ \E value \in {"enabled", "stopped", "missing"} : SetGlobalControl(value)
  \/ \E o \in Owners : ToggleLockdown(o)

Next == Change /\ UNCHANGED env

Spec == Init /\ [][Next]_vars

(* A worker process keeps running: run is an endless loop whose delays are *)
(* bounded and whose executions time out.                                  *)
FairSpec == Spec /\ \A w \in Workers : WF_vars(Step(w) /\ UNCHANGED env)

(***************************************************************************)
(* Properties.                                                             *)
(***************************************************************************)

(* What a process keeps to: nothing is placed before the second look at    *)
(* the control, tasks waiting, awaited or claimed have been placed, none   *)
(* is awaited outside the execution, and there are never more than         *)
(* maxTasksPerRun of them.                                                 *)
PassSound(p) ==
  /\ p.pc \in Checking => p.pass.placed = {}
  /\ p.pass.pending \subseteq p.pass.placed
  /\ p.pass.slice \subseteq p.pass.placed
  /\ p.pc # "executing" => p.pass.slice = {}
  /\ p.pass.live \subseteq p.pass.slice
  /\ Cardinality(p.pass.placed) <= MaxTasks
  /\ p.pc = "assigning" => /\ Cardinality(p.pass.placed) < MaxTasks
                           /\ First(p.pass.todo) \in Tasks

PassesSound ==
  \A w \in Workers : /\ w \notin env.workers => At(w, "stopped")
                     /\ PassSound(worker[w])

(* The tasks a process may still be charged for: placed and without a cost *)
(* row, or allowed by the budget of the mission and about to be placed.    *)
Uncharged(p) ==
  {t \in Tasks : \/ p.pc \in Working /\ t \in p.pass.placed \ p.pass.charged
                 \/ p.pc = "assigning" /\ t = First(p.pass.todo)}

Outstanding(m) ==
  {c \in Workers \X Tasks :
     c[2] \in Uncharged(worker[c[1]]) /\ MissionOf[c[2]] = m}

(* A budget is compared with what is spent, so what is spent and what is   *)
(* outstanding exceed it by less than one pass of each worker: this is     *)
(* what bounds the overrun, for a charge turns the one into the other.     *)
OutstandingBounded ==
  \A m \in Missions : BudgetLimit[m] > 0 =>
    MissionCost(m) + Cardinality(Outstanding(m))
      < BudgetLimit[m] + Cardinality(env.workers) * MaxTasks

Sound == TypeOK /\ PassesSound /\ StopBoundsWork /\ OutstandingBounded

(* The owners with schedulable work that are listed before o.               *)
Ahead(o) == {q \in Owners : q < o /\ Schedulable(q) # {}}

(* An owner who stays among the first MaxOwners owners with schedulable    *)
(* work is served by some worker in the end, unless the workforce is       *)
(* stopped or all workers are: the owners of one cycle never shut one      *)
(* another out, whatever their missions, lockdowns and failures.  Of the   *)
(* others nothing can be said: the list is cut before it is rotated, so an *)
(* owner may be kept out of it for ever by owners with smaller ids whose   *)
(* work is never placed.                                                   *)
OwnerServed ==
  \A o \in Owners :
    Schedulable(o) # {} /\ Cardinality(Ahead(o)) < MaxOwners ~>
      \/ Schedulable(o) = {}
      \/ Cardinality(Ahead(o)) >= MaxOwners
      \/ StopActive
      \/ \A w \in env.workers : worker[w].stopping
      \/ \E w \in Workers : worker[w].pc \in Checking /\ Owner(w) = o
=============================================================================
