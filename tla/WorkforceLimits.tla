-------------------------- MODULE WorkforceLimits ---------------------------
(***************************************************************************)
(* The limits on the autonomous workforce, the global stop and the budgets *)
(* of missions, and what they promise of the state of the worker           *)
(* processes, whatever a pass does step by step (WorkforceRuntime).        *)
(***************************************************************************)
EXTENDS Integers, Sequences, FiniteSets

CONSTANTS
  Workers,       \* worker processes
  Missions,
  MissionOf,     \* tasks.mission_id
  BudgetLimit,   \* missions.budget_limit, 0 for none
  MaxTasks       \* maxTasksPerRun

VARIABLES
  control,   \* the workforce_control row
  spent,     \* the cost_events: the task each row is about, in their order
  worker,    \* the local state of each worker process
  excused,   \* history: the workers whose pass was under way at the stop
  env        \* the worker processes there are, the tasks there are from the
             \* start and those created later, the workers asked to stop, the
             \* owners locked down, and bounds on the changes of the global
             \* control and on crashes and failed store calls together

(* A row that is missing counts as a stop: the control fails closed.       *)
StopActive == control # "enabled"

(* The steps of a pass in which it hands out work.                         *)
Working == {"placing", "assigning", "executing"}

MissionCost(m) == Cardinality({i \in DOMAIN spent : MissionOf[spent[i]] = m})

(* While the workforce is globally stopped, only a pass that had already   *)
(* looked for the second time when it was stopped hands out work, and no   *)
(* worker does so for a second owner.                                      *)
StopBoundsWork ==
  StopActive => \A w \in Workers : worker[w].pc \in Working => w \in excused

(* The mission budget is only compared before placement, so it may be      *)
(* overrun, but never by more than what the passes of all the workers had  *)
(* placed by then.                                                         *)
OverrunBounded ==
  \A m \in Missions : BudgetLimit[m] > 0 =>
    MissionCost(m) < BudgetLimit[m] + Cardinality(env.workers) * MaxTasks
=============================================================================
