----------------------------- MODULE TaskStatus -----------------------------
(***************************************************************************)
(* The deterministic task state machine of src/core/taskEngine.ts: the     *)
(* statuses, the table of allowed transitions, and the decision taken when *)
(* an attempt fails.  Pure definitions, shared by every module that moves  *)
(* a task.                                                                 *)
(***************************************************************************)
EXTENDS Naturals

TaskStatuses == {"created", "queued", "running", "needs_approval", "paused",
                 "failed", "completed", "cancelled"}

TerminalTaskStatuses == {"completed", "failed", "cancelled"}

Transitions ==
  [created        |-> {"queued", "needs_approval", "cancelled"},
   queued         |-> {"running", "paused", "cancelled"},
   running        |-> {"completed", "failed", "paused", "cancelled"},
   needs_approval |-> {"queued", "paused", "cancelled"},
   paused         |-> {"queued", "cancelled"},
   failed         |-> {"queued", "cancelled"},
   completed      |-> {},
   cancelled      |-> {}]

CanTransition(from, to) == to \in Transitions[from]

(* assertTransition: a write of the current status is accepted as well.    *)
AssertTransition(from, to) == from = to \/ CanTransition(from, to)

(* handleTaskFailure: the failed attempt is counted, and the task goes     *)
(* back to the queue unless that attempt was the last one it was allowed.  *)
Exhausted(attempts, maxAttempts) == attempts + 1 >= maxAttempts

FailureStatus(attempts, maxAttempts) ==
  IF Exhausted(attempts, maxAttempts) THEN "failed" ELSE "queued"
=============================================================================
