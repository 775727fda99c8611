-------------------------- MODULE CommandExecution --------------------------
(***************************************************************************)
(* The execution of commands (api/execution.ts): the candidates the router *)
(* ranks, tried one after the other through the resilient adapter of their *)
(* provider (gateways/resilience.ts), the loop in which a model asks for   *)
(* tools and the tool broker clears them, the minute after which all of it *)
(* is aborted, and the plans of several steps (core/orchestration.ts).     *)
(* Executions run concurrently and share the circuit breakers.             *)
(***************************************************************************)
EXTENDS ModelRouting

CONSTANTS Executions,       \* commands being executed
          MultiStep,        \* those whose text asks for a plan of several steps
          NoModel,          \* no model
          Configured,       \* providers with a key
          FailureThreshold, \* failures in a row that open a circuit
          MaxAttempts,      \* requests of one logical call
          MaxRounds,        \* FACTORY_MAX_TOOL_ROUNDS
          MaxCalls,         \* tools a response asks for, at most
          FailureStreak,    \* refused tools in a row before the limiter is asked
          MaxSteps,         \* FACTORY_MAX_ORCHESTRATION_STEPS
          Plans             \* plans a model may propose

ASSUME ExecutionAssumption ==
    /\ NoModel \notin Models /\ Configured \subseteq Providers
    /\ MultiStep \subseteq Executions
    /\ FailureThreshold \in Nat \ {0} /\ MaxAttempts \in Nat \ {0}
    /\ MaxRounds \in Nat \ {0} /\ MaxCalls \in Nat \ {0}
    /\ FailureStreak \in Nat \ {0} /\ MaxSteps \in Nat \ {0}
    /\ Plans \subseteq Seq([tool : {"known", "unknown", "no args"},
                            dependsOn : SUBSET Nat, refs : SUBSET Nat])

VARIABLES run,      \* the execution of each command
          circuit,  \* the circuit breaker of each provider
          streak,   \* the failed calls in a row it has counted
          cooled    \* providers whose circuit has been open long enough

vars == <<run, circuit, streak, cooled>>
breakers == <<circuit, streak, cooled>>

Idle == [pc |-> "idle", ranked |-> <<>>, at |-> 1, dead |-> {}, called |-> {},
         model |-> NoModel, planning |-> FALSE, round |-> 0, attempt |-> 0,
         failures |-> 0, left |-> 0, aborted |-> FALSE, acts |-> 0, late |-> 0,
         plan |-> <<>>, step |-> 0, steps |-> <<>>, ok |-> FALSE]

Init ==
    /\ run = [e \in Executions |-> Idle]
    /\ circuit = [p \in Providers |-> "closed"]
    /\ streak = [p \in Providers |-> 0]
    /\ cooled = {}

At(e, label) == run[e].pc = label
Become(e, r) == run' = [run EXCEPT ![e] = r]
Goto(e, label) == Become(e, [run[e] EXCEPT !.pc = label])

(* What is kept of an execution that is over.                                *)
Answered(r, ok) ==
    [Idle EXCEPT !.pc = "answered", !.ok = ok, !.plan = r.plan, !.steps = r.steps,
                 !.called = r.called, !.acts = r.acts]

Fail(e) == Become(e, Answered(run[e], FALSE))
Succeed(e) == Become(e, Answered(run[e], TRUE))

ProviderOf(e) == Registry[run[e].model].provider

---------------------------------------------------------------------------
(* Routing and fallback: executeInner and the start of planSteps.           *)

(* The models, the requirements and the health table are read, then the     *)
(* circuits are looked at.  Without a candidate a command goes to a runtime, *)
(* a plan is not made.  A plan is asked of the primary only.                 *)
Receive(e) ==
    /\ At(e, "idle")
    /\ \E need \in Needs, health \in HealthTables :
       \E route \in Routes(need, health, circuit) :
          LET ranked == IF e \in MultiStep /\ route # <<>> THEN <<Head(route)>> ELSE route IN
          Become(e, IF ranked = <<>> /\ e \in MultiStep THEN Answered(Idle, FALSE)
                    ELSE [Idle EXCEPT !.ranked = ranked, !.planning = e \in MultiStep,
                            !.pc = IF ranked = <<>> THEN "runtime" ELSE "choosing"])
    /\ UNCHANGED breakers

(* Questions about the factory are answered from the store.                  *)
Inform(e) ==
    /\ At(e, "idle") /\ e \notin MultiStep
    /\ Become(e, Answered(Idle, TRUE))
    /\ UNCHANGED breakers

(* A candidate throws: the last one is the answer, after an earlier one the  *)
(* next is tried, from the start.                                            *)
GiveUp(r) ==
    IF r.at >= Len(r.ranked) THEN Answered(r, FALSE)
    ELSE [r EXCEPT !.pc = "choosing", !.at = @ + 1, !.dead = @ \cup {r.model},
                   !.model = NoModel, !.round = 0, !.attempt = 0, !.failures = 0]

(* Mutant: an open circuit lets everybody through.                           *)
CanProceedAlways(p) == TRUE

(* canProceed: what is half open is as good as closed.                       *)
CanProceed(p) == circuit[p] # "open" \/ p \in cooled

(* Nothing is awaited between the choice of a candidate, or the last tool of  *)
(* a round, and the circuit that is asked for the next call.                  *)
Enter(e, r) ==
    LET p == Registry[r.model].provider IN
    /\ IF CanProceed(p)
       THEN /\ Become(e, [r EXCEPT !.pc = "requesting", !.attempt = 1])
            /\ circuit' = [circuit EXCEPT ![p] = IF p \in cooled THEN "half_open" ELSE @]
            /\ cooled' = cooled \ {p}
       ELSE /\ Become(e, GiveUp(r))
            /\ UNCHANGED <<circuit, cooled>>
    /\ UNCHANGED streak

Candidate(e) == FirstNotIn(run[e].ranked, run[e].dead)

(* A candidate without a key is skipped; the limiter of model calls may end   *)
(* the execution.                                                             *)
Choose(e) ==
    LET r == run[e] m == Candidate(e) IN
    /\ At(e, "choosing") /\ r.at <= Len(r.ranked)
    /\ \/ /\ Registry[m].provider \notin Configured
          /\ Become(e, IF r.planning THEN Answered(r, FALSE)
                       ELSE [r EXCEPT !.at = @ + 1, !.dead = @ \cup {m}])
          /\ UNCHANGED breakers
       \/ /\ Registry[m].provider \in Configured
          /\ Enter(e, [r EXCEPT !.model = m, !.round = 1, !.called = @ \cup {m}])
       \/ Fail(e) /\ UNCHANGED breakers

(* No candidate is left: the runtime adapter, if any, runs the command.       *)
Exhaust(e) ==
    /\ At(e, "choosing") /\ run[e].at > Len(run[e].ranked)
    /\ Goto(e, "runtime")
    /\ UNCHANGED breakers

RunOnRuntime(e) ==
    /\ At(e, "runtime")
    /\ Succeed(e) \/ Fail(e)
    /\ UNCHANGED breakers

---------------------------------------------------------------------------
(* Plans of several steps, numbered from one: validatePlan.                   *)

Acyclic(plan) ==
    \A S \in (SUBSET DOMAIN plan) \ {{}} : \E i \in S : plan[i].dependsOn \cap S = {}

ValidPlan(plan) ==
    /\ plan # <<>> /\ Len(plan) <= MaxSteps
    /\ \A i \in DOMAIN plan :
          /\ plan[i].tool = "known"
          /\ plan[i].dependsOn \subseteq DOMAIN plan \ {i}
          /\ \A j \in plan[i].refs : j \in 1 .. i - 1
    /\ Acyclic(plan)

(* An invalid plan is an answer; arguments that are missing throw.            *)
Planned(plan) ==
    IF ValidPlan(plan)
    THEN [Idle EXCEPT !.pc = "stepping", !.plan = plan, !.step = 1,
                      !.steps = [i \in DOMAIN plan |-> "pending"]]
    ELSE Answered(Idle, FALSE)

---------------------------------------------------------------------------
(* One logical call through the resilient adapter.                           *)

(* recordSuccess: an open circuit stays open, though its count is reset.      *)
RecordSuccess(p) ==
    /\ streak' = [streak EXCEPT ![p] = 0]
    /\ circuit' = [circuit EXCEPT ![p] = IF @ = "half_open" THEN "closed" ELSE @]
    /\ UNCHANGED cooled

(* recordFailure: once per logical call.  Past the threshold the count no     *)
(* longer matters and is kept at it.                                          *)
RecordFailure(p) ==
    LET count == IF streak[p] < FailureThreshold THEN streak[p] + 1 ELSE streak[p]
        opens == circuit[p] = "half_open" \/ count = FailureThreshold IN
    /\ streak' = [streak EXCEPT ![p] = count]
    /\ circuit' = [circuit EXCEPT ![p] = IF opens THEN "open" ELSE @]
    /\ cooled' = IF opens THEN cooled \ {p} ELSE cooled

(* Mutant: requests do not carry the signal.                                  *)
CutOffNever(e) == FALSE

(* After the minute every request is refused at once.                         *)
CutOff(e) == run[e].aborted

Answers(e) == At(e, "requesting") /\ ~CutOff(e)

RespondsWithText(e) ==
    /\ Answers(e) /\ ~run[e].planning
    /\ RecordSuccess(ProviderOf(e))
    /\ Succeed(e)

RespondsWithTools(e) ==
    /\ Answers(e) /\ ~run[e].planning
    /\ RecordSuccess(ProviderOf(e))
    /\ \E n \in 1 .. MaxCalls :
          Become(e, [run[e] EXCEPT !.pc = "acting", !.left = n])

(* A plan, or anything else, which is as good as none.                        *)
RespondsWithPlan(e) ==
    /\ Answers(e) /\ run[e].planning
    /\ RecordSuccess(ProviderOf(e))
    /\ Fail(e) \/ \E plan \in Plans : Become(e, Planned(plan))

(* HTTP 408, 429, 5xx, a network error or the timeout of the request.         *)
FailsTransiently(e) ==
    /\ Answers(e)
    /\ IF run[e].attempt < MaxAttempts
       THEN /\ Become(e, [run[e] EXCEPT !.attempt = @ + 1])
            /\ UNCHANGED breakers
       ELSE /\ RecordFailure(ProviderOf(e))
            /\ Become(e, GiveUp(run[e]))

FailsForGood(e) ==
    /\ Answers(e)
    /\ RecordFailure(ProviderOf(e))
    /\ Become(e, GiveUp(run[e]))

(* The aborted request is not transient: the provider is charged with it.     *)
Aborts(e) ==
    /\ At(e, "requesting") /\ CutOff(e)
    /\ RecordFailure(ProviderOf(e))
    /\ Fail(e)

---------------------------------------------------------------------------
(* The tool loop.  The tools of a response are called one after the other.   *)

Decisions == {"auto", "notify", "require_approval", "deny"}

(* ToolBroker.call for a registered tool: a request for an approval, or a     *)
(* tool that looks for the approval itself, may pass without one.             *)
Brokered(decision, bound, guarded) ==
    /\ decision # "deny"
    /\ decision = "require_approval" => bound
    /\ guarded

Verdicts == {Brokered(d, bound, guarded) : d \in Decisions, bound, guarded \in BOOLEAN}

(* Mutant: one round more.                                                    *)
NextRoundLate(e, r) ==
    IF r.round <= MaxRounds THEN Enter(e, [r EXCEPT !.round = @ + 1])
    ELSE Become(e, Answered(r, TRUE)) /\ UNCHANGED breakers

(* Running out of rounds is a success without a text.                         *)
NextRound(e, r) ==
    IF r.round < MaxRounds THEN Enter(e, [r EXCEPT !.round = @ + 1])
    ELSE Become(e, Answered(r, TRUE)) /\ UNCHANGED breakers

(* Within a response nothing looks at the signal.                             *)
AfterTool(e, r) ==
    IF r.left > 1 THEN Become(e, [r EXCEPT !.left = @ - 1]) /\ UNCHANGED breakers
    ELSE NextRound(e, [r EXCEPT !.left = 0])

Streak(r) == IF r.failures < FailureStreak THEN r.failures + 1 ELSE r.failures

(* A tool that does not exist.                                                *)
UnknownTool(e) ==
    /\ At(e, "acting")
    /\ AfterTool(e, [run[e] EXCEPT !.failures = Streak(run[e])])

(* The broker refuses; after several refusals the limiter may end it.          *)
RefuseTool(e) ==
    LET r == [run[e] EXCEPT !.failures = Streak(run[e])] IN
    /\ At(e, "acting")
    /\ FALSE \in Verdicts
    /\ \/ AfterTool(e, r)
       \/ r.failures >= FailureStreak /\ Fail(e) /\ UNCHANGED breakers

(* The handler runs, and nothing aborts it.  One that throws counts as a       *)
(* failure, the first in a row.                                              *)
RunTool(e) ==
    /\ At(e, "acting")
    /\ TRUE \in Verdicts
    /\ \E failures \in {0, 1} :
          AfterTool(e, [run[e] EXCEPT !.failures = failures, !.acts = @ + 1,
                          !.late = IF run[e].aborted THEN @ + 1 ELSE @])

---------------------------------------------------------------------------
(* The steps of a plan, until the first that is skipped or fails.             *)

Done == {"done", "done with id"}
Mark(r, status) == [r EXCEPT !.steps[r.step] = status]

Met(r) == \A j \in r.plan[r.step].dependsOn : r.steps[j] \in Done

(* A step that refers to others needs an id from all it depends on.           *)
Usable(r) ==
    r.plan[r.step].refs # {} =>
        \A j \in r.plan[r.step].dependsOn : r.steps[j] = "done with id"

(* Mutant: the plan goes on after a step that was skipped.                    *)
AfterSkipGoesOn(r) ==
    IF r.step < Len(r.plan) THEN [Mark(r, "skipped") EXCEPT !.step = @ + 1]
    ELSE Answered(Mark(r, "skipped"), TRUE)

AfterSkip(r) == Answered(Mark(r, "skipped"), FALSE)

Ready(e) == At(e, "stepping") /\ Met(run[e]) /\ Usable(run[e])

SkipStep(e) ==
    /\ At(e, "stepping") /\ ~Ready(e)
    /\ Become(e, AfterSkip(run[e]))
    /\ UNCHANGED breakers

(* The limiter, the authority or the Guardian refuses, or the handler fails.   *)
FailStep(e) ==
    /\ Ready(e)
    /\ Become(e, Answered(Mark(run[e], "failed"), FALSE))
    /\ UNCHANGED breakers

CompleteStep(e) ==
    /\ Ready(e)
    /\ \E status \in Done :
          LET r == Mark(run[e], status) IN
          Become(e, IF r.step = Len(r.plan) THEN Answered(r, TRUE)
                    ELSE [r EXCEPT !.step = @ + 1])
    /\ UNCHANGED breakers

(* The handler outlives its step: the plan fails, the step stays `running'.   *)
StepTimesOut(e) ==
    /\ Ready(e)
    /\ Become(e, Answered(Mark(run[e], "running"), FALSE))
    /\ UNCHANGED breakers

---------------------------------------------------------------------------
(* Time.                                                                     *)

(* EXECUTION_TIMEOUT_MS: the making of a plan and its steps have no part in   *)
(* it.                                                                       *)
TimeOut(e) ==
    /\ run[e].pc \in {"requesting", "acting"}
    /\ ~run[e].planning /\ ~run[e].aborted
    /\ Become(e, [run[e] EXCEPT !.aborted = TRUE])
    /\ UNCHANGED breakers

(* circuitOpenDurationMs has passed.                                          *)
Cool(p) ==
    /\ circuit[p] = "open" /\ p \notin cooled
    /\ cooled' = cooled \cup {p}
    /\ UNCHANGED <<run, circuit, streak>>

(* The caller has the answer; the next command may come.                      *)
Forget(e) ==
    /\ At(e, "answered")
    /\ Become(e, Idle)
    /\ UNCHANGED breakers

Call(e) ==
    \/ RespondsWithText(e) \/ RespondsWithTools(e) \/ RespondsWithPlan(e)
    \/ FailsTransiently(e) \/ FailsForGood(e) \/ Aborts(e)

Tools(e) == UnknownTool(e) \/ RefuseTool(e) \/ RunTool(e)

Steps(e) ==
    SkipStep(e) \/ FailStep(e) \/ CompleteStep(e) \/ StepTimesOut(e)

Proceed(e) ==
    \/ Choose(e) \/ Exhaust(e) \/ RunOnRuntime(e)
    \/ Call(e) \/ Tools(e) \/ Steps(e) \/ Forget(e)

Next ==
    \/ \E e \in Executions : Receive(e) \/ Inform(e) \/ Proceed(e) \/ TimeOut(e)
    \/ \E p \in Providers : Cool(p)

Spec == Init /\ [][Next]_vars

(* Requests are answered, refused or timed out, handlers end, time passes.    *)
Fairness ==
    /\ \A e \in Executions : WF_vars(Proceed(e))
    /\ \A p \in Providers : WF_vars(Cool(p))

FairSpec == Spec /\ Fairness

(* Commands that need a model keep coming as well.                            *)
BusySpec == FairSpec /\ \A e \in Executions : SF_vars(Receive(e))

---------------------------------------------------------------------------
StepStatuses == {"pending", "skipped", "failed", "running"} \cup Done
Labels == {"idle", "choosing", "runtime", "requesting", "acting", "stepping",
           "answered"}

RunRecord ==
    [pc : Labels, ranked : Seq(Models), at : 1 .. MaxCandidates + 1,
     dead : SUBSET Models, called : SUBSET Models, model : Models \cup {NoModel},
     planning : BOOLEAN, round : 0 .. MaxRounds, attempt : 0 .. MaxAttempts,
     failures : 0 .. FailureStreak, left : 0 .. MaxCalls, aborted : BOOLEAN,
     acts : Nat, late : Nat, plan : Plans \cup {<<>>}, step : Nat,
     steps : Seq(StepStatuses), ok : BOOLEAN]

(* The values of the variables.                                              *)
TypeOK ==
    /\ run \in [Executions -> RunRecord]
    /\ circuit \in [Providers -> {"closed", "open", "half_open"}]
    /\ streak \in [Providers -> 0 .. FailureThreshold]
    /\ cooled \subseteq {p \in Providers : circuit[p] = "open"}

(* Fallback starts the loop again with another model, so the tools an         *)
(* execution runs are bounded by the rounds of the models it has called.      *)
EffectsBounded ==
    \A e \in Executions : run[e].acts <= Cardinality(run[e].called) * MaxRounds * MaxCalls

(* Once the minute is over only the tools of the response in hand are still    *)
(* started, whatever candidates and rounds are left.                          *)
AbortStopsTools == \A e \in Executions : run[e].late <= MaxCalls

InCall(p) == {e \in Executions : At(e, "requesting") /\ ProviderOf(e) = p}

(* While a circuit is open no execution begins a call to its provider, not    *)
(* even one that was routed before it opened.                                 *)
OpenAdmitsNobody ==
    [][\A p \in Providers :
          circuit[p] = "open" /\ circuit'[p] = "open" => InCall(p)' \subseteq InCall(p)]_vars

(* A step is taken up only after all it depends on is done, nothing is after  *)
(* a step that failed or was skipped, and a plan that is reported as executed *)
(* is done in every step.                                                     *)
StepsFollowPlan ==
    \A e \in Executions : \A i \in DOMAIN run[e].steps :
        /\ At(e, "answered") /\ run[e].ok => run[e].steps[i] \in Done
        /\ run[e].steps[i] \in {"running", "failed"} \cup Done =>
              \A j \in run[e].plan[i].dependsOn : run[e].steps[j] \in Done
        /\ run[e].steps[i] \in {"failed", "skipped"} =>
              \A j \in DOMAIN run[e].steps : j > i => run[e].steps[j] = "pending"

(* resilience.ts, modelHealth.ts: an open circuit is half open after its       *)
(* duration, when a call probes the provider.                                 *)
CircuitIsProbed == \A p \in Providers : circuit[p] = "open" ~> circuit[p] # "open"
=============================================================================
