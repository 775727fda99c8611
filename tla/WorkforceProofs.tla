-------------------------- MODULE WorkforceProofs ---------------------------
(***************************************************************************)
(* Theorems about the workforce: about TaskExecution, the life of a task,  *)
(* for every set of tasks, agents and executors, every capacity and every  *)
(* bound on attempts; then about WorkforceRuntime, the workers that        *)
(* discover, place and run the tasks of all owners, under the name W.      *)
(***************************************************************************)
EXTENDS TaskExecution, WorkforceLimits, FiniteSetTheorems, TLAPS

(* The initial states are safe.                                            *)
LEMMA InitSafe ==
  Init => Safe
  BY TaskExecutionAssumption
  DEF Init, Safe, TypeOK, WorkStatuses, TaskStatuses, ClaimExclusive,
      InFlightStatus, RowFits, RetryBounded, Idle, PC, AfterClaim, Verdicts,
      RunStatuses, Calls, WellFormed

(* A step that changes only the local state of e, and perhaps who is       *)
(* assigned: it preserves Safe when e does not enter the claimed section   *)
(* and the row still fits what e knows.                                    *)
LEMMA LocalStep ==
  ASSUME Safe, NEW e \in Executors, NEW c \in Calls,
         ex' = [ex EXCEPT ![e] = c],
         WellFormed(c), RowFits(c),
         c.pc \in AfterClaim
           => ex[e].pc \in AfterClaim /\ c.task = ex[e].task,
         c.pc = "patching" => c.seen < MaxAttempts,
         agent' \in [Tasks -> Agents \cup {None}],
         UNCHANGED <<status, attempts, started, edges, active>>
  PROVE  Safe'
<1>0. \A f \in Executors : ex'[f] = IF f = e THEN c ELSE ex[f]
  BY DEF Safe, TypeOK
<1>1. TypeOK'
  <2>1. ex' \in [Executors -> Calls]
    BY DEF Safe, TypeOK
  <2>2. \A f \in Executors : WellFormed(ex'[f])
    BY <1>0 DEF Safe, TypeOK
  <2> QED BY <2>1, <2>2 DEF Safe, TypeOK, WellFormed
<1>2. (status \in [Tasks -> WorkStatuses])'
  BY DEF Safe
<1>3. ClaimExclusive'
  BY <1>0 DEF Safe, ClaimExclusive
<1>4. InFlightStatus'
  <2> SUFFICES ASSUME NEW f \in Executors PROVE RowFits(ex[f])'
    BY DEF InFlightStatus
  <2> QED BY <1>0 DEF Safe, InFlightStatus, RowFits
<1>5. RetryBounded'
  BY <1>0 DEF Safe, RetryBounded
<1> QED BY <1>1, <1>2, <1>3, <1>4, <1>5 DEF Safe

(* The idle local state and the calls a step makes of the present one.     *)
LEMMA IdleCall ==
  Idle \in Calls /\ WellFormed(Idle) /\ RowFits(Idle)
    /\ Idle.pc = "idle" /\ Idle.pc \notin AfterClaim
  BY TaskExecutionAssumption
  DEF Idle, Calls, WellFormed, RowFits, PC, Verdicts, RunStatuses, AfterClaim

(* A call may always return without touching a row.                        *)
LEMMA ReturnSafe ==
  ASSUME Safe, NEW e \in Executors, Return(e),
         UNCHANGED <<status, agent, attempts, started, edges, active>>
  PROVE  Safe'
<1>1. agent' \in [Tasks -> Agents \cup {None}]
  BY DEF Safe, TypeOK
<1> QED BY <1>1, IdleCall, LocalStep DEF Return

(* Placement writes at most agent_id, and never from within the claimed    *)
(* section.                                                                *)
LEMMA PlaceSafe ==
  ASSUME Safe, NEW e \in Executors, Place(e)
  PROVE  Safe'
<1>0. /\ ex \in [Executors -> Calls]
      /\ agent \in [Tasks -> Agents \cup {None}]
      /\ ex[e] \in Calls
      /\ WellFormed(ex[e])
  BY DEF Safe, TypeOK
<1>1. CASE \E t \in Tasks : Discover(e, t)
  <2> PICK t \in Tasks : Discover(e, t)
    BY <1>1
  <2> DEFINE c == [ex[e] EXCEPT !.pc = "discovered", !.task = t]
  <2>1. c \in Calls /\ WellFormed(c) /\ RowFits(c) /\ c.pc \notin AfterClaim
        /\ c.pc # "patching"
    BY <1>0 DEF Calls, PC, WellFormed, RowFits, AfterClaim
  <2>2. ex' = [ex EXCEPT ![e] = c]
    BY <1>0 DEF Discover
  <2> HIDE DEF c
  <2> QED BY <1>0, <2>1, <2>2, LocalStep DEF Discover, Reads
<1>2. CASE \E a \in Agents : SelectCandidate(e, a)
  <2> PICK a \in Agents : SelectCandidate(e, a)
    BY <1>2
  <2> DEFINE c == [ex[e] EXCEPT !.pc = "selected", !.agent = a]
  <2>1. c \in Calls /\ WellFormed(c) /\ RowFits(c) /\ c.pc \notin AfterClaim
        /\ c.pc # "patching"
    BY <1>0 DEF Calls, PC, WellFormed, RowFits, AfterClaim, SelectCandidate, At
  <2>2. ex' = [ex EXCEPT ![e] = c]
    BY <1>0 DEF SelectCandidate
  <2> HIDE DEF c
  <2> QED BY <1>0, <2>1, <2>2, LocalStep DEF SelectCandidate, Reads
<1>3. CASE NoCandidate(e)
  BY <1>3, ReturnSafe DEF NoCandidate, Reads
<1>4. CASE AssignTaskIfUnassigned(e)
  <2> DEFINE c == [ex[e] EXCEPT !.pc = "placed"]
  <2>1. c \in Calls /\ WellFormed(c) /\ RowFits(c) /\ c.pc \notin AfterClaim
        /\ c.pc # "patching"
    BY <1>0, <1>4 DEF Calls, PC, WellFormed, RowFits, AfterClaim,
                      AssignTaskIfUnassigned, At
  <2>2. ex' = [ex EXCEPT ![e] = c]
    BY <1>0, <1>4 DEF AssignTaskIfUnassigned, Goto
  <2>3. agent' \in [Tasks -> Agents \cup {None}]
    BY <1>0, <1>4 DEF AssignTaskIfUnassigned, At, WellFormed
  <2> HIDE DEF c
  <2> QED BY <1>4, <2>1, <2>2, <2>3, LocalStep DEF AssignTaskIfUnassigned
<1>5. CASE AssignmentRefused(e)
  BY <1>5, ReturnSafe DEF AssignmentRefused, Reads
<1>6. CASE AgentRefused(e)
  <2> DEFINE tried == ex[e].excluded \cup {ex[e].agent}
             c == [ex[e] EXCEPT !.pc = "discovered", !.excluded = tried]
  <2>1. CASE Cardinality(tried) < 2
    <3>1. c \in Calls /\ WellFormed(c) /\ RowFits(c) /\ c.pc \notin AfterClaim
          /\ c.pc # "patching"
      BY <1>0, <1>6 DEF Calls, PC, WellFormed, RowFits, AfterClaim,
                        AgentRefused, At
    <3>2. ex' = [ex EXCEPT ![e] = c]
      BY <1>0, <1>6, <2>1 DEF AgentRefused
    <3> HIDE DEF c
    <3> QED BY <1>0, <1>6, <3>1, <3>2, LocalStep DEF AgentRefused, Reads
  <2>2. CASE ~(Cardinality(tried) < 2)
    BY <1>6, <2>2, ReturnSafe DEF AgentRefused, Reads
  <2> QED BY <2>1, <2>2
<1> QED BY <1>1, <1>2, <1>3, <1>4, <1>5, <1>6 DEF Place

(* The claim is the only way into the claimed section, and it needs the    *)
(* row queued, which no call in flight on the task allows.                 *)
LEMMA PrepareSafe ==
  ASSUME Safe, NEW e \in Executors, Prepare(e)
  PROVE  Safe'
<1>0. /\ ex \in [Executors -> Calls]
      /\ agent \in [Tasks -> Agents \cup {None}]
      /\ ex[e] \in Calls
      /\ WellFormed(ex[e])
  BY DEF Safe, TypeOK
<1>1. CASE CheckAssignment(e)
  <2> DEFINE c == [ex[e] EXCEPT !.pc = "checked"]
  <2>1. c \in Calls /\ WellFormed(c) /\ RowFits(c) /\ c.pc \notin AfterClaim
        /\ c.pc # "patching"
    BY <1>0, <1>1 DEF Calls, PC, WellFormed, RowFits, AfterClaim,
                      CheckAssignment, At
  <2>2. ex' = [ex EXCEPT ![e] = c]
    BY <1>0, <1>1 DEF CheckAssignment, Goto
  <2> HIDE DEF c
  <2> QED BY <1>0, <1>1, <2>1, <2>2, LocalStep DEF CheckAssignment, Reads
<1>2. CASE Refuse(e)
  BY <1>2, ReturnSafe DEF Refuse, Reads
<1>3. CASE ClaimTaskForExecution(e)
  <2> DEFINE t == ex[e].task
  <2>0. /\ t \in Tasks
        /\ status[t] = "queued"
        /\ status' = [status EXCEPT ![t] = "running"]
        /\ ex[e].pc = "checked"
        /\ \A f \in Executors :
             ex'[f] = IF f = e THEN [ex[e] EXCEPT !.pc = "claimed"] ELSE ex[f]
    BY <1>0, <1>3 DEF ClaimTaskForExecution, Claimable, At, Goto, WellFormed
  <2>1. \A f \in Executors : ex[f].pc \in AfterClaim => ex[f].task # t
    BY <2>0 DEF Safe, InFlightStatus, RowFits, AfterClaim
  <2>2. TypeOK'
    <3>1. ex' \in [Executors -> Calls]
      BY <1>0, <1>3 DEF ClaimTaskForExecution, Goto, Calls, PC
    <3>2. \A f \in Executors : WellFormed(ex'[f])
      BY <1>0, <2>0 DEF Safe, TypeOK, WellFormed, Calls
    <3>3. started' \in [Tasks -> {"null", "recent", "stale"}]
      BY <1>3, <2>0 DEF ClaimTaskForExecution, Safe, TypeOK
    <3> QED BY <1>3, <2>0, <3>1, <3>2, <3>3
            DEF ClaimTaskForExecution, Safe, TypeOK, WellFormed, TaskStatuses
  <2>3. (status \in [Tasks -> WorkStatuses])'
    BY <2>0 DEF Safe, WorkStatuses
  <2>4. ClaimExclusive'
    BY <1>0, <2>0, <2>1 DEF Safe, ClaimExclusive, Calls
  <2>5. InFlightStatus'
    <3> SUFFICES ASSUME NEW f \in Executors PROVE RowFits(ex[f])'
      BY DEF InFlightStatus
    <3>1. CASE f = e
      BY <1>0, <2>0, <3>1 DEF RowFits, Calls, Safe
    <3>2. CASE f # e /\ ex[f].pc \in AfterClaim
      BY <2>0, <2>1, <3>2 DEF RowFits, Safe, InFlightStatus, TypeOK
    <3>3. CASE f # e /\ ex[f].pc \notin AfterClaim
      BY <2>0, <3>3 DEF RowFits, AfterClaim
    <3> QED BY <3>1, <3>2, <3>3
  <2>6. RetryBounded'
    BY <1>0, <1>3, <2>0
    DEF ClaimTaskForExecution, Safe, RetryBounded, TypeOK, Calls
  <2> QED BY <2>2, <2>3, <2>4, <2>5, <2>6 DEF Safe
<1>4. CASE ClaimRefused(e)
  BY <1>4, ReturnSafe DEF ClaimRefused, Reads
<1>5. CASE CreateTaskRun(e)
  <2> DEFINE c == [ex[e] EXCEPT !.pc = "executing", !.run = "running"]
  <2>1. c \in Calls /\ WellFormed(c) /\ RowFits(c)
        /\ ex[e].pc \in AfterClaim /\ c.task = ex[e].task
        /\ c.pc # "patching"
    BY <1>0, <1>5 DEF Calls, PC, RunStatuses, WellFormed, RowFits, AfterClaim,
                      CreateTaskRun, At, Safe, InFlightStatus
  <2>2. ex' = [ex EXCEPT ![e] = c]
    BY <1>0, <1>5 DEF CreateTaskRun
  <2> HIDE DEF c
  <2> QED BY <1>0, <1>5, <2>1, <2>2, LocalStep DEF CreateTaskRun, Reads
<1> QED BY <1>1, <1>2, <1>3, <1>4, <1>5 DEF Prepare

(* The outcome of an attempt is decided without writing any row.           *)
LEMMA DenySafe ==
  ASSUME Safe, NEW e \in Executors, NEW verdict \in Verdicts,
         ex[e].pc \in {"executing", "completing", "closing", "recording"},
         Deny(e, verdict), Reads
  PROVE  Safe'
<1>0. /\ ex \in [Executors -> Calls]
      /\ agent \in [Tasks -> Agents \cup {None}]
      /\ ex[e] \in Calls
      /\ WellFormed(ex[e])
  BY DEF Safe, TypeOK
<1> DEFINE c == [ex[e] EXCEPT !.pc = "failing", !.verdict = verdict]
<1>1. c \in Calls /\ WellFormed(c) /\ RowFits(c)
      /\ ex[e].pc \in AfterClaim /\ c.task = ex[e].task
      /\ c.pc # "patching"
  BY <1>0 DEF Calls, PC, WellFormed, RowFits, AfterClaim, Safe, InFlightStatus
<1>2. ex' = [ex EXCEPT ![e] = c]
  BY <1>0 DEF Deny
<1> HIDE DEF c
<1> QED BY <1>0, <1>1, <1>2, LocalStep DEF Reads

LEMMA ExecuteSafe ==
  ASSUME Safe, NEW e \in Executors, Execute(e)
  PROVE  Safe'
<1>0. /\ ex \in [Executors -> Calls]
      /\ agent \in [Tasks -> Agents \cup {None}]
      /\ ex[e] \in Calls
      /\ WellFormed(ex[e])
  BY DEF Safe, TypeOK
<1>1. CASE ExecutionFails(e)
  BY <1>1, DenySafe DEF ExecutionFails, At, Verdicts
<1>2. CASE GateDenies(e, "retry") \/ GateDenies(e, "closed")
  BY <1>2, DenySafe DEF GateDenies, At, Verdicts
<1>3. CASE ExecutionAccepted(e)
  <2> DEFINE c == [ex[e] EXCEPT !.pc = "completing"]
  <2>1. c \in Calls /\ WellFormed(c) /\ RowFits(c)
        /\ ex[e].pc \in AfterClaim /\ c.task = ex[e].task
        /\ c.pc # "patching"
    BY <1>0, <1>3 DEF Calls, PC, WellFormed, RowFits, AfterClaim,
                      ExecutionAccepted, At, Safe, InFlightStatus
  <2>2. ex' = [ex EXCEPT ![e] = c]
    BY <1>0, <1>3 DEF ExecutionAccepted, Goto
  <2> HIDE DEF c
  <2> QED BY <1>0, <1>3, <2>1, <2>2, LocalStep DEF ExecutionAccepted, Reads
<1>4. CASE WorkspaceChanged(e)
  BY <1>4, DenySafe DEF WorkspaceChanged, At, Verdicts
<1>5. CASE GuardedCallThrows(e)
  BY <1>5, DenySafe DEF GuardedCallThrows, Verdicts
<1> QED BY <1>1, <1>2, <1>3, <1>4, <1>5 DEF Execute

(* A call that rewrites the status of the task it holds and either goes on *)
(* to "recording" or returns: no other call holds that task.               *)
LEMMA RowWrite ==
  ASSUME Safe, NEW e \in Executors, NEW s \in WorkStatuses,
         NEW n \in 0..MaxAttempts, NEW c \in Calls,
         ex[e].pc \in AfterClaim,
         ex' = [ex EXCEPT ![e] = c],
         WellFormed(c),
         \/ c.pc = "idle"
         \/ c.pc = "recording" /\ c.task = ex[e].task /\ s = "completed",
         status' = [status EXCEPT ![ex[e].task] = s],
         attempts' = [attempts EXCEPT ![ex[e].task] = n],
         s \in {"queued", "running"} => n < MaxAttempts,
         UNCHANGED <<agent, started, edges, active>>
  PROVE  Safe'
<1> DEFINE t == ex[e].task
<1>0. /\ t \in Tasks
      /\ \A f \in Executors : ex'[f] = IF f = e THEN c ELSE ex[f]
      /\ \A u \in Tasks : status'[u] = IF u = t THEN s ELSE status[u]
      /\ \A u \in Tasks : attempts'[u] = IF u = t THEN n ELSE attempts[u]
  BY DEF Safe, TypeOK, WellFormed, AfterClaim
<1>1. \A f \in Executors :
        f # e /\ ex[f].pc \in AfterClaim => ex[f].task # t
  BY DEF Safe, ClaimExclusive
<1>2. TypeOK'
  <2>1. ex' \in [Executors -> Calls]
    BY DEF Safe, TypeOK
  <2>2. \A f \in Executors : WellFormed(ex'[f])
    BY <1>0 DEF Safe, TypeOK
  <2>3. status' \in [Tasks -> TaskStatuses]
    BY DEF Safe, TypeOK, WorkStatuses, TaskStatuses
  <2>4. attempts' \in [Tasks -> 0..MaxAttempts]
    BY DEF Safe, TypeOK
  <2> QED BY <2>1, <2>2, <2>3, <2>4 DEF Safe, TypeOK, WellFormed
<1>3. (status \in [Tasks -> WorkStatuses])'
  BY DEF Safe
<1>4. ClaimExclusive'
  BY <1>0, <1>1 DEF Safe, ClaimExclusive, AfterClaim
<1>5. InFlightStatus'
  <2> SUFFICES ASSUME NEW f \in Executors PROVE RowFits(ex[f])'
    BY DEF InFlightStatus
  <2>1. CASE f = e
    BY <1>0, <2>1 DEF RowFits
  <2>2. CASE f # e /\ ex[f].pc \in AfterClaim
    BY <1>0, <1>1, <2>2 DEF RowFits, Safe, InFlightStatus, TypeOK, WellFormed,
                            AfterClaim
  <2>3. CASE f # e /\ ex[f].pc \notin AfterClaim
    BY <1>0, <2>3 DEF RowFits, AfterClaim
  <2> QED BY <2>1, <2>2, <2>3
<1>6. RetryBounded'
  BY <1>0 DEF Safe, RetryBounded
<1> QED BY <1>2, <1>3, <1>4, <1>5, <1>6 DEF Safe

LEMMA PersistSafe ==
  ASSUME Safe, NEW e \in Executors, Persist(e)
  PROVE  Safe'
<1>0. /\ ex \in [Executors -> Calls]
      /\ agent \in [Tasks -> Agents \cup {None}]
      /\ attempts \in [Tasks -> 0..MaxAttempts]
      /\ ex[e] \in Calls
      /\ WellFormed(ex[e])
      /\ RowFits(ex[e])
  BY DEF Safe, TypeOK, InFlightStatus
<1>1. CASE CompleteRun(e)
  <2> DEFINE c == [ex[e] EXCEPT !.pc = "closing", !.run = "completed"]
  <2>1. c \in Calls /\ WellFormed(c) /\ RowFits(c)
        /\ ex[e].pc \in AfterClaim /\ c.task = ex[e].task
        /\ c.pc # "patching"
    BY <1>0, <1>1 DEF Calls, PC, RunStatuses, WellFormed, RowFits, AfterClaim,
                      CompleteRun, At
  <2>2. ex' = [ex EXCEPT ![e] = c]
    BY <1>0, <1>1 DEF CompleteRun
  <2> HIDE DEF c
  <2> QED BY <1>0, <1>1, <2>1, <2>2, LocalStep DEF CompleteRun, Reads
<1>2. CASE CompleteTaskIfRunning(e)
  <2> DEFINE t == ex[e].task
             c == [ex[e] EXCEPT !.pc = "recording"]
  <2>1. c \in Calls /\ WellFormed(c) /\ c.pc = "recording"
        /\ c.task = ex[e].task /\ ex[e].pc \in AfterClaim /\ t \in Tasks
    BY <1>0, <1>2 DEF Calls, PC, WellFormed, AfterClaim,
                      CompleteTaskIfRunning, At
  <2>2. ex' = [ex EXCEPT ![e] = c]
    BY <1>0, <1>2 DEF CompleteTaskIfRunning, Goto
  <2>3. /\ status' = [status EXCEPT ![ex[e].task] = "completed"]
        /\ attempts' = [attempts EXCEPT ![ex[e].task] = attempts[t]]
        /\ attempts[t] \in 0..MaxAttempts
        /\ UNCHANGED <<agent, started, edges, active>>
    BY <1>0, <1>2, <2>1 DEF CompleteTaskIfRunning
  <2> HIDE DEF c, t
  <2> QED BY <2>1, <2>2, <2>3, RowWrite DEF WorkStatuses
<1>3. CASE CompletionRefused(e)
  <2>1. CASE ex[e].task \in Verified
    BY <1>3, <2>1, DenySafe DEF CompletionRefused, At, Verdicts
  <2>2. CASE ex[e].task \notin Verified
    BY <1>3, <2>2, ReturnSafe DEF CompletionRefused, Reads
  <2> QED BY <2>1, <2>2
<1>4. CASE RecordDecision(e)
  BY <1>4, ReturnSafe DEF RecordDecision, Reads
<1>5. CASE FailRun(e)
  <2> DEFINE c == [ex[e] EXCEPT !.pc = "reading", !.run = "failed"]
  <2>1. c \in Calls /\ WellFormed(c) /\ RowFits(c)
        /\ ex[e].pc \in AfterClaim /\ c.task = ex[e].task
        /\ c.pc # "patching"
    BY <1>0, <1>5 DEF Calls, PC, RunStatuses, WellFormed, RowFits, AfterClaim,
                      FailRun, At
  <2>2. ex' = [ex EXCEPT ![e] = c]
    BY <1>0, <1>5 DEF FailRun
  <2> HIDE DEF c
  <2> QED BY <1>0, <1>5, <2>1, <2>2, LocalStep DEF FailRun, Reads
<1>6. CASE ReadCurrent(e)
  <2> DEFINE t == ex[e].task
  <2>1. CASE status[t] \in TerminalTaskStatuses
    BY <1>6, <2>1, ReturnSafe DEF ReadCurrent, Reads
  <2>2. CASE status[t] \notin TerminalTaskStatuses
    <3> DEFINE c == [ex[e] EXCEPT !.pc = "patching", !.seen = attempts[t]]
    <3>1. t \in Tasks /\ status[t] = "running" /\ attempts[t] < MaxAttempts
      BY <1>0, <1>6, <2>2 DEF ReadCurrent, At, RowFits, WellFormed,
                              TerminalTaskStatuses, Safe, RetryBounded
    <3>2. c \in Calls /\ WellFormed(c) /\ RowFits(c)
          /\ ex[e].pc \in AfterClaim /\ c.task = ex[e].task
          /\ c.seen < MaxAttempts
      BY <1>0, <1>6, <3>1 DEF Calls, PC, WellFormed, RowFits, AfterClaim,
                              ReadCurrent, At
    <3>3. ex' = [ex EXCEPT ![e] = c]
      BY <1>0, <1>6, <2>2 DEF ReadCurrent
    <3> HIDE DEF c
    <3> QED BY <1>0, <1>6, <3>2, <3>3, LocalStep DEF ReadCurrent, Reads
  <2> QED BY <2>1, <2>2
<1>7. CASE PatchClosed(e)
  <2> DEFINE t == ex[e].task
  <2>1. t \in Tasks /\ ex[e].pc \in AfterClaim
    BY <1>0, <1>7 DEF PatchClosed, At, WellFormed, AfterClaim
  <2>2. /\ status' = [status EXCEPT ![ex[e].task] = "failed"]
        /\ attempts' = [attempts EXCEPT ![ex[e].task] = attempts[t]]
        /\ attempts[t] \in 0..MaxAttempts
        /\ ex' = [ex EXCEPT ![e] = Idle]
        /\ UNCHANGED <<agent, started, edges, active>>
    BY <1>0, <1>7, <2>1 DEF PatchClosed, Return
  <2> HIDE DEF t
  <2> QED BY <2>1, <2>2, RowWrite, IdleCall DEF WorkStatuses
<1>8. CASE PatchRetry(e)
  <2> DEFINE n == ex[e].seen
             s == FailureStatus(n, MaxAttempts)
  <2>1. ex[e].pc \in AfterClaim /\ n \in 0..MaxAttempts /\ n < MaxAttempts
    BY <1>0, <1>8 DEF PatchRetry, At, AfterClaim, Calls, Safe, RetryBounded
  <2>2. n + 1 \in 0..MaxAttempts
    BY <2>1, TaskExecutionAssumption
  <2>3. s \in WorkStatuses /\ (s \in {"queued", "running"} => n + 1 < MaxAttempts)
    BY <2>1, TaskExecutionAssumption DEF FailureStatus, Exhausted, WorkStatuses
  <2>4. /\ status' = [status EXCEPT ![ex[e].task] = s]
        /\ attempts' = [attempts EXCEPT ![ex[e].task] = n + 1]
        /\ ex' = [ex EXCEPT ![e] = Idle]
        /\ UNCHANGED <<agent, started, edges, active>>
    BY <1>8 DEF PatchRetry, Return
  <2> HIDE DEF s, n
  <2> QED BY <2>1, <2>2, <2>3, <2>4, RowWrite, IdleCall
<1> QED BY <1>1, <1>2, <1>3, <1>4, <1>5, <1>6, <1>7, <1>8 DEF Persist

(* The environment never puts a held task back in the queue.               *)
LEMMA EnvironmentSafe ==
  ASSUME Safe,
         \/ \E t \in Tasks, a \in Agents \cup {None} : AssignTask(t, a)
         \/ \E t \in Tasks : Age(t)
         \/ RecoverStaleRunningTasks
         \/ UNCHANGED vars
  PROVE  Safe'
<1>1. CASE \E t \in Tasks, a \in Agents \cup {None} : AssignTask(t, a)
  BY <1>1 DEF AssignTask, Safe, TypeOK, WellFormed, ClaimExclusive,
              InFlightStatus, RowFits, RetryBounded
<1>2. CASE \E t \in Tasks : Age(t)
  BY <1>2 DEF Age, Safe, TypeOK, WellFormed, ClaimExclusive,
              InFlightStatus, RowFits, RetryBounded
<1>3. CASE RecoverStaleRunningTasks
  <2>1. \A t \in Tasks :
          status'[t] = IF status[t] = "running" /\ started[t] = "stale"
                         THEN "failed" ELSE status[t]
    BY <1>3 DEF RecoverStaleRunningTasks, Stale
  <2>2. status' \in [Tasks -> WorkStatuses]
    BY <1>3, <2>1 DEF RecoverStaleRunningTasks, Safe, WorkStatuses
  <2>3. InFlightStatus'
    <3> SUFFICES ASSUME NEW e \in Executors PROVE RowFits(ex[e])'
      BY DEF InFlightStatus
    <3>1. RowFits(ex[e]) /\ WellFormed(ex[e])
      BY DEF Safe, TypeOK, InFlightStatus
    <3> QED BY <1>3, <2>1, <3>1 DEF RecoverStaleRunningTasks, RowFits,
                                    WellFormed
  <2>4. TypeOK'
    BY <1>3, <2>2 DEF RecoverStaleRunningTasks, Safe, TypeOK, WellFormed,
                      WorkStatuses, TaskStatuses
  <2>5. ClaimExclusive' /\ RetryBounded'
    BY <1>3, <2>1 DEF RecoverStaleRunningTasks, Safe, ClaimExclusive,
                      RetryBounded
  <2> QED BY <2>2, <2>3, <2>4, <2>5 DEF Safe
<1>4. CASE UNCHANGED vars
  BY <1>4 DEF vars, Safe, TypeOK, WellFormed, ClaimExclusive,
              InFlightStatus, RowFits, RetryBounded
<1> QED BY <1>1, <1>2, <1>3, <1>4

LEMMA NextSafe ==
  Safe /\ [Next]_vars => Safe'
<1> SUFFICES ASSUME Safe, [Next]_vars PROVE Safe'
  OBVIOUS
<1>1. CASE \E e \in Executors : Place(e) \/ Step(e) \/ Crash(e)
  <2> PICK e \in Executors : Place(e) \/ Step(e) \/ Crash(e)
    BY <1>1
  <2>1. CASE Place(e)
    BY <2>1, PlaceSafe
  <2>2. CASE Step(e)
    BY <2>2, PrepareSafe, ExecuteSafe, PersistSafe DEF Step
  <2>3. CASE Crash(e)
    BY <2>3, ReturnSafe DEF Crash, Reads
  <2> QED BY <2>1, <2>2, <2>3
<1> QED BY <1>1, EnvironmentSafe DEF Next

(* Safe is an invariant of every behaviour.                                *)
THEOREM SafetyInvariant == Spec => []Safe
<1> QED BY InitSafe, NextSafe, PTL DEF Spec

(* Type correctness of rows and calls (TypeOK).                            *)
THEOREM TypeCorrect == Spec => []TypeOK
<1>1. Safe => TypeOK
  BY DEF Safe
<1> QED BY <1>1, SafetyInvariant, PTL

(* claimTaskForExecution hands a task to one live call at a time, whatever *)
(* the owner reassigns and however long an execution outlives the recovery *)
(* window (ClaimExclusive).                                                *)
THEOREM MutualExclusion == Spec => []ClaimExclusive
<1>1. Safe => ClaimExclusive
  BY DEF Safe
<1> QED BY <1>1, SafetyInvariant, PTL

(* What a live call finds in the row of its task (InFlightStatus).         *)
THEOREM RowUnderCall == Spec => []InFlightStatus
<1>1. Safe => InFlightStatus
  BY DEF Safe
<1> QED BY <1>1, SafetyInvariant, PTL

(* Bounded retries: a task that is queued or running has an attempt left   *)
(* (RetryBounded).                                                         *)
THEOREM BoundedRetry == Spec => []RetryBounded
<1>1. Safe => RetryBounded
  BY DEF Safe
<1> QED BY <1>1, SafetyInvariant, PTL

(***************************************************************************)
(* What a step may do to the status of a task.                             *)
(***************************************************************************)

(* A completed row is out of reach of every write: claims want it queued,  *)
(* recovery wants it running, and a call about to patch it would have      *)
(* returned at its re-read.                                                *)
LEMMA CompletedStep ==
  ASSUME Safe, [Next]_vars, NEW t \in Tasks, status[t] = "completed"
  PROVE  status'[t] = "completed"
<1>0. status \in [Tasks -> WorkStatuses]
  BY DEF Safe
<1>1. CASE \E e \in Executors : Place(e) \/ Step(e) \/ Crash(e)
  <2> PICK e \in Executors : Place(e) \/ Step(e) \/ Crash(e)
    BY <1>1
  <2>0. ex[e] \in Calls /\ WellFormed(ex[e]) /\ RowFits(ex[e])
    BY DEF Safe, TypeOK, InFlightStatus
  <2>1. CASE Place(e) \/ Execute(e) \/ Crash(e)
    BY <2>1 DEF Place, Discover, SelectCandidate, NoCandidate,
                AssignTaskIfUnassigned, AssignmentRefused, AgentRefused,
                Execute, ExecutionFails, GateDenies, ExecutionAccepted,
                WorkspaceChanged, GuardedCallThrows, Crash, Reads
  <2>2. CASE Prepare(e)
    BY <1>0, <2>2 DEF Prepare, CheckAssignment, Refuse, ClaimTaskForExecution,
                      Claimable, ClaimRefused, CreateTaskRun, Reads
  <2>3. CASE Persist(e)
    <3>1. CASE PatchClosed(e) \/ PatchRetry(e)
      <4>1. ex[e].task # t
        BY <2>0, <3>1 DEF PatchClosed, PatchRetry, At, RowFits
      <4> QED BY <1>0, <3>1, <4>1 DEF PatchClosed, PatchRetry
    <3>2. CASE ~(PatchClosed(e) \/ PatchRetry(e))
      BY <1>0, <2>3, <3>2
      DEF Persist, CompleteRun, CompleteTaskIfRunning, CompletionRefused,
          RecordDecision, FailRun, ReadCurrent, Reads
    <3> QED BY <3>1, <3>2
  <2> QED BY <2>1, <2>2, <2>3 DEF Step
<1>2. CASE RecoverStaleRunningTasks
  BY <1>2 DEF RecoverStaleRunningTasks, Stale
<1>3. CASE \/ \E u \in Tasks, a \in Agents \cup {None} : AssignTask(u, a)
           \/ \E u \in Tasks : Age(u)
           \/ UNCHANGED vars
  BY <1>3 DEF AssignTask, Age, vars
<1> QED BY <1>1, <1>2, <1>3 DEF Next

(* A completed task stays completed (CompletedIsFinal).                    *)
THEOREM CompletionFinal == Spec => CompletedIsFinal
<1>1. Safe /\ [Next]_vars
        => [\A t \in Tasks : status[t] = "completed"
                               => status'[t] = "completed"]_vars
  BY CompletedStep
<1> QED BY <1>1, SafetyInvariant, PTL DEF Spec, CompletedIsFinal

(* An executor's step changes no other executor's call.                    *)
LEMMA OnlyOwnCall ==
  ASSUME Safe, NEW e \in Executors, Place(e) \/ Step(e) \/ Crash(e),
         NEW f \in Executors, f # e
  PROVE  ex'[f] = ex[f]
<1>0. ex \in [Executors -> Calls]
  BY DEF Safe, TypeOK
<1>1. CASE Place(e)
  BY <1>0, <1>1 DEF Place, Discover, SelectCandidate, NoCandidate,
    AssignTaskIfUnassigned, AssignmentRefused, AgentRefused, Goto, Return
<1>2. CASE Prepare(e)
  BY <1>0, <1>2 DEF Prepare, CheckAssignment, Refuse, ClaimTaskForExecution,
    ClaimRefused, CreateTaskRun, Goto, Return
<1>3. CASE Execute(e)
  BY <1>0, <1>3 DEF Execute, ExecutionFails, GateDenies, ExecutionAccepted,
    WorkspaceChanged, GuardedCallThrows, Goto, Deny
<1>4. CASE Persist(e)
  BY <1>0, <1>4 DEF Persist, CompleteRun, CompleteTaskIfRunning,
    CompletionRefused, RecordDecision, FailRun, ReadCurrent, PatchClosed,
    PatchRetry, Goto, Return, Deny
<1>5. CASE Crash(e)
  BY <1>0, <1>5 DEF Crash, Return
<1> QED BY <1>1, <1>2, <1>3, <1>4, <1>5 DEF Step

(* The dependency edges do not change here, and a met prerequisite stays   *)
(* met; so what the claim checked holds until the call ends.               *)
LEMMA PrerequisiteStep ==
  Safe /\ RunsAfterPrerequisites /\ [Next]_vars => RunsAfterPrerequisites'
<1> SUFFICES ASSUME Safe, RunsAfterPrerequisites, [Next]_vars,
                    NEW f \in Executors, ex'[f].pc \in AfterClaim
             PROVE  Ready(ex[f].task)'
  BY DEF RunsAfterPrerequisites, Ready
<1>1. edges' = edges
  BY DEF Next, Place, Step, Prepare, Execute, Persist, Discover,
         SelectCandidate, NoCandidate, AssignTaskIfUnassigned,
         AssignmentRefused, AgentRefused, CheckAssignment, Refuse,
         ClaimTaskForExecution, ClaimRefused, CreateTaskRun, ExecutionFails,
         GateDenies, ExecutionAccepted, WorkspaceChanged, GuardedCallThrows,
         CompleteRun, CompleteTaskIfRunning, CompletionRefused,
         RecordDecision, FailRun, ReadCurrent, PatchClosed, PatchRetry,
         Crash, AssignTask, Age, RecoverStaleRunningTasks, Reads, vars
<1>2. \A t \in Tasks : Ready(t) => Ready(t)'
  BY <1>1, CompletedStep DEF Ready
<1>3. ex \in [Executors -> Calls] /\ \A g \in Executors : WellFormed(ex[g])
  BY DEF Safe, TypeOK
<1>4. CASE ex[f].pc \in AfterClaim /\ ex'[f].task = ex[f].task
  <2>1. ex[f].task \in Tasks /\ Ready(ex[f].task)
    BY <1>3, <1>4 DEF RunsAfterPrerequisites, Ready, WellFormed, AfterClaim
  <2> QED BY <1>2, <1>4, <2>1 DEF Ready
<1>5. CASE ~(ex[f].pc \in AfterClaim /\ ex'[f].task = ex[f].task)
  <2>1. ClaimTaskForExecution(f)
    <3>1. PICK e \in Executors : Place(e) \/ Step(e) \/ Crash(e)
      BY <1>3, <1>5 DEF Next, AssignTask, Age, RecoverStaleRunningTasks, vars
    <3>2. f = e
      BY <1>3, <1>5, <3>1, OnlyOwnCall
    <3>3. ~Crash(e)
      BY <1>3, <3>2 DEF Crash, Return, Idle, AfterClaim
    <3>4. ~Place(e)
      BY <1>3, <3>2
      DEF Place, Discover, SelectCandidate, NoCandidate,
          AssignTaskIfUnassigned, AssignmentRefused, AgentRefused, At, Goto,
          Return, Idle, AfterClaim, Calls
    <3>5. ~Execute(e)
      BY <1>3, <1>5, <3>2
      DEF Execute, ExecutionFails, GateDenies, ExecutionAccepted,
          WorkspaceChanged, GuardedCallThrows, At, Goto, Deny, AfterClaim,
          Calls
    <3>6. ~Persist(e)
      BY <1>3, <1>5, <3>2
      DEF Persist, CompleteRun, CompleteTaskIfRunning, CompletionRefused,
          RecordDecision, FailRun, ReadCurrent, PatchClosed, PatchRetry, At,
          Goto, Return, Deny, Idle, AfterClaim, Calls
    <3>7. ~(CheckAssignment(e) \/ Refuse(e) \/ ClaimRefused(e)
              \/ CreateTaskRun(e))
      BY <1>3, <1>5, <3>2
      DEF CheckAssignment, Refuse, ClaimRefused, CreateTaskRun, At, Goto,
          Return, Idle, AfterClaim, Calls
    <3> QED BY <3>1, <3>2, <3>3, <3>4, <3>5, <3>6, <3>7 DEF Step, Prepare
  <2>2. /\ ex[f].task \in Tasks
        /\ Ready(ex[f].task)
        /\ ex'[f].task = ex[f].task
    BY <1>3, <2>1 DEF ClaimTaskForExecution, Claimable, At, Goto, WellFormed,
                      Calls
  <2> QED BY <1>2, <2>2 DEF Ready
<1> QED BY <1>4, <1>5

(* A task runs only on prerequisites that are still completed              *)
(* (RunsAfterPrerequisites).                                               *)
THEOREM DependencySafety == Spec => []RunsAfterPrerequisites
<1>1. Init => RunsAfterPrerequisites
  BY DEF Init, RunsAfterPrerequisites, Idle, AfterClaim
<1> QED BY <1>1, PrerequisiteStep, SafetyInvariant, PTL DEF Spec

(***************************************************************************)
(* Inside the recovery window.  When no execution outlives the ten minutes *)
(* of the sweep, recovery only fails tasks whose call is gone, and the     *)
(* unconditional writes of the failure path find what they read.           *)
(***************************************************************************)

Fresh ==
  \A e \in Executors :
    ex[e].pc \in AfterClaim
      => /\ status[ex[e].task] \in {"running", "completed"}
         /\ started[ex[e].task] = "recent"

(* A step of e that leaves started and, but for e's own task, status alone.*)
LEMMA FreshLocal ==
  ASSUME Safe, Fresh, NEW e \in Executors,
         \A f \in Executors : f # e => ex'[f] = ex[f],
         ex'[e].pc \in AfterClaim
           => /\ ex[e].pc \in AfterClaim
              /\ ex'[e].task = ex[e].task
              /\ status'[ex[e].task] \in {"running", "completed"},
         \A t \in Tasks : \/ status'[t] = status[t]
                          \/ ex[e].pc \in AfterClaim /\ t = ex[e].task,
         started' = started
  PROVE  Fresh'
<1> SUFFICES ASSUME NEW f \in Executors, ex'[f].pc \in AfterClaim
             PROVE  /\ status'[ex'[f].task] \in {"running", "completed"}
                    /\ started'[ex'[f].task] = "recent"
  BY DEF Fresh
<1>1. CASE f = e
  BY <1>1 DEF Fresh
<1>2. CASE f # e
  <2>1. ex[f].pc \in AfterClaim /\ ex'[f] = ex[f] /\ ex[f].task \in Tasks
    BY <1>2 DEF Safe, TypeOK, WellFormed, AfterClaim
  <2>2. status'[ex[f].task] = status[ex[f].task]
    BY <1>2, <2>1 DEF Safe, ClaimExclusive
  <2> QED BY <2>1, <2>2 DEF Fresh
<1> QED BY <1>1, <1>2

LEMMA FreshStep ==
  ASSUME Slow = {}, Safe, Fresh, [Next]_vars
  PROVE  Fresh'
<1>0. /\ ex \in [Executors -> Calls]
      /\ status \in [Tasks -> WorkStatuses]
      /\ started \in [Tasks -> {"null", "recent", "stale"}]
      /\ \A e \in Executors : WellFormed(ex[e]) /\ RowFits(ex[e])
  BY DEF Safe, TypeOK, InFlightStatus
<1>1. CASE \E e \in Executors : Place(e) \/ Step(e) \/ Crash(e)
  <2> PICK e \in Executors : Place(e) \/ Step(e) \/ Crash(e)
    BY <1>1
  <2>0. \A f \in Executors : f # e => ex'[f] = ex[f]
    BY OnlyOwnCall
  <2>1. CASE Crash(e)
    BY <1>0, <2>0, <2>1, FreshLocal
    DEF Crash, Return, Reads, Idle, AfterClaim
  <2>2. CASE Place(e)
    <3>1. ex'[e].pc \notin AfterClaim /\ UNCHANGED <<status, started>>
      BY <1>0, <2>2
      DEF Place, Discover, SelectCandidate, NoCandidate,
          AssignTaskIfUnassigned, AssignmentRefused, AgentRefused, At, Goto,
          Return, Idle, AfterClaim, Calls, Reads
    <3> QED BY <2>0, <3>1, FreshLocal
  <2>3. CASE ClaimTaskForExecution(e)
    <3> DEFINE t == ex[e].task
    <3>1. /\ t \in Tasks
          /\ status[t] = "queued"
          /\ status' = [status EXCEPT ![t] = "running"]
          /\ started' = [started EXCEPT ![t] = "recent"]
          /\ ex'[e].task = t
      BY <1>0, <2>3 DEF ClaimTaskForExecution, Claimable, At, Goto,
                        WellFormed, Calls
    <3>2. \A f \in Executors : ex[f].pc \in AfterClaim => ex[f].task # t
      BY <1>0, <3>1 DEF RowFits, AfterClaim
    <3> QED BY <1>0, <2>0, <3>1, <3>2 DEF Fresh, WellFormed, AfterClaim
  <2>4. CASE Prepare(e) /\ ~ClaimTaskForExecution(e)
    <3>1. /\ UNCHANGED <<status, started>>
          /\ ex'[e].pc \in AfterClaim
               => ex[e].pc \in AfterClaim /\ ex'[e].task = ex[e].task
      BY <1>0, <2>4
      DEF Prepare, CheckAssignment, Refuse, ClaimRefused, CreateTaskRun, At,
          Goto, Return, Idle, AfterClaim, Calls, Reads
    <3> QED BY <2>0, <3>1, FreshLocal DEF Fresh
  <2>5. CASE Execute(e)
    <3>1. /\ UNCHANGED <<status, started>>
          /\ ex'[e].pc \in AfterClaim
               => ex[e].pc \in AfterClaim /\ ex'[e].task = ex[e].task
      BY <1>0, <2>5
      DEF Execute, ExecutionFails, GateDenies, ExecutionAccepted,
          WorkspaceChanged, GuardedCallThrows, At, Goto, Deny, AfterClaim,
          Calls, Reads
    <3> QED BY <2>0, <3>1, FreshLocal DEF Fresh
  <2>6. CASE Persist(e)
    <3>1. CASE CompleteTaskIfRunning(e)
      <4>1. /\ ex[e].pc \in AfterClaim
            /\ ex'[e].task = ex[e].task
            /\ ex[e].task \in Tasks
            /\ status' = [status EXCEPT ![ex[e].task] = "completed"]
            /\ started' = started
        BY <1>0, <3>1 DEF CompleteTaskIfRunning, At, Goto, AfterClaim, Calls,
                          WellFormed
      <4> QED BY <1>0, <2>0, <4>1, FreshLocal
    <3>2. CASE PatchClosed(e) \/ PatchRetry(e)
      <4>1. /\ ex[e].pc \in AfterClaim
            /\ ex'[e].pc \notin AfterClaim
            /\ \A t \in Tasks : t # ex[e].task => status'[t] = status[t]
            /\ started' = started
        BY <1>0, <3>2 DEF PatchClosed, PatchRetry, At, Return, Idle,
                          AfterClaim, WellFormed
      <4> QED BY <2>0, <4>1, FreshLocal
    <3>3. CASE CompleteRun(e) \/ CompletionRefused(e) \/ RecordDecision(e)
                 \/ FailRun(e) \/ ReadCurrent(e)
      <4>1. /\ UNCHANGED <<status, started>>
            /\ ex'[e].pc \in AfterClaim
                 => ex[e].pc \in AfterClaim /\ ex'[e].task = ex[e].task
        BY <1>0, <3>3
        DEF CompleteRun, CompletionRefused, RecordDecision, FailRun,
            ReadCurrent, At, Goto, Return, Deny, Idle, AfterClaim, Calls,
            Reads
      <4> QED BY <2>0, <4>1, FreshLocal DEF Fresh
    <3> QED BY <2>6, <3>1, <3>2, <3>3 DEF Persist
  <2> QED BY <2>1, <2>2, <2>3, <2>4, <2>5, <2>6 DEF Step
<1>2. CASE RecoverStaleRunningTasks
  <2>1. \A t \in Tasks :
          status'[t] = IF status[t] = "running" /\ started[t] = "stale"
                         THEN "failed" ELSE status[t]
    BY <1>2 DEF RecoverStaleRunningTasks, Stale
  <2> QED BY <1>0, <1>2, <2>1 DEF RecoverStaleRunningTasks, Fresh, WellFormed,
                                  AfterClaim
<1>3. CASE \E t \in Tasks : Age(t)
  BY <1>0, <1>3 DEF Age, InFlight, Fresh, WellFormed, AfterClaim
<1>4. CASE \/ \E t \in Tasks, a \in Agents \cup {None} : AssignTask(t, a)
           \/ UNCHANGED vars
  BY <1>4 DEF AssignTask, vars, Fresh
<1> QED BY <1>1, <1>2, <1>3, <1>4 DEF Next

LEMMA FreshInvariant ==
  ASSUME Slow = {}
  PROVE  Spec => [](Safe /\ Fresh)
<1>1. Init => Fresh
  BY DEF Init, Fresh, Idle, AfterClaim
<1>2. Safe /\ Fresh /\ [Next]_vars => Fresh'
  BY FreshStep
<1> QED BY <1>1, <1>2, SafetyInvariant, PTL DEF Spec

(* A failed row is out of reach as well: nobody holds its task, so no      *)
(* failure path is about to patch it.                                      *)
LEMMA FailedStep ==
  ASSUME Safe, Fresh, [Next]_vars, NEW t \in Tasks, status[t] = "failed"
  PROVE  status'[t] = "failed"
<1>0. status \in [Tasks -> WorkStatuses]
  BY DEF Safe
<1>1. CASE \E e \in Executors : Place(e) \/ Step(e) \/ Crash(e)
  <2> PICK e \in Executors : Place(e) \/ Step(e) \/ Crash(e)
    BY <1>1
  <2>1. CASE Place(e) \/ Execute(e) \/ Crash(e)
    BY <2>1 DEF Place, Discover, SelectCandidate, NoCandidate,
                AssignTaskIfUnassigned, AssignmentRefused, AgentRefused,
                Execute, ExecutionFails, GateDenies, ExecutionAccepted,
                WorkspaceChanged, GuardedCallThrows, Crash, Reads
  <2>2. CASE Prepare(e)
    BY <1>0, <2>2 DEF Prepare, CheckAssignment, Refuse, ClaimTaskForExecution,
                      Claimable, ClaimRefused, CreateTaskRun, Reads
  <2>3. CASE Persist(e)
    <3>1. CASE PatchClosed(e) \/ PatchRetry(e)
      <4>1. ex[e].task # t
        BY <3>1 DEF PatchClosed, PatchRetry, At, Fresh, AfterClaim
      <4> QED BY <1>0, <3>1, <4>1 DEF PatchClosed, PatchRetry
    <3>2. CASE ~(PatchClosed(e) \/ PatchRetry(e))
      BY <1>0, <2>3, <3>2
      DEF Persist, CompleteRun, CompleteTaskIfRunning, CompletionRefused,
          RecordDecision, FailRun, ReadCurrent, Reads
    <3> QED BY <3>1, <3>2
  <2> QED BY <2>1, <2>2, <2>3 DEF Step
<1>2. CASE RecoverStaleRunningTasks
  BY <1>2 DEF RecoverStaleRunningTasks, Stale
<1>3. CASE \/ \E u \in Tasks, a \in Agents \cup {None} : AssignTask(u, a)
           \/ \E u \in Tasks : Age(u)
           \/ UNCHANGED vars
  BY <1>3 DEF AssignTask, Age, vars
<1> QED BY <1>1, <1>2, <1>3 DEF Next

(* While executions stay inside the recovery window, a failed task stays   *)
(* failed (FailedIsFinal).  Without that assumption it does not.           *)
THEOREM FailureFinal ==
  ASSUME Slow = {}
  PROVE  Spec => FailedIsFinal
<1>1. Safe /\ Fresh /\ [Next]_vars
        => [\A t \in Tasks : status[t] = "failed"
                               => status'[t] = "failed"]_vars
  BY FailedStep
<1> QED BY <1>1, FreshInvariant, PTL DEF Spec, FailedIsFinal

(* agent_id is written by placement and by the owner alone.                *)
LEMMA AssignmentStep ==
  ASSUME Reassignable = {}, Safe, [Next]_vars,
         \A e \in Executors : ~AssignTaskIfUnassigned(e)
  PROVE  agent' = agent
  BY DEF Next, Place, Step, Prepare, Execute, Persist, Discover,
         SelectCandidate, NoCandidate, AssignmentRefused, AgentRefused,
         CheckAssignment, Refuse, ClaimTaskForExecution, ClaimRefused,
         CreateTaskRun, ExecutionFails, GateDenies, ExecutionAccepted,
         WorkspaceChanged, GuardedCallThrows, CompleteRun,
         CompleteTaskIfRunning, CompletionRefused, RecordDecision, FailRun,
         ReadCurrent, PatchClosed, PatchRetry, Crash, AssignTask, Age,
         RecoverStaleRunningTasks, Reads, vars

(* A task that has left an agent's load never comes back to it by itself,  *)
(* and placement adds one task to an agent it has just counted.            *)
LEMMA CapacityStep ==
  ASSUME Reassignable = {}, Safe, Fresh, CapacityRespected, [Next]_vars
  PROVE  CapacityRespected'
<1> SUFFICES ASSUME NEW a \in Agents PROVE Load(a)' <= Cap[a]
  BY DEF CapacityRespected
<1>1. /\ IsFiniteSet(Assigned(a))
      /\ Load(a) \in Nat
      /\ Load(a) <= Cap[a]
      /\ Cap[a] \in Nat
  <2>1. IsFiniteSet(Assigned(a))
    BY TaskExecutionAssumption, FS_Subset DEF Assigned
  <2> QED BY <2>1, FS_CardinalityType, TaskExecutionAssumption
          DEF Load, CapacityRespected
<1>2. \A t \in Tasks : status[t] \in TerminalTaskStatuses
                         => status'[t] \in TerminalTaskStatuses
  BY CompletedStep, FailedStep
  DEF Safe, WorkStatuses, TerminalTaskStatuses
<1>3. CASE \E e \in Executors : AssignTaskIfUnassigned(e)
  <2> PICK e \in Executors : AssignTaskIfUnassigned(e)
    BY <1>3
  <2> DEFINE t == ex[e].task
             b == ex[e].agent
  <2>1. /\ t \in Tasks
        /\ Load(b) < Cap[b]
        /\ agent' = [agent EXCEPT ![t] = b]
    BY DEF AssignTaskIfUnassigned, AgentAccepts, HasRoom, At, Safe, TypeOK,
           WellFormed
  <2>2. agent \in [Tasks -> Agents \cup {None}]
    BY DEF Safe, TypeOK
  <2>3. CASE b # a
    <3>1. Assigned(a)' \subseteq Assigned(a)
      BY <1>2, <2>1, <2>2, <2>3 DEF Assigned
    <3>2. Cardinality(Assigned(a)') <= Cardinality(Assigned(a))
      BY <1>1, <3>1, FS_Subset
    <3>3. Cardinality(Assigned(a)') \in Nat
      BY <1>1, <3>1, FS_Subset, FS_CardinalityType
    <3> QED BY <1>1, <3>2, <3>3 DEF Load
  <2>4. CASE b = a
    <3>1. Assigned(a)' \subseteq Assigned(a) \cup {t}
      BY <1>2, <2>1, <2>2 DEF Assigned
    <3>2. /\ IsFiniteSet(Assigned(a) \cup {t})
          /\ Cardinality(Assigned(a) \cup {t})
               \in {Cardinality(Assigned(a)), Cardinality(Assigned(a)) + 1}
      BY <1>1, FS_AddElement
    <3>3. /\ Cardinality(Assigned(a)') <= Cardinality(Assigned(a) \cup {t})
          /\ Cardinality(Assigned(a)') \in Nat
      BY <3>1, <3>2, FS_Subset, FS_CardinalityType
    <3> QED BY <1>1, <2>1, <2>4, <3>2, <3>3 DEF Load
  <2> QED BY <2>3, <2>4
<1>4. CASE \A e \in Executors : ~AssignTaskIfUnassigned(e)
  <2>1. agent' = agent
    BY <1>4, AssignmentStep
  <2>2. Assigned(a)' \subseteq Assigned(a)
    BY <1>2, <2>1 DEF Assigned
  <2>3. /\ Cardinality(Assigned(a)') <= Cardinality(Assigned(a))
        /\ Cardinality(Assigned(a)') \in Nat
    BY <1>1, <2>2, FS_Subset, FS_CardinalityType
  <2> QED BY <1>1, <2>3 DEF Load
<1> QED BY <1>3, <1>4

(* While executions stay inside the recovery window and the owner edits no *)
(* assignment, no agent is ever over its capacity (CapacityRespected).     *)
THEOREM CapacityBound ==
  ASSUME Slow = {}, Reassignable = {}
  PROVE  Spec => []CapacityRespected
<1>1. Init => CapacityRespected
  <2> SUFFICES ASSUME Init, NEW a \in Agents PROVE Load(a) <= Cap[a]
    BY DEF CapacityRespected
  <2>1. Assigned(a) = {}
    BY TaskExecutionAssumption DEF Init, Assigned
  <2> QED BY <2>1, FS_EmptySet, TaskExecutionAssumption DEF Load
<1>2. Safe /\ Fresh /\ CapacityRespected /\ [Next]_vars => CapacityRespected'
  BY CapacityStep
<1> QED BY <1>1, <1>2, FreshInvariant, PTL DEF Spec

(***************************************************************************)
(* The lease.  TaskExecution implements TaskLease: the claim acquires the  *)
(* lease of a task, completion is the holder's, and every way out of a     *)
(* call after the claim releases it.                                       *)
(***************************************************************************)

(* Call f of x is past the claim of t.                                     *)
Holds(x, f, t) == x[f].task = t /\ x[f].pc \in AfterClaim

(* Holder, as a function of the calls x.                                   *)
Pick(S) == IF S = {} THEN None ELSE CHOOSE f \in S : TRUE

HolderIn(x, t) == Pick({f \in Executors : Holds(x, f, t)})

Completed == {t \in Tasks : status[t] = "completed"}

LEMMA HolderNow ==
  ASSUME NEW t \in Tasks
  PROVE  Holder(t) = HolderIn(ex, t) /\ Holder(t)' = HolderIn(ex', t)
  BY DEF Holder, InFlight, HolderIn, Pick, Holds

(* The only call past the claim of t is its holder.                        *)
LEMMA SoleHolder ==
  ASSUME NEW x, NEW t, NEW f \in Executors, Holds(x, f, t),
         \A g \in Executors : Holds(x, g, t) => g = f
  PROVE  HolderIn(x, t) = f
<1>1. {g \in Executors : Holds(x, g, t)} = {f}
  OBVIOUS
<1>2. Pick({f}) = f
  BY DEF Pick
<1> QED BY <1>1, <1>2 DEF HolderIn

LEMMA NoHolder ==
  ASSUME NEW x, NEW t, \A g \in Executors : ~Holds(x, g, t)
  PROVE  HolderIn(x, t) = None
<1>1. {g \in Executors : Holds(x, g, t)} = {}
  OBVIOUS
<1> QED BY <1>1 DEF HolderIn, Pick

LEMMA SameHolder ==
  ASSUME NEW x, NEW y, NEW t,
         \A g \in Executors : Holds(x, g, t) <=> Holds(y, g, t)
  PROVE  HolderIn(x, t) = HolderIn(y, t)
<1>1. {g \in Executors : Holds(x, g, t)} = {g \in Executors : Holds(y, g, t)}
  OBVIOUS
<1> QED BY <1>1 DEF HolderIn

(* At most one call holds a task.                                          *)
LEMMA OneHolder ==
  ASSUME Safe, NEW t, NEW e \in Executors, Holds(ex, e, t)
  PROVE  \A g \in Executors : Holds(ex, g, t) => g = e
BY DEF Safe, ClaimExclusive, Holds

(***************************************************************************)
(* The four kinds of steps.                                                *)
(***************************************************************************)

(* Same calls past the claim, same completed tasks: the lease stutters.    *)
LEMMA LeaseStutters ==
  ASSUME \A g \in Executors, t \in Tasks : Holds(ex, g, t) <=> Holds(ex', g, t),
         Completed' = Completed
  PROVE  UNCHANGED <<[t \in Tasks |-> Holder(t)], Completed>>
<1>1. \A t \in Tasks : Holder(t)' = Holder(t)
  BY HolderNow, SameHolder
<1> QED BY <1>1

(* A call past the claim that ends lets go of its task.                    *)
LEMMA LeaseReleased ==
  ASSUME Safe, NEW e \in Executors, ex[e].pc \in AfterClaim,
         ex'[e].pc \notin AfterClaim,
         \A g \in Executors : g # e => ex'[g] = ex[g],
         Completed' = Completed
  PROVE  Lease!Release(ex[e].task, e) /\ ex[e].task \in Tasks
<1>a. ex \in [Executors -> Calls] /\ ex[e].task \in Tasks
  BY DEF Safe, TypeOK, WellFormed, AfterClaim
<1> PICK u \in Tasks : u = ex[e].task
  BY <1>a
<1>0. ex \in [Executors -> Calls] /\ u \in Tasks /\ u = ex[e].task
  BY <1>a
<1>3. Holder(u) = e
  BY <1>0, HolderNow, OneHolder, SoleHolder DEF Holds
<1>4. Holder(u)' = None
  <2>1. \A g \in Executors : ~Holds(ex', g, u)
    BY <1>0, OneHolder DEF Holds
  <2> QED BY <1>0, <2>1, NoHolder, HolderNow
<1>5. \A t \in Tasks : t # u => Holder(t)' = Holder(t)
  <2> TAKE t \in Tasks
  <2> HAVE t # u
  <2>1. \A g \in Executors : Holds(ex, g, t) <=> Holds(ex', g, t)
    BY <1>0 DEF Holds
  <2>2. HolderIn(ex, t) = HolderIn(ex', t)
    BY ONLY <2>1, SameHolder
  <2> QED BY <2>2, HolderNow
<1>6. [t \in Tasks |-> Holder(t)]'
        = [[t \in Tasks |-> Holder(t)] EXCEPT ![u] = None]
  BY <1>0, <1>4, <1>5
<1> QED BY <1>0, <1>3, <1>6 DEF Lease!Release, Completed

(* A claim finds the task in the queue, hence held by nobody, and leaves   *)
(* the claiming call as its only holder.                                   *)
LEMMA LeaseAcquired ==
  ASSUME Safe, NEW e \in Executors, ClaimTaskForExecution(e)
  PROVE  Lease!Acquire(ex[e].task, e) /\ ex[e].task \in Tasks
<1>a. ex \in [Executors -> Calls] /\ ex[e].task \in Tasks
  BY DEF Safe, TypeOK, WellFormed, ClaimTaskForExecution, At
<1> PICK u \in Tasks : u = ex[e].task
  BY <1>a
<1>0. /\ ex \in [Executors -> Calls]
      /\ status \in [Tasks -> WorkStatuses]
      /\ u = ex[e].task
      /\ status[u] = "queued"
      /\ status' = [status EXCEPT ![u] = "running"]
      /\ ex' = [ex EXCEPT ![e].pc = "claimed"]
  BY <1>a DEF Safe, ClaimTaskForExecution, Claimable, Goto
<1>1. \A g \in Executors : ~Holds(ex, g, u)
  BY <1>0 DEF Safe, InFlightStatus, RowFits, Holds, AfterClaim
<1>2. /\ ex'[e].task = u /\ ex'[e].pc = "claimed"
      /\ \A g \in Executors : g # e => ex'[g] = ex[g]
      /\ ex[e].pc = "checked"
  BY <1>0 DEF Calls, ClaimTaskForExecution, At
<1>3. Holder(u) = None
  BY <1>1, NoHolder, HolderNow
<1>4. Holder(u)' = e
  <2>1. Holds(ex', e, u) /\ \A g \in Executors : Holds(ex', g, u) => g = e
    BY <1>1, <1>2 DEF Holds, AfterClaim
  <2>2. HolderIn(ex', u) = e
    BY ONLY <2>1, SoleHolder
  <2> QED BY <2>2, HolderNow
<1>5. \A t \in Tasks : t # u => Holder(t)' = Holder(t)
  <2> TAKE t \in Tasks
  <2> HAVE t # u
  <2>1. \A g \in Executors : Holds(ex, g, t) <=> Holds(ex', g, t)
    BY <1>0, <1>2 DEF Holds
  <2>2. HolderIn(ex, t) = HolderIn(ex', t)
    BY ONLY <2>1, SameHolder
  <2> QED BY <2>2, HolderNow
<1>6. [t \in Tasks |-> Holder(t)]'
        = [[t \in Tasks |-> Holder(t)] EXCEPT ![u] = e]
  BY <1>4, <1>5
<1>7. Completed' = Completed /\ u \notin Completed
  BY <1>0 DEF Completed
<1> QED BY <1>0, <1>3, <1>6, <1>7 DEF Lease!Acquire, Completed

(* The call that completes a task holds it, and goes on holding it.        *)
LEMMA LeaseCompleted ==
  ASSUME Safe, NEW e \in Executors, CompleteTaskIfRunning(e)
  PROVE  Lease!Complete(ex[e].task, e) /\ ex[e].task \in Tasks
<1>a. ex \in [Executors -> Calls] /\ ex[e].task \in Tasks
  BY DEF Safe, TypeOK, WellFormed, CompleteTaskIfRunning, At
<1> PICK u \in Tasks : u = ex[e].task
  BY <1>a
<1>0. /\ ex \in [Executors -> Calls]
      /\ status \in [Tasks -> WorkStatuses]
      /\ u = ex[e].task
      /\ ex[e].pc = "closing"
      /\ status[u] = "running"
      /\ status' = [status EXCEPT ![u] = "completed"]
      /\ ex' = [ex EXCEPT ![e].pc = "recording"]
  BY <1>a DEF Safe, CompleteTaskIfRunning, Goto, At
<1>1. Holder(u) = e
  <2>1. Holds(ex, e, u)
    BY <1>0 DEF Holds, AfterClaim
  <2> QED BY <2>1, OneHolder, SoleHolder, HolderNow
<1>2. \A g \in Executors, t \in Tasks : Holds(ex, g, t) <=> Holds(ex', g, t)
  BY <1>0 DEF Holds, AfterClaim, Calls
<1>3. \A t \in Tasks : Holder(t)' = Holder(t)
  BY <1>2, SameHolder, HolderNow
<1>4. u \notin Completed /\ Completed' = Completed \cup {u}
  BY <1>0 DEF Completed
<1> QED BY <1>0, <1>1, <1>3, <1>4 DEF Lease!Complete, Completed

(* Any other step of a call that touches no completed task: the lease of   *)
(* its task is released if the call leaves its section, else unchanged.    *)
LEMMA LeaseLocal ==
  ASSUME Safe, NEW e \in Executors,
         \A g \in Executors : g # e => ex'[g] = ex[g],
         ex'[e].pc \in AfterClaim
           => ex[e].pc \in AfterClaim /\ ex'[e].task = ex[e].task,
         Completed' = Completed
  PROVE  [Lease!Next]_<<[t \in Tasks |-> Holder(t)], Completed>>
<1>1. CASE ex[e].pc \in AfterClaim /\ ex'[e].pc \notin AfterClaim
  BY <1>1, LeaseReleased DEF Lease!Next
<1>2. CASE ~(ex[e].pc \in AfterClaim /\ ex'[e].pc \notin AfterClaim)
  <2>1. \A g \in Executors, t \in Tasks : Holds(ex, g, t) <=> Holds(ex', g, t)
    BY <1>2 DEF Holds
  <2> QED BY <2>1, LeaseStutters
<1> QED BY <1>1, <1>2

(* What a step of an executor does to the completed tasks.                 *)
LEMMA CompletedLocal ==
  ASSUME Safe, NEW e \in Executors, Place(e) \/ Step(e) \/ Crash(e),
         ~CompleteTaskIfRunning(e)
  PROVE  Completed' = Completed
<1>0. /\ status \in [Tasks -> WorkStatuses]
      /\ ex[e] \in Calls /\ WellFormed(ex[e]) /\ RowFits(ex[e])
  BY DEF Safe, TypeOK, InFlightStatus
<1>1. CASE ClaimTaskForExecution(e)
  BY <1>0, <1>1 DEF ClaimTaskForExecution, Claimable, Completed
<1>2. CASE PatchClosed(e) \/ PatchRetry(e)
  <2>1. ex[e].task \in Tasks /\ status[ex[e].task] # "completed"
    BY <1>0, <1>2 DEF PatchClosed, PatchRetry, At, RowFits, WellFormed
  <2>2. status' = [status EXCEPT ![ex[e].task] = "failed"]
          \/ status' = [status EXCEPT ![ex[e].task] =
                                     FailureStatus(ex[e].seen, MaxAttempts)]
    BY <1>2 DEF PatchClosed, PatchRetry
  <2>3. FailureStatus(ex[e].seen, MaxAttempts) # "completed"
    BY DEF FailureStatus
  <2> QED BY <1>0, <2>1, <2>2, <2>3 DEF Completed
<1>3. CASE ~(ClaimTaskForExecution(e) \/ PatchClosed(e) \/ PatchRetry(e))
  <2>1. status' = status
    BY <1>3 DEF Place, Discover, SelectCandidate, NoCandidate,
       AssignTaskIfUnassigned, AssignmentRefused, AgentRefused, Step, Prepare,
       CheckAssignment, Refuse, ClaimRefused, CreateTaskRun, Execute,
       ExecutionFails, GateDenies, ExecutionAccepted, WorkspaceChanged,
       GuardedCallThrows, Persist, CompleteRun, CompletionRefused,
       RecordDecision, FailRun, ReadCurrent, Crash, Reads
  <2> QED BY <2>1 DEF Completed
<1> QED BY <1>1, <1>2, <1>3

(* Only the claim enters the section after it, and no step within it       *)
(* changes the task of the call.                                           *)
LEMMA OnlyClaimEnters ==
  ASSUME Safe, NEW e \in Executors, Place(e) \/ Step(e) \/ Crash(e),
         ~ClaimTaskForExecution(e), ex'[e].pc \in AfterClaim
  PROVE  ex[e].pc \in AfterClaim /\ ex'[e].task = ex[e].task
<1>0. ex \in [Executors -> Calls]
  BY DEF Safe, TypeOK
<1>1. ~Place(e)
  BY <1>0 DEF Place, Discover, SelectCandidate, NoCandidate,
    AssignTaskIfUnassigned, AssignmentRefused, AgentRefused, At, Goto, Return,
    Idle, AfterClaim, Calls
<1>2. ~Crash(e)
  BY <1>0 DEF Crash, Return, Idle, AfterClaim
<1>3. CASE Prepare(e)
  BY <1>0, <1>3 DEF Prepare, CheckAssignment, Refuse, ClaimRefused,
    CreateTaskRun, At, Goto, Return, Idle, AfterClaim, Calls
<1>4. CASE Execute(e)
  BY <1>0, <1>4 DEF Execute, ExecutionFails, GateDenies, ExecutionAccepted,
    WorkspaceChanged, GuardedCallThrows, At, Goto, Deny, AfterClaim, Calls
<1>5. CASE Persist(e)
  BY <1>0, <1>5 DEF Persist, CompleteRun, CompleteTaskIfRunning,
    CompletionRefused, RecordDecision, FailRun, ReadCurrent, PatchClosed,
    PatchRetry, At, Goto, Return, Deny, Idle, AfterClaim, Calls
<1> QED BY <1>1, <1>2, <1>3, <1>4, <1>5 DEF Step

(* Every step of the protocol is a step of the lease or none.              *)
LEMMA LeaseStep ==
  ASSUME Safe, [Next]_vars
  PROVE  [Lease!Next]_<<[t \in Tasks |-> Holder(t)], Completed>>
<1>1. CASE \E e \in Executors : Place(e) \/ Step(e) \/ Crash(e)
  <2> PICK e \in Executors : Place(e) \/ Step(e) \/ Crash(e)
    BY <1>1
  <2>1. CASE ClaimTaskForExecution(e)
    BY <2>1, LeaseAcquired DEF Lease!Next
  <2>2. CASE CompleteTaskIfRunning(e)
    BY <2>2, LeaseCompleted DEF Lease!Next
  <2>3. CASE ~(ClaimTaskForExecution(e) \/ CompleteTaskIfRunning(e))
    BY <2>3, OnlyOwnCall, OnlyClaimEnters, CompletedLocal, LeaseLocal
  <2> QED BY <2>1, <2>2, <2>3
<1>2. CASE ~\E e \in Executors : Place(e) \/ Step(e) \/ Crash(e)
  <2>1. ex' = ex
    BY <1>2 DEF Next, AssignTask, Age, RecoverStaleRunningTasks, vars
  <2>2. Completed' = Completed
    BY <1>2 DEF Next, AssignTask, Age, RecoverStaleRunningTasks, Stale, vars,
                Completed
  <2>3. \A g \in Executors, t \in Tasks : Holds(ex, g, t) <=> Holds(ex', g, t)
    BY <2>1 DEF Holds
  <2> QED BY <2>2, <2>3, LeaseStutters
<1> QED BY <1>1, <1>2

(* Every task starts free and undone.                                      *)
LEMMA LeaseInit == Init => Lease!Init
<1> SUFFICES ASSUME Init PROVE Lease!Init
  OBVIOUS
<1>1. \A t \in Tasks : Holder(t) = None
  BY DEF Init, Idle, Holder, InFlight, AfterClaim
<1> QED BY <1>1 DEF Init, Lease!Init

(* The protocol implements the lease (ImplementsLease): whatever slow      *)
(* executions, reassignments, crashes and sweeps interleave, one executor  *)
(* at a time holds a task, only the holder completes it, and a completed   *)
(* task is never handed out again.                                         *)
THEOREM LeaseRefinement == Spec => ImplementsLease
<1>1. Safe /\ [Next]_vars
        => [Lease!Next]_<<[t \in Tasks |-> Holder(t)],
                          {t \in Tasks : status[t] = "completed"}>>
  BY LeaseStep DEF Completed
<1> QED BY <1>1, LeaseInit, SafetyInvariant, PTL
        DEF Spec, ImplementsLease, Lease!Spec

(***************************************************************************)
(* The workers.                                                            *)
(***************************************************************************)

CONSTANTS Owners, OwnerOf, OwnerLimit, Slots, MaxOwners, Turns, MaxParallel,
          Environments

VARIABLES locked, row, stops, faults

(* The tasks are those of TaskExecution, of all owners.                    *)
W == INSTANCE WorkforceRuntime

(* A finite set is numbered: an injection into its cardinality.            *)
LEMMA Numbering ==
  ASSUME NEW S, IsFiniteSet(S), NEW N \in Nat, Cardinality(S) <= N
  PROVE  \E f \in [S -> 1..N] : \A x, y \in S : f[x] = f[y] => x = y
<1>1. Cardinality(S) \in Nat /\ ExistsBijection(1..Cardinality(S), S)
  BY FS_CardinalityType
<1>2. PICK g \in Bijection(1..Cardinality(S), S) : TRUE
  BY <1>1 DEF ExistsBijection
<1>3. /\ g \in [1..Cardinality(S) -> S]
      /\ \A x \in S : \E i \in 1..Cardinality(S) : g[i] = x
  BY <1>2 DEF Bijection, Injection, Surjection
<1> DEFINE f == [x \in S |-> CHOOSE i \in 1..Cardinality(S) : g[i] = x]
<1>4. \A x \in S : f[x] \in 1..Cardinality(S) /\ g[f[x]] = x
  BY <1>3
<1>5. f \in [S -> 1..N]
  BY <1>1, <1>4
<1>6. \A x, y \in S : f[x] = f[y] => x = y
  BY <1>4
<1> QED BY <1>5, <1>6

(* Pairs of a member of A and one of at most N things it carries are at    *)
(* most N for each member of A.                                            *)
LEMMA PairsBounded ==
  ASSUME NEW A, IsFiniteSet(A), NEW T, IsFiniteSet(T),
         NEW L \in [A -> SUBSET T], NEW N \in Nat,
         \A w \in A : Cardinality(L[w]) <= N,
         NEW P \in SUBSET (A \X T), \A p \in P : p[2] \in L[p[1]]
  PROVE  IsFiniteSet(P) /\ Cardinality(P) <= Cardinality(A) * N
<1> DEFINE Good(w, f) == /\ f \in [L[w] -> 1..N]
                         /\ \A x, y \in L[w] : f[x] = f[y] => x = y
           F == [w \in A |-> CHOOSE f : Good(w, f)]
           g == [p \in P |-> <<p[1], F[p[1]][p[2]]>>]
<1>1. ASSUME NEW w \in A PROVE Good(w, F[w])
  <2>1. IsFiniteSet(L[w])
    BY FS_Subset
  <2>2. \E f : Good(w, f)
    BY <2>1, Numbering
  <2> QED BY <2>2
<1>2. \A p \in P : p[1] \in A /\ p[2] \in L[p[1]] /\ p = <<p[1], p[2]>>
  OBVIOUS
<1>3. ASSUME NEW p \in P PROVE F[p[1]][p[2]] \in 1..N
  <2>1. p[1] \in A /\ p[2] \in L[p[1]]
    BY <1>2
  <2>2. F[p[1]] \in [L[p[1]] -> 1..N]
    BY <1>1, <2>1
  <2> HIDE DEF F
  <2> QED BY <2>1, <2>2
<1>4. g \in [P -> A \X (1..N)]
  BY <1>2, <1>3
<1> HIDE DEF F
<1>5. ASSUME NEW p \in P, NEW q \in P, g[p] = g[q] PROVE p = q
  <2>1. p[1] = q[1] /\ F[p[1]][p[2]] = F[p[1]][q[2]]
    BY <1>5
  <2>2. p[2] = q[2]
    BY <2>1, <1>1, <1>2
  <2> QED BY <2>1, <2>2, <1>2
<1>6. g \in Injection(P, A \X (1..N))
  BY <1>4, <1>5 DEF Injection, IsInjective
<1>7. IsFiniteSet(1..N) /\ Cardinality(1..N) = N
  BY FS_Interval
<1>8. /\ IsFiniteSet(A \X (1..N))
      /\ Cardinality(A \X (1..N)) = Cardinality(A) * N
  BY <1>7, FS_Product
<1> QED BY <1>6, <1>8, FS_Injection

(* The sets W counts are counted as here.                                  *)
LEMMA SameFinite == \A S : W!IsFiniteSet(S) <=> IsFiniteSet(S)
  BY DEF W!IsFiniteSet, IsFiniteSet

LEMMA SameCardinality == \A S : W!Cardinality(S) = Cardinality(S)
  BY Zenon DEF W!Cardinality, Cardinality

(* Facts of counting, for the sets of W.                                   *)
LEMMA Counting ==
  ASSUME NEW S, W!IsFiniteSet(S), NEW T \in SUBSET S
  PROVE  /\ W!IsFiniteSet(T)
         /\ W!Cardinality(S) \in Nat /\ W!Cardinality(T) \in Nat
         /\ W!Cardinality(T) <= W!Cardinality(S)
  BY FS_Subset, FS_CardinalityType, SameFinite, SameCardinality

(* One element more or less changes the cardinality by one.                *)
LEMMA CountingOne ==
  ASSUME NEW S, W!IsFiniteSet(S), NEW x
  PROVE  /\ W!IsFiniteSet(S \cup {x}) /\ W!IsFiniteSet(S \ {x})
         /\ W!Cardinality(S) \in Nat
         /\ W!Cardinality(S \cup {x}) \in Nat /\ W!Cardinality(S \ {x}) \in Nat
         /\ W!Cardinality(S \cup {x}) <= W!Cardinality(S) + 1
         /\ x \notin S => W!Cardinality(S \cup {x}) = W!Cardinality(S) + 1
         /\ x \in S => W!Cardinality(S \ {x}) = W!Cardinality(S) - 1
  BY FS_AddElement, FS_RemoveElement, FS_CardinalityType, SameFinite,
     SameCardinality

(* The types of the constants and of the environment.                      *)
LEMMA Finite ==
  ASSUME W!WorkforceRuntimeAssumption
  PROVE  /\ W!IsFiniteSet(Tasks) /\ W!IsFiniteSet(Workers)
         /\ MaxTasks \in Nat
         /\ BudgetLimit \in [Missions -> Nat]
         /\ \A e \in Environments : e.workers \in SUBSET Workers
  BY DEF W!WorkforceRuntimeAssumption

(* Pairs of a process and a task are finitely many.                        *)
LEMMA FinitelyMany ==
  ASSUME W!WorkforceRuntimeAssumption, NEW P \in SUBSET (Workers \X Tasks)
  PROVE  /\ W!IsFiniteSet(P) /\ W!Cardinality(P) \in Nat
         /\ \A Q \in SUBSET P : W!Cardinality(Q) <= W!Cardinality(P)
<1>1. W!IsFiniteSet(Workers \X Tasks)
  BY Finite, FS_Product, SameFinite
<1>2. W!IsFiniteSet(P) /\ W!Cardinality(P) \in Nat
  BY <1>1, Counting
<1> QED BY <1>2, Counting

(* A limit with the room beyond it is a number.                            *)
LEMMA RoomNat ==
  ASSUME W!WorkforceRuntimeAssumption, env \in Environments, NEW m \in Missions
  PROVE  /\ BudgetLimit[m] \in Nat
         /\ W!Cardinality(env.workers) * MaxTasks \in Nat
         /\ BudgetLimit[m] + W!Cardinality(env.workers) * MaxTasks \in Nat
<1>1. env.workers \in SUBSET Workers
  BY Finite
<1>2. W!Cardinality(env.workers) \in Nat
  BY <1>1, Finite, Counting
<1>3. \A a, b \in Nat : a * b \in Nat
  OBVIOUS
<1>4. W!Cardinality(env.workers) * MaxTasks \in Nat
  BY <1>2, <1>3, Finite
<1> QED BY <1>4, Finite

(* A pass may be charged for maxTasksPerRun tasks at most.                 *)
LEMMA UnchargedBounded ==
  ASSUME W!WorkforceRuntimeAssumption, NEW p \in W!Processes, W!PassSound(p)
  PROVE  /\ W!Uncharged(p) \in SUBSET Tasks
         /\ W!Cardinality(W!Uncharged(p)) <= MaxTasks
<1>1. p.pass \in W!Passes /\ p.pass.placed \in SUBSET Tasks
  <2>1. p.pass \in W!Passes
    BY DEF W!Processes
  <2> QED BY <2>1 DEF W!Passes
<1>2. /\ W!IsFiniteSet(p.pass.placed)
      /\ W!Cardinality(p.pass.placed) \in Nat
  BY <1>1, Finite, Counting
<1>3. /\ W!Cardinality(p.pass.placed) <= MaxTasks
      /\ p.pc = "assigning" => W!Cardinality(p.pass.placed) < MaxTasks
  BY DEF W!PassSound
<1>4. CASE p.pc = "assigning"
  <2> DEFINE B == p.pass.placed \cup {W!First(p.pass.todo)}
  <2>1. W!IsFiniteSet(B) /\ W!Cardinality(B) <= MaxTasks
    <3>1. /\ W!IsFiniteSet(B) /\ W!Cardinality(B) \in Nat
          /\ W!Cardinality(B) <= W!Cardinality(p.pass.placed) + 1
      BY <1>2, CountingOne
    <3> HIDE DEF B
    <3> QED BY <3>1, <1>2, <1>3, <1>4, Finite
  <2>2. W!Uncharged(p) \in SUBSET B
    BY DEF W!Uncharged
  <2>3. /\ W!Cardinality(W!Uncharged(p)) <= W!Cardinality(B)
        /\ W!Cardinality(B) \in Nat
        /\ W!Cardinality(W!Uncharged(p)) \in Nat
    BY <2>1, <2>2, Counting
  <2>4. W!Uncharged(p) \in SUBSET Tasks
    BY DEF W!Uncharged
  <2> QED BY <2>1, <2>3, <2>4, Finite
<1>5. CASE p.pc # "assigning"
  <2>1. /\ W!Uncharged(p) \in SUBSET p.pass.placed
        /\ W!Uncharged(p) \in SUBSET Tasks
    BY <1>5 DEF W!Uncharged
  <2>2. /\ W!Cardinality(W!Uncharged(p)) <= W!Cardinality(p.pass.placed)
        /\ W!Cardinality(W!Uncharged(p)) \in Nat
    BY <2>1, <1>2, Counting
  <2> QED BY <2>1, <2>2, <1>2, <1>3, Finite
<1> QED BY <1>4, <1>5

(* What all the passes may be charged for is one pass of each process.     *)
LEMMA OnePassEach ==
  ASSUME W!WorkforceRuntimeAssumption,
         NEW A \in SUBSET Workers, NEW f \in [Workers -> W!Processes],
         \A w \in Workers : /\ w \notin A => f[w].pc = "stopped"
                            /\ W!PassSound(f[w]),
         NEW P \in SUBSET (Workers \X Tasks),
         \A c \in P : c[2] \in W!Uncharged(f[c[1]])
  PROVE  W!Cardinality(P) <= W!Cardinality(A) * MaxTasks
<1> DEFINE L == [w \in A |-> W!Uncharged(f[w])]
<1>1. ASSUME NEW c \in P PROVE c[1] \in A /\ c[2] \in L[c[1]]
  <2>1. c[1] \in Workers /\ c[2] \in W!Uncharged(f[c[1]])
    OBVIOUS
  <2>2. f[c[1]].pc # "stopped"
    BY <2>1 DEF W!Uncharged, W!Working
  <2> QED BY <2>1, <2>2
<1>2. P \in SUBSET (A \X Tasks)
  <2> SUFFICES ASSUME NEW c \in P PROVE c \in A \X Tasks
    OBVIOUS
  <2>1. c[2] \in Tasks /\ c = <<c[1], c[2]>>
    OBVIOUS
  <2>2. c[1] \in A
    BY <1>1
  <2> QED BY <2>1, <2>2
<1>3. \A w \in A : /\ L[w] \in SUBSET Tasks
                   /\ W!Cardinality(L[w]) <= MaxTasks
  BY UnchargedBounded
<1>4. L \in [A -> SUBSET Tasks]
  BY <1>3
<1>5. W!IsFiniteSet(A) /\ W!IsFiniteSet(Tasks) /\ MaxTasks \in Nat
  BY Finite, Counting
<1> HIDE DEF L
<1> QED BY <1>1, <1>2, <1>3, <1>4, <1>5, PairsBounded, SameFinite,
           SameCardinality

(* The cost of a mission is a number, and one more row adds one to that of *)
(* its mission alone.                                                      *)
LEMMA CostNat ==
  ASSUME NEW m, spent \in Seq(Tasks)
  PROVE  W!MissionCost(m) \in Nat
<1>1. W!IsFiniteSet(1..Len(spent))
  BY FS_Interval, SameFinite
<1>2. {i \in DOMAIN spent : MissionOf[spent[i]] = m} \in SUBSET (1..Len(spent))
  OBVIOUS
<1> QED BY <1>1, <1>2, Counting DEF W!MissionCost

(* A row charges the mission of its task with one and no other.            *)
LEMMA CostAppend ==
  ASSUME NEW m, NEW t \in Tasks, spent \in Seq(Tasks),
         spent' = Append(spent, t)
  PROVE  W!MissionCost(m)' = IF MissionOf[t] = m THEN W!MissionCost(m) + 1
                                               ELSE W!MissionCost(m)
<1> DEFINE R == {i \in DOMAIN spent : MissionOf[spent[i]] = m}
           R2 == {i \in DOMAIN spent' : MissionOf[spent'[i]] = m}
<1>1. /\ DOMAIN spent = 1..Len(spent) /\ Len(spent) \in Nat
      /\ DOMAIN spent' = 1..(Len(spent) + 1)
      /\ \A i \in DOMAIN spent : spent'[i] = spent[i]
      /\ spent'[Len(spent) + 1] = t
  OBVIOUS
<1>2. W!IsFiniteSet(R)
  <2>1. W!IsFiniteSet(1..Len(spent))
    BY FS_Interval, SameFinite
  <2>2. R \in SUBSET (1..Len(spent))
    BY <1>1
  <2> QED BY <2>1, <2>2, Counting
<1>3. Len(spent) + 1 \notin R
  BY <1>1
<1>4. MissionOf[t] = m => R2 = R \cup {Len(spent) + 1}
  BY <1>1
<1>5. MissionOf[t] # m => R2 = R
  BY <1>1
<1>6. W!MissionCost(m) = W!Cardinality(R) /\ W!MissionCost(m)' = W!Cardinality(R2)
  BY DEF W!MissionCost
<1> HIDE DEF R, R2
<1> QED BY <1>2, <1>3, <1>4, <1>5, <1>6, CountingOne

(* A step of the process w, which becomes c: what it must keep to.         *)
LEMMA ProcessStep ==
  ASSUME W!Sound, NEW w \in Workers, NEW c \in W!Processes,
         worker' = [worker EXCEPT ![w] = c],
         W!PassSound(c),
         c.pc \in W!Checking \cup W!Working \cup {"returned"} => c.owners # <<>>,
         w \notin env.workers => c.pc = "stopped",
         c.pc \in W!Working /\ W!StopActive => w \in excused',
         excused' \in SUBSET Workers, excused \ {w} \subseteq excused',
         row' \in [Tasks -> W!Rows], spent' \in Seq(Tasks),
         faults' \in 0..env.faults,
         UNCHANGED <<control, locked, stops, env>>
  PROVE  /\ W!TypeOK' /\ W!PassesSound' /\ W!StopBoundsWork'
         /\ worker' \in [Workers -> W!Processes]
         /\ \A v \in Workers : worker'[v] = IF v = w THEN c ELSE worker[v]
<1>1. worker \in [Workers -> W!Processes]
  BY DEF W!Sound, W!TypeOK
<1>2. /\ worker' \in [Workers -> W!Processes]
      /\ \A v \in Workers : worker'[v] = IF v = w THEN c ELSE worker[v]
  BY <1>1
<1>3. W!TypeOK'
  BY <1>2 DEF W!Sound, W!TypeOK
<1>4. W!PassesSound'
  BY <1>2 DEF W!Sound, W!PassesSound, W!PassSound, W!At
<1>5. W!StopBoundsWork'
  BY <1>2 DEF W!Sound, W!StopBoundsWork, W!StopActive
<1> QED BY <1>2, <1>3, <1>4, <1>5

(* A step that leaves no task uncharged that was not before.               *)
LEMMA QuietStep ==
  ASSUME W!WorkforceRuntimeAssumption,
         W!Sound, NEW w \in Workers, NEW c \in W!Processes,
         worker' = [worker EXCEPT ![w] = c],
         W!PassSound(c),
         c.pc \in W!Checking \cup W!Working \cup {"returned"} => c.owners # <<>>,
         w \notin env.workers => c.pc = "stopped",
         W!Uncharged(c) \subseteq W!Uncharged(worker[w]),
         c.pc \in W!Working /\ W!StopActive => w \in excused',
         excused' \in SUBSET Workers, excused \ {w} \subseteq excused',
         row' \in [Tasks -> W!Rows], faults' \in 0..env.faults,
         UNCHANGED <<control, locked, spent, stops, env>>
  PROVE  W!Sound'
<1>0. spent' \in Seq(Tasks)
  BY DEF W!Sound, W!TypeOK
<1>1. /\ W!TypeOK' /\ W!PassesSound' /\ W!StopBoundsWork'
      /\ \A v \in Workers : worker'[v] = IF v = w THEN c ELSE worker[v]
  BY <1>0, ProcessStep
<1>2. W!OutstandingBounded'
  <2> SUFFICES ASSUME NEW m \in Missions, BudgetLimit[m] > 0
               PROVE  W!MissionCost(m)' + W!Cardinality(W!Outstanding(m)')
                        < BudgetLimit[m] + W!Cardinality(env.workers) * MaxTasks
    BY DEF W!OutstandingBounded
  <2>1. W!Outstanding(m)' \in SUBSET W!Outstanding(m)
    BY <1>1 DEF W!Outstanding, W!Uncharged
  <2>2. W!Outstanding(m) \in SUBSET (Workers \X Tasks)
    BY DEF W!Outstanding
  <2>3. /\ W!Cardinality(W!Outstanding(m)) \in Nat
        /\ W!Cardinality(W!Outstanding(m)') \in Nat
        /\ W!Cardinality(W!Outstanding(m)') <= W!Cardinality(W!Outstanding(m))
    BY <2>1, <2>2, FinitelyMany
  <2>4. W!MissionCost(m)' = W!MissionCost(m) /\ W!MissionCost(m) \in Nat
    BY CostNat DEF W!Sound, W!TypeOK, W!MissionCost
  <2>5. W!MissionCost(m) + W!Cardinality(W!Outstanding(m))
          < BudgetLimit[m] + W!Cardinality(env.workers) * MaxTasks
    BY DEF W!Sound, W!OutstandingBounded
  <2>6. BudgetLimit[m] + W!Cardinality(env.workers) * MaxTasks \in Nat
    BY RoomNat DEF W!Sound, W!TypeOK
  <2> QED BY <2>3, <2>4, <2>5, <2>6
<1> QED BY <1>1, <1>2 DEF W!Sound

(* What a process is.                                                      *)
LEMMA ProcessTypes ==
  ASSUME W!Sound, NEW w \in Workers
  PROVE  /\ worker \in [Workers -> W!Processes] /\ worker[w] \in W!Processes
         /\ worker[w].pc \in W!PCs /\ worker[w].owners \in Seq(Owners)
         /\ worker[w].offset \in Nat /\ worker[w].stopping \in BOOLEAN
         /\ worker[w].pass \in W!Passes
         /\ worker[w].pc \in W!Checking \cup W!Working \cup {"returned"}
              => worker[w].owners # <<>>
         /\ w \notin env.workers => worker[w].pc = "stopped"
         /\ W!PassSound(worker[w])
         /\ worker[w].pc \in W!Working /\ W!StopActive => w \in excused
         /\ excused \in SUBSET Workers
         /\ row \in [Tasks -> W!Rows] /\ faults \in 0..env.faults
         /\ env \in Environments /\ spent \in Seq(Tasks)
<1>1. worker \in [Workers -> W!Processes] /\ worker[w] \in W!Processes
  BY DEF W!Sound, W!TypeOK
<1>2. /\ worker[w].pc \in W!PCs /\ worker[w].owners \in Seq(Owners)
      /\ worker[w].offset \in Nat /\ worker[w].stopping \in BOOLEAN
      /\ worker[w].pass \in W!Passes
  BY <1>1 DEF W!Processes
<1>3. /\ worker[w].pc \in W!Checking \cup W!Working \cup {"returned"}
           => worker[w].owners # <<>>
      /\ excused \in SUBSET Workers
      /\ row \in [Tasks -> W!Rows] /\ faults \in 0..env.faults
      /\ env \in Environments /\ spent \in Seq(Tasks)
  BY DEF W!Sound, W!TypeOK
<1>4. /\ w \notin env.workers => worker[w].pc = "stopped"
      /\ W!PassSound(worker[w])
  BY DEF W!Sound, W!PassesSound, W!At
<1>5. worker[w].pc \in W!Working /\ W!StopActive => w \in excused
  BY DEF W!Sound, W!StopBoundsWork
<1> QED BY <1>1, <1>2, <1>3, <1>4, <1>5

(* What Goto, EndPass and a change of the pass make of a process.          *)
LEMMA Moved ==
  ASSUME W!Sound, NEW w \in Workers, NEW label \in W!PCs, W!Goto(w, label)
  PROVE  \E c \in W!Processes :
           /\ worker' = [worker EXCEPT ![w] = c]
           /\ c.pc = label /\ c.owners = worker[w].owners
           /\ c.pass = worker[w].pass
<1> DEFINE c == [worker[w] EXCEPT !.pc = label]
<1>1. worker' = [worker EXCEPT ![w] = c]
  BY DEF W!Goto
<1>2. c \in W!Processes /\ c.pc = label /\ c.owners = worker[w].owners
      /\ c.pass = worker[w].pass
  BY ProcessTypes DEF W!Processes
<1> QED BY <1>1, <1>2

(* What EndPass leaves of the process.                                     *)
LEMMA Ended ==
  ASSUME W!Sound, NEW w \in Workers, NEW outcome \in W!Outcomes,
         W!EndPass(w, outcome)
  PROVE  \E c \in W!Processes :
           /\ worker' = [worker EXCEPT ![w] = c]
           /\ c.pc = "returned" /\ c.owners = worker[w].owners
           /\ c.pass = [worker[w].pass EXCEPT !.outcome = outcome]
<1> DEFINE p == [worker[w].pass EXCEPT !.outcome = outcome]
           c == [worker[w] EXCEPT !.pc = "returned", !.pass = p]
<1>1. p \in W!Passes
  BY ProcessTypes DEF W!Passes
<1>2. worker' = [worker EXCEPT ![w] = c]
  BY ProcessTypes DEF W!EndPass, W!Processes
<1>3. c \in W!Processes
      /\ c.pc = "returned" /\ c.owners = worker[w].owners /\ c.pass = p
  <2>1. "returned" \in W!PCs
    BY DEF W!PCs
  <2> HIDE DEF p
  <2> QED BY <1>1, <2>1, ProcessTypes DEF W!Processes
<1> QED BY <1>2, <1>3

(* A step that only moves the process, but not towards a placement.        *)
LEMMA GotoStep ==
  ASSUME W!WorkforceRuntimeAssumption, W!Sound,
         NEW w \in Workers, NEW label \in W!PCs, W!Goto(w, label),
         label # "assigning", worker[w].pc \notin {"stopped", "executing"},
         label \in W!Checking \cup W!Working \cup {"returned"}
           => worker[w].owners # <<>>,
         label \in W!Checking => worker[w].pass.placed = {},
         label \in W!Working => ~W!StopActive /\ worker[w].pass.placed = {},
         row' \in [Tasks -> W!Rows], faults' \in 0..env.faults,
         UNCHANGED <<control, locked, spent, stops, env, excused>>
  PROVE  W!Sound'
<1>1. PICK c \in W!Processes :
           /\ worker' = [worker EXCEPT ![w] = c]
           /\ c.pc = label /\ c.owners = worker[w].owners
           /\ c.pass = worker[w].pass
  BY Moved
<1>2. W!PassSound(c)
  BY <1>1, ProcessTypes DEF W!PassSound
<1>3. W!Uncharged(c) \subseteq W!Uncharged(worker[w])
  BY <1>1 DEF W!Uncharged
<1>4. /\ excused' \in SUBSET Workers /\ excused \ {w} \subseteq excused'
      /\ w \notin env.workers => c.pc = "stopped"
  BY ProcessTypes
<1> QED BY <1>1, <1>2, <1>3, <1>4, QuietStep

(* A step that ends the pass.                                              *)
LEMMA EndStep ==
  ASSUME W!WorkforceRuntimeAssumption, W!Sound,
         NEW w \in Workers, NEW outcome \in W!Outcomes, W!EndPass(w, outcome),
         worker[w].pc \in W!Checking \cup W!Working, worker[w].pass.slice = {},
         row' \in [Tasks -> W!Rows], faults' \in 0..env.faults,
         UNCHANGED <<control, locked, spent, stops, env, excused>>
  PROVE  W!Sound'
<1>1. PICK c \in W!Processes :
           /\ worker' = [worker EXCEPT ![w] = c]
           /\ c.pc = "returned" /\ c.owners = worker[w].owners
           /\ c.pass = [worker[w].pass EXCEPT !.outcome = outcome]
  BY Ended
<1>2. /\ c.pass.placed = worker[w].pass.placed
      /\ c.pass.pending = worker[w].pass.pending
      /\ c.pass.slice = worker[w].pass.slice
      /\ c.pass.live = worker[w].pass.live
  BY <1>1, ProcessTypes DEF W!Passes
<1>3. "returned" \notin W!Checking \cup W!Working /\ "returned" # "assigning"
  BY DEF W!Checking, W!Working
<1>4. W!PassSound(c)
  BY <1>1, <1>2, <1>3, ProcessTypes DEF W!PassSound
<1>5. W!Uncharged(c) \subseteq W!Uncharged(worker[w])
  BY <1>1, <1>3 DEF W!Uncharged
<1>6. /\ excused' \in SUBSET Workers /\ excused \ {w} \subseteq excused'
      /\ w \notin env.workers => c.pc = "stopped"
      /\ c.owners # <<>>
  <2>1. worker[w].pc # "stopped"
    BY DEF W!Checking, W!Working
  <2> QED BY <1>1, <2>1, ProcessTypes
<1> QED BY <1>1, <1>3, <1>4, <1>5, <1>6, QuietStep

(* A step to the next owner of the cycle, or to the end of the cycle.      *)
LEMMA ServeStep ==
  ASSUME W!WorkforceRuntimeAssumption, W!Sound,
         NEW w \in Workers, NEW list \in Seq(Owners), NEW offset \in Nat,
         W!ServeNext(w, list, offset), worker[w].pc # "stopped",
         excused' \in {excused, excused \ {w}},
         UNCHANGED <<W!rows, faults, env>>
  PROVE  W!Sound'
<1> DEFINE idle == list = <<>> \/ worker[w].stopping
           c == [worker[w] EXCEPT
                  !.pc = IF idle THEN "sleeping" ELSE "initiated",
                  !.owners = IF worker[w].stopping THEN <<>> ELSE list,
                  !.offset = offset, !.pass = W!NoPass]
<1>1. worker' = [worker EXCEPT ![w] = c]
  BY ProcessTypes DEF W!ServeNext, W!Processes
<1>2. W!NoPass \in W!Passes /\ W!NoPass.placed = {} /\ W!NoPass.pending = {}
      /\ W!NoPass.slice = {} /\ W!NoPass.live = {}
  BY DEF W!NoPass, W!Passes, W!Outcomes
<1>3. "sleeping" \in W!PCs /\ "initiated" \in W!PCs /\ <<>> \in Seq(Owners)
  BY DEF W!PCs, W!Checking
<1>4. /\ c \in W!Processes /\ c.pass = W!NoPass
      /\ c.pc = IF idle THEN "sleeping" ELSE "initiated"
      /\ c.owners = IF worker[w].stopping THEN <<>> ELSE list
  BY <1>2, <1>3, ProcessTypes DEF W!Processes
<1> HIDE DEF c
<1>5. W!Cardinality({}) = 0
  BY FS_EmptySet, SameCardinality
<1>6. c.pc \notin W!Working /\ c.pc # "assigning"
  BY <1>4 DEF W!Working
<1>7. W!PassSound(c)
  <2>1. /\ c.pass.placed = {} /\ c.pass.pending = {}
        /\ c.pass.slice = {} /\ c.pass.live = {}
    BY <1>2, <1>4
  <2>2. W!Cardinality(c.pass.placed) <= MaxTasks
    BY <2>1, <1>5, Finite
  <2> QED BY <1>6, <2>1, <2>2 DEF W!PassSound
<1>8. W!Uncharged(c) \subseteq W!Uncharged(worker[w])
  BY <1>6 DEF W!Uncharged
<1>9. /\ excused' \in SUBSET Workers /\ excused \ {w} \subseteq excused'
      /\ w \notin env.workers => c.pc = "stopped"
      /\ row' \in [Tasks -> W!Rows] /\ faults' \in 0..env.faults
  BY ProcessTypes DEF W!rows
<1>10. c.pc \in W!Checking \cup W!Working \cup {"returned"} => c.owners # <<>>
  BY <1>4 DEF W!Checking, W!Working
<1> QED BY <1>1, <1>4, <1>6, <1>7, <1>8, <1>9, <1>10, QuietStep DEF W!rows

(* A step within the part of a pass that hands out work.                   *)
LEMMA PassStep ==
  ASSUME W!WorkforceRuntimeAssumption, W!Sound,
         NEW w \in Workers, NEW label \in W!Working, NEW p \in W!Passes,
         worker' = [worker EXCEPT
                      ![w] = [worker[w] EXCEPT !.pc = label, !.pass = p]],
         worker[w].pc \in W!Working,
         label = "assigning" => /\ worker[w].pc = "assigning"
                                /\ p.todo = worker[w].pass.todo
                                /\ p.placed = worker[w].pass.placed,
         \/ p.placed = worker[w].pass.placed
         \/ /\ worker[w].pc = "assigning"
            /\ p.placed = worker[w].pass.placed
                            \cup {W!First(worker[w].pass.todo)},
         worker[w].pass.charged \subseteq p.charged,
         p.pending \subseteq p.placed, p.slice \subseteq p.placed,
         p.live \subseteq p.slice, label # "executing" => p.slice = {},
         row' \in [Tasks -> W!Rows], faults' \in 0..env.faults,
         UNCHANGED <<control, locked, spent, stops, env, excused>>
  PROVE  W!Sound'
<1> DEFINE c == [worker[w] EXCEPT !.pc = label, !.pass = p]
<1>1. label \in W!PCs /\ label \notin W!Checking /\ worker[w].pc # "stopped"
  BY DEF W!PCs, W!Working, W!Checking
<1>2. /\ c \in W!Processes /\ c.pc = label /\ c.pass = p
      /\ c.owners = worker[w].owners
  BY <1>1, ProcessTypes DEF W!Processes
<1>3. worker' = [worker EXCEPT ![w] = c]
  OBVIOUS
<1> HIDE DEF c
<1>4. /\ W!IsFiniteSet(worker[w].pass.placed)
      /\ W!Cardinality(worker[w].pass.placed) \in Nat
  <2>1. worker[w].pass.placed \in SUBSET Tasks
    BY ProcessTypes DEF W!Passes
  <2> QED BY <2>1, Finite, Counting
<1>5. W!Cardinality(p.placed) <= MaxTasks
  <2>1. CASE p.placed = worker[w].pass.placed
    BY <2>1, ProcessTypes DEF W!PassSound
  <2>2. CASE /\ worker[w].pc = "assigning"
             /\ p.placed = worker[w].pass.placed
                             \cup {W!First(worker[w].pass.todo)}
    <3>1. W!Cardinality(worker[w].pass.placed) < MaxTasks
      BY <2>2, ProcessTypes DEF W!PassSound
    <3>2. /\ W!Cardinality(p.placed) \in Nat
          /\ W!Cardinality(p.placed) <= W!Cardinality(worker[w].pass.placed) + 1
      BY <1>4, <2>2, CountingOne
    <3> QED BY <1>4, <3>1, <3>2, Finite
  <2> QED BY <2>1, <2>2
<1>6. W!PassSound(c)
  BY <1>1, <1>2, <1>5, ProcessTypes DEF W!PassSound
<1>7. W!Uncharged(c) \subseteq W!Uncharged(worker[w])
  BY <1>2 DEF W!Uncharged
<1>8. /\ excused' \in SUBSET Workers /\ excused \ {w} \subseteq excused'
      /\ w \notin env.workers => c.pc = "stopped"
      /\ c.owners # <<>>
      /\ W!StopActive => w \in excused'
  BY <1>1, <1>2, ProcessTypes
<1> QED BY <1>2, <1>3, <1>6, <1>7, <1>8, QuietStep

(* What a pass keeps to, in the present state.                             *)
LEMMA PassFacts ==
  ASSUME W!Sound, NEW w \in Workers
  PROVE  /\ worker[w].pass.pending \subseteq worker[w].pass.placed
         /\ worker[w].pass.slice \subseteq worker[w].pass.placed
         /\ worker[w].pass.live \subseteq worker[w].pass.slice
         /\ worker[w].pc # "executing" => worker[w].pass.slice = {}
         /\ row \in [Tasks -> W!Rows] /\ faults \in 0..env.faults
  BY ProcessTypes DEF W!PassSound

(* The rank of a member of a finite set of numbers takes every value below *)
(* its cardinality, so the set can be put in ascending order.              *)
LEMMA AscendingSeq ==
  ASSUME NEW S \in SUBSET Nat, W!IsFiniteSet(S)
  PROVE  /\ W!Ascending(S) \in [1..W!Cardinality(S) -> S]
         /\ W!Cardinality(S) \in Nat
<1> DEFINE n == W!Cardinality(S)
           r == [x \in S |-> W!Cardinality(W!Before(S, x)) + 1]
<1>1. n \in Nat
  BY Counting
<1>2. ASSUME NEW x \in S
      PROVE  /\ W!IsFiniteSet(W!Before(S, x)) /\ W!Cardinality(W!Before(S, x)) \in Nat
             /\ W!Cardinality(W!Before(S, x)) <= n - 1
  <2>1. W!Before(S, x) \in SUBSET (S \ {x}) /\ W!Before(S, x) \in SUBSET S
    BY DEF W!Before
  <2>2. W!IsFiniteSet(S \ {x}) /\ W!Cardinality(S \ {x}) = n - 1
    BY CountingOne
  <2> QED BY <2>1, <2>2, Counting
<1>3. r \in [S -> 1..n]
  BY <1>1, <1>2
<1>4. ASSUME NEW x \in S, NEW y \in S, x < y PROVE r[x] # r[y]
  <2> DEFINE B == W!Before(S, x) \cup {x}
  <2>1. x \notin W!Before(S, x) /\ B \in SUBSET W!Before(S, y)
    <3>1. x \in Nat /\ y \in Nat
      OBVIOUS
    <3>2. ~(x < x)
      BY <3>1
    <3>3. \A z \in S : z < x => z < y
      BY <1>4, <3>1
    <3>4. x \notin W!Before(S, x)
      BY <3>2 DEF W!Before
    <3>5. B \in SUBSET W!Before(S, y)
      <4> SUFFICES ASSUME NEW z \in B PROVE z \in W!Before(S, y)
        OBVIOUS
      <4>1. z \in S /\ (z < x \/ z = x)
        BY DEF W!Before
      <4> QED BY <1>4, <3>3, <4>1 DEF W!Before
    <3> QED BY <3>4, <3>5
  <2>2. W!Cardinality(B) = W!Cardinality(W!Before(S, x)) + 1
        /\ W!Cardinality(B) \in Nat
    BY <2>1, <1>2, CountingOne
  <2> HIDE DEF B
  <2>3. W!Cardinality(B) <= W!Cardinality(W!Before(S, y))
    BY <2>1, <1>2, Counting
  <2> QED BY <2>2, <2>3, <1>2
<1> HIDE DEF r
<1>5. r \in Injection(S, 1..n)
  <2>1. \A x, y \in S : r[x] = r[y] => x = y
    BY <1>4
  <2> QED BY <1>3, <2>1 DEF Injection, IsInjective
<1>6. W!IsFiniteSet(1..n) /\ W!Cardinality(1..n) = n
  BY <1>1, FS_Interval, SameFinite, SameCardinality
<1>7. r \in Surjection(S, 1..n)
  BY <1>5, <1>6, FS_Injection, SameFinite, SameCardinality
<1>8. ASSUME NEW i \in 1..n
      PROVE  (CHOOSE x \in S : W!Cardinality(W!Before(S, x)) = i - 1) \in S
  <2>1. PICK x \in S : r[x] = i
    BY <1>7 DEF Surjection
  <2>2. W!Cardinality(W!Before(S, x)) = i - 1
    BY <2>1, <1>1, <1>2 DEF r
  <2> QED BY <2>2
<1>9. W!Ascending(S) \in [1..n -> S]
  BY <1>8 DEF W!Ascending
<1> QED BY <1>1, <1>9

(* The owners of a cycle, and what the rotation makes of them.             *)
LEMMA ListTyped ==
  ASSUME W!WorkforceRuntimeAssumption
  PROVE  /\ W!OwnersWithWork \in Seq(Owners)
         /\ \A list \in Seq(Owners), k \in Nat :
              Len(list) > 1 => /\ W!RollOwners(list, k) \in Seq(Owners)
                               /\ (k + 1) % Turns \in Nat
<1>1. W!IsFiniteSet(Owners) /\ Owners \in SUBSET Nat
  BY DEF W!WorkforceRuntimeAssumption
<1>2. W!OwnersWithWork \in Seq(Owners)
  <2> DEFINE S == W!FirstOf({o \in Owners : W!Schedulable(o) # {}}, MaxOwners)
  <2>1. S \in SUBSET Owners
    BY DEF W!FirstOf
  <2>2. W!OwnersWithWork = W!Ascending(S)
    BY DEF W!OwnersWithWork
  <2> HIDE DEF S
  <2>3. /\ W!Ascending(S) \in [1..W!Cardinality(S) -> S]
        /\ W!Cardinality(S) \in Nat
    BY <1>1, <2>1, Counting, AscendingSeq
  <2>4. W!Ascending(S) \in [1..W!Cardinality(S) -> Owners]
    BY <2>1, <2>3
  <2> QED BY <2>2, <2>3, <2>4
<1>3. ASSUME NEW list \in Seq(Owners), NEW k \in Nat, Len(list) > 1
      PROVE  /\ W!RollOwners(list, k) \in Seq(Owners)
             /\ (k + 1) % Turns \in Nat
  <2>1. k % Len(list) \in 0..(Len(list) - 1)
    BY <1>3
  <2>2. PICK j \in 0..(Len(list) - 1) : j = k % Len(list)
    BY <2>1
  <2>3. /\ SubSeq(list, j + 1, Len(list)) \in Seq(Owners)
        /\ SubSeq(list, 1, j) \in Seq(Owners)
    BY <2>2
  <2>4. W!RollOwners(list, k) \in Seq(Owners)
    BY <2>2, <2>3 DEF W!RollOwners
  <2>5. Turns \in Nat \ {0}
    BY DEF W!WorkforceRuntimeAssumption
  <2> QED BY <2>4, <2>5
<1> QED BY <1>2, <1>3

(* The cycle of a process: its start, the sweep and the list of owners.    *)
LEMMA CyclePreserves ==
  ASSUME W!WorkforceRuntimeAssumption, W!Sound,
         NEW w \in Workers, W!Cycle(w), UNCHANGED env
  PROVE  W!Sound'
<1> USE DEF W!At
<1>1. /\ "starting" \notin W!Checking \cup W!Working
      /\ {"sleeping", "sweep", "owners", "stopped", "returned"} \subseteq W!PCs
      /\ {"sleeping", "sweep", "owners", "stopped"} \cap
           (W!Checking \cup W!Working \cup {"returned"}) = {}
      /\ "assigning" \notin {"sleeping", "sweep", "owners", "stopped"}
  BY DEF W!PCs, W!Checking, W!Working
<1>2. W!Recover => row' \in [Tasks -> W!Rows]
  BY ProcessTypes DEF W!Recover, W!Rows
<1>3. row \in [Tasks -> W!Rows] /\ faults \in 0..env.faults
  BY ProcessTypes
<1>4. CASE W!StartWorker(w)
  <2>1. row' \in [Tasks -> W!Rows]
    BY <1>2, <1>3, <1>4 DEF W!StartWorker
  <2> QED BY <1>1, <1>3, <1>4, <2>1, GotoStep DEF W!StartWorker, W!OnlyRows
<1>5. CASE W!StartCycle(w)
  <2>1. PICK label \in {"stopped", "sweep"} : W!Goto(w, label)
    BY <1>5 DEF W!StartCycle
  <2> QED BY <1>1, <1>3, <1>5, <2>1, GotoStep DEF W!StartCycle, W!Local, W!rows
<1>6. CASE W!RecoverStale(w)
  <2>1. row' \in [Tasks -> W!Rows]
    BY <1>2, <1>6 DEF W!RecoverStale
  <2> QED BY <1>1, <1>3, <1>6, <2>1, GotoStep DEF W!RecoverStale, W!OnlyRows
<1>7. CASE W!ListOwners(w)
  <2> DEFINE list == W!OwnersWithWork
             offset == worker[w].offset
  <2>1. /\ worker[w].pc # "stopped" /\ excused' = excused
        /\ UNCHANGED <<W!rows, faults, env>>
    BY <1>7 DEF W!ListOwners, W!Local
  <2>2. offset \in Nat /\ list \in Seq(Owners)
    BY ProcessTypes, ListTyped
  <2>3. CASE Len(list) > 1
    <3>1. W!ServeNext(w, W!RollOwners(list, offset),
                    (offset + 1) % Turns)
      BY <1>7, <2>3 DEF W!ListOwners
    <3>2. /\ W!RollOwners(list, offset) \in Seq(Owners)
          /\ (offset + 1) % Turns \in Nat
      BY <2>2, <2>3, ListTyped
    <3> HIDE DEF list, offset
    <3> QED BY <2>1, <3>1, <3>2, ServeStep
  <2>4. CASE ~(Len(list) > 1)
    <3>1. W!ServeNext(w, list, offset)
      BY <1>7, <2>4 DEF W!ListOwners
    <3> HIDE DEF list, offset
    <3> QED BY <2>1, <2>2, <3>1, ServeStep
  <2> QED BY <2>3, <2>4
<1>8. CASE W!PassReturns(w)
  <2> DEFINE list == IF W!Pass(w).outcome = "global_stopped"
                       THEN <<>> ELSE Tail(worker[w].owners)
  <2>1. /\ W!ServeNext(w, list, worker[w].offset)
        /\ worker[w].pc = "returned" /\ excused' = excused \ {w}
        /\ UNCHANGED <<W!rows, faults, env>>
    BY <1>8 DEF W!PassReturns, W!Local
  <2>2. worker[w].owners \in Seq(Owners) /\ worker[w].owners # <<>>
        /\ worker[w].offset \in Nat
    BY <2>1, ProcessTypes
  <2>3. list \in Seq(Owners)
    BY <2>2
  <2> HIDE DEF list
  <2> QED BY <2>1, <2>2, <2>3, ServeStep
<1> QED BY <1>4, <1>5, <1>6, <1>7, <1>8 DEF W!Cycle

(* The checks of a pass, up to the second look at the control.             *)
LEMMA CheckPreserves ==
  ASSUME W!WorkforceRuntimeAssumption, W!Sound,
         NEW w \in Workers, W!Check(w), UNCHANGED env
  PROVE  W!Sound'
<1> USE DEF W!At
<1>1. /\ {"initiated", "lockdown", "cost", "discover", "recheck"} = W!Checking
      /\ W!Checking \subseteq W!PCs /\ "placing" \in W!PCs \cap W!Working
      /\ W!Checking \cap W!Working = {} /\ "assigning" \notin W!Checking
      /\ "stopped" \notin W!Checking /\ "executing" \notin W!Checking
      /\ {"global_stopped", "aborted", "budget_exhausted", "nothing_to_do"}
           \subseteq W!Outcomes
  BY DEF W!PCs, W!Checking, W!Working, W!Outcomes
<1>2. /\ row \in [Tasks -> W!Rows] /\ faults \in 0..env.faults
      /\ worker[w].pc \in W!Checking
           => /\ worker[w].owners # <<>> /\ worker[w].pass.placed = {}
              /\ worker[w].pass.slice = {}
  BY ProcessTypes DEF W!PassSound
<1>3. W!Local /\ UNCHANGED excused
        => /\ row' \in [Tasks -> W!Rows] /\ faults' \in 0..env.faults
           /\ UNCHANGED <<control, locked, spent, stops, env, excused>>
  BY <1>2 DEF W!Local, W!rows
<1>4. CASE W!PassReadsControl(w)
  BY <1>1, <1>2, <1>3, <1>4, GotoStep, EndStep DEF W!PassReadsControl
<1>5. CASE W!PassReadsLockdown(w)
  BY <1>1, <1>2, <1>3, <1>5, GotoStep, EndStep DEF W!PassReadsLockdown
<1>6. CASE W!PassReadsCost(w)
  BY <1>1, <1>2, <1>3, <1>6, GotoStep, EndStep DEF W!PassReadsCost
<1>7. CASE W!Discover(w)
  <2> DEFINE p == [worker[w].pass EXCEPT !.todo = W!Schedulable(W!Owner(w))]
             c == [worker[w] EXCEPT !.pc = "recheck", !.pass = p]
  <2>1. worker' = [worker EXCEPT ![w] = c]
    BY <1>7, ProcessTypes DEF W!Discover, W!Processes
  <2>2. W!Schedulable(W!Owner(w)) \in SUBSET Tasks
    BY DEF W!Schedulable
  <2>3. /\ p \in W!Passes
        /\ p.placed = worker[w].pass.placed
        /\ p.pending = worker[w].pass.pending
        /\ p.slice = worker[w].pass.slice /\ p.live = worker[w].pass.live
    BY <2>2, ProcessTypes DEF W!Passes
  <2> HIDE DEF p
  <2>4. /\ c \in W!Processes /\ c.pc = "recheck" /\ c.pass = p
        /\ c.owners = worker[w].owners
    BY <1>1, <2>3, ProcessTypes DEF W!Processes
  <2> HIDE DEF c
  <2>5. worker[w].pc \in W!Checking /\ W!Local /\ UNCHANGED excused
    BY <1>1, <1>7 DEF W!Discover
  <2>6. c.pc \in W!Checking /\ c.pc # "assigning" /\ c.pc \notin W!Working
    BY <1>1, <2>4
  <2>7. W!PassSound(c)
    BY <1>2, <2>3, <2>4, <2>5, <2>6, ProcessTypes DEF W!PassSound
  <2>8. W!Uncharged(c) \subseteq W!Uncharged(worker[w])
    BY <2>6 DEF W!Uncharged
  <2>9. /\ excused' \in SUBSET Workers /\ excused \ {w} \subseteq excused'
        /\ w \notin env.workers => c.pc = "stopped"
        /\ c.owners # <<>>
    BY <1>1, <1>2, <2>4, <2>5, ProcessTypes
  <2> QED BY <1>3, <2>1, <2>4, <2>5, <2>6, <2>7, <2>8, <2>9, QuietStep
<1>8. CASE W!Recheck(w)
  <2>1. \/ W!EndPass(w, "global_stopped")
        \/ W!EndPass(w, "nothing_to_do")
        \/ ~W!StopActive /\ W!Goto(w, "placing")
    BY <1>8 DEF W!Recheck
  <2>2. worker[w].pc \in W!Checking /\ W!Local /\ UNCHANGED excused
    BY <1>1, <1>8 DEF W!Recheck
  <2>3. CASE ~W!StopActive /\ W!Goto(w, "placing")
    <3>1. "placing" # "assigning" /\ "placing" \notin W!Checking
      BY <1>1
    <3> QED BY <1>1, <1>2, <1>3, <2>2, <2>3, <3>1, GotoStep
  <2>4. CASE W!EndPass(w, "global_stopped") \/ W!EndPass(w, "nothing_to_do")
    BY <1>1, <1>2, <1>3, <2>2, <2>4, EndStep
  <2> QED BY <2>1, <2>3, <2>4
<1> QED BY <1>4, <1>5, <1>6, <1>7, <1>8 DEF W!Check

(* The budget is compared: what the mission has cost is below its limit,   *)
(* and what is outstanding is one pass of each process at most.            *)
LEMMA AllowPreserves ==
  ASSUME W!WorkforceRuntimeAssumption, W!Sound,
         NEW w \in Workers, NEW t \in Tasks, W!MissionBudgetAllows(w, t),
         UNCHANGED env
  PROVE  W!Sound'
<1>1. /\ worker[w].pc = "placing" /\ t = W!First(worker[w].pass.todo)
      /\ W!Cardinality(worker[w].pass.placed) < MaxTasks
      /\ ~W!Exhausted(t) /\ W!Goto(w, "assigning")
      /\ UNCHANGED <<control, locked, row, spent, stops, faults, excused, env>>
  BY DEF W!MissionBudgetAllows, W!Considers, W!Local, W!rows, W!At, W!Pass
<1>2. /\ {"placing", "assigning"} \subseteq W!Working /\ "assigning" \in W!PCs
      /\ "assigning" \notin W!Checking
  BY DEF W!Working, W!PCs, W!Checking
<1>3. PICK c \in W!Processes :
           /\ worker' = [worker EXCEPT ![w] = c]
           /\ c.pc = "assigning" /\ c.owners = worker[w].owners
           /\ c.pass = worker[w].pass
  BY <1>1, <1>2, Moved
<1>4. W!PassSound(c)
  BY <1>1, <1>2, <1>3, ProcessTypes DEF W!PassSound
<1>5. /\ w \notin env.workers => c.pc = "stopped"
      /\ c.pc \in W!Checking \cup W!Working \cup {"returned"} => c.owners # <<>>
      /\ c.pc \in W!Working /\ W!StopActive => w \in excused'
      /\ excused' \in SUBSET Workers /\ excused \ {w} \subseteq excused'
      /\ row' \in [Tasks -> W!Rows] /\ spent' \in Seq(Tasks)
      /\ faults' \in 0..env.faults
  BY <1>1, <1>2, <1>3, ProcessTypes
<1>6. /\ W!TypeOK' /\ W!PassesSound' /\ W!StopBoundsWork'
      /\ worker' \in [Workers -> W!Processes]
      /\ \A v \in Workers : worker'[v] = IF v = w THEN c ELSE worker[v]
  BY <1>1, <1>3, <1>4, <1>5, ProcessStep
<1>7. \A v \in Workers : /\ v \notin env.workers => worker'[v].pc = "stopped"
                         /\ W!PassSound(worker'[v])
  BY <1>4, <1>5, <1>6, ProcessTypes
<1>8. ASSUME NEW m \in Missions, BudgetLimit[m] > 0
      PROVE  W!MissionCost(m)' + W!Cardinality(W!Outstanding(m)')
               < BudgetLimit[m] + W!Cardinality(env.workers) * MaxTasks
  <2>1. /\ W!MissionCost(m)' = W!MissionCost(m) /\ W!MissionCost(m) \in Nat
        /\ env \in Environments
    BY <1>1, CostNat DEF W!Sound, W!TypeOK, W!MissionCost
  <2>2. /\ W!Outstanding(m) \in SUBSET (Workers \X Tasks)
        /\ W!Outstanding(m)' \in SUBSET (Workers \X Tasks)
    BY DEF W!Outstanding
  <2>3. /\ W!Cardinality(W!Outstanding(m)) \in Nat
        /\ W!Cardinality(W!Outstanding(m)') \in Nat
    BY <2>2, FinitelyMany
  <2>4. BudgetLimit[m] + W!Cardinality(env.workers) * MaxTasks \in Nat
    BY <2>1, RoomNat
  <2>5. CASE MissionOf[t] = m
    <3>1. MissionOf[t] # None
      BY <2>5 DEF W!WorkforceRuntimeAssumption
    <3>2. ~(W!MissionCost(m) >= BudgetLimit[m])
      BY <1>1, <1>8, <2>5, <3>1 DEF W!Exhausted
    <3>3. \A x \in W!Outstanding(m)' : x[2] \in W!Uncharged(worker'[x[1]])
      BY DEF W!Outstanding, W!Uncharged
    <3>4. W!Cardinality(W!Outstanding(m)') <= W!Cardinality(env.workers) * MaxTasks
      BY <1>6, <1>7, <2>1, <2>2, <3>3, Finite, OnePassEach
    <3>5. /\ BudgetLimit[m] \in Nat
          /\ W!Cardinality(env.workers) * MaxTasks \in Nat
      BY <2>1, RoomNat
    <3> QED BY <2>1, <2>3, <3>2, <3>4, <3>5
  <2>6. CASE MissionOf[t] # m
    <3>1. W!Outstanding(m)' \in SUBSET W!Outstanding(m)
      BY <1>1, <1>2, <1>3, <1>6, <2>6 DEF W!Outstanding, W!Uncharged
    <3>2. W!Cardinality(W!Outstanding(m)') <= W!Cardinality(W!Outstanding(m))
      BY <2>2, <3>1, FinitelyMany
    <3>3. W!MissionCost(m) + W!Cardinality(W!Outstanding(m))
            < BudgetLimit[m] + W!Cardinality(env.workers) * MaxTasks
      BY <1>8 DEF W!Sound, W!OutstandingBounded
    <3> QED BY <2>1, <2>3, <2>4, <3>2, <3>3
  <2> QED BY <2>5, <2>6
<1>9. W!OutstandingBounded'
  BY <1>1, <1>8 DEF W!OutstandingBounded
<1> QED BY <1>6, <1>9 DEF W!Sound

(* A charge turns an outstanding task into a cost row.                     *)
LEMMA ChargePreserves ==
  ASSUME W!WorkforceRuntimeAssumption, W!Sound,
         NEW w \in Workers, NEW t \in Tasks, W!ChargeExecution(w, t),
         UNCHANGED env
  PROVE  W!Sound'
<1> DEFINE p == [worker[w].pass EXCEPT !.charged = @ \cup {t}]
           c == [worker[w] EXCEPT !.pass = p]
<1>1. /\ worker[w].pc = "executing"
      /\ t \in worker[w].pass.live \ worker[w].pass.charged
      /\ spent' = Append(spent, t)
      /\ UNCHANGED <<control, locked, row, stops, faults, excused, env>>
  BY DEF W!ChargeExecution, W!At, W!Pass
<1>2. worker' = [worker EXCEPT ![w] = c]
  BY ProcessTypes DEF W!ChargeExecution, W!Processes
<1>3. /\ p \in W!Passes /\ p.placed = worker[w].pass.placed
      /\ p.pending = worker[w].pass.pending
      /\ p.slice = worker[w].pass.slice /\ p.live = worker[w].pass.live
      /\ p.charged = worker[w].pass.charged \cup {t}
  BY ProcessTypes DEF W!Passes
<1> HIDE DEF p
<1>4. /\ c \in W!Processes /\ c.pc = "executing" /\ c.pass = p
      /\ c.owners = worker[w].owners
  BY <1>1, <1>3, ProcessTypes DEF W!Processes
<1> HIDE DEF c
<1>5. "executing" \in W!Working /\ "executing" \notin W!Checking
  BY DEF W!Working, W!Checking
<1>6. W!PassSound(c)
  BY <1>3, <1>4, <1>5, ProcessTypes DEF W!PassSound
<1>7. /\ w \notin env.workers => c.pc = "stopped"
      /\ c.pc \in W!Checking \cup W!Working \cup {"returned"} => c.owners # <<>>
      /\ c.pc \in W!Working /\ W!StopActive => w \in excused'
      /\ excused' \in SUBSET Workers /\ excused \ {w} \subseteq excused'
      /\ row' \in [Tasks -> W!Rows] /\ spent' \in Seq(Tasks)
      /\ faults' \in 0..env.faults
      /\ UNCHANGED <<control, locked, stops, env>>
  BY <1>1, <1>4, <1>5, ProcessTypes
<1>8. /\ W!TypeOK' /\ W!PassesSound' /\ W!StopBoundsWork'
      /\ worker' \in [Workers -> W!Processes]
      /\ \A v \in Workers : worker'[v] = IF v = w THEN c ELSE worker[v]
  BY <1>2, <1>4, <1>6, <1>7, ProcessStep
<1>9. /\ W!Uncharged(c) \subseteq W!Uncharged(worker[w]) \ {t}
      /\ t \in W!Uncharged(worker[w])
  <2>1. t \in worker[w].pass.placed
    BY <1>1, ProcessTypes DEF W!PassSound
  <2> QED BY <1>1, <1>3, <1>4, <1>5, <2>1 DEF W!Uncharged
<1>10. ASSUME NEW m \in Missions, BudgetLimit[m] > 0
       PROVE  W!MissionCost(m)' + W!Cardinality(W!Outstanding(m)')
                < BudgetLimit[m] + W!Cardinality(env.workers) * MaxTasks
  <2>1. /\ W!MissionCost(m) \in Nat /\ env \in Environments
        /\ W!MissionCost(m)' = IF MissionOf[t] = m THEN W!MissionCost(m) + 1
                                                 ELSE W!MissionCost(m)
    BY <1>1, CostNat, CostAppend DEF W!Sound, W!TypeOK
  <2>2. W!Outstanding(m) \in SUBSET (Workers \X Tasks)
    BY DEF W!Outstanding
  <2>3. /\ W!IsFiniteSet(W!Outstanding(m)) /\ W!Cardinality(W!Outstanding(m)) \in Nat
    BY <2>2, FinitelyMany
  <2>4. BudgetLimit[m] + W!Cardinality(env.workers) * MaxTasks \in Nat
    BY <2>1, RoomNat
  <2>5. W!MissionCost(m) + W!Cardinality(W!Outstanding(m))
          < BudgetLimit[m] + W!Cardinality(env.workers) * MaxTasks
    BY <1>10 DEF W!Sound, W!OutstandingBounded
  <2>6. \A x \in W!Outstanding(m)' :
          /\ x \in Workers \X Tasks /\ MissionOf[x[2]] = m
          /\ x[2] \in W!Uncharged(worker'[x[1]])
    BY DEF W!Outstanding, W!Uncharged
  <2>7. W!Outstanding(m)' \in SUBSET (W!Outstanding(m) \ {<<w, t>>})
    <3> SUFFICES ASSUME NEW x \in W!Outstanding(m)'
                 PROVE  x \in W!Outstanding(m) /\ x # <<w, t>>
      OBVIOUS
    <3>1. /\ x \in Workers \X Tasks /\ MissionOf[x[2]] = m
          /\ x[2] \in W!Uncharged(worker[x[1]])
          /\ ~(x[1] = w /\ x[2] = t)
      BY <1>8, <1>9, <2>6
    <3> QED BY <3>1 DEF W!Outstanding
  <2>8. CASE MissionOf[t] = m
    <3>1. <<w, t>> \in W!Outstanding(m)
      BY <1>9, <2>8 DEF W!Outstanding
    <3>2. /\ W!IsFiniteSet(W!Outstanding(m) \ {<<w, t>>})
          /\ W!Cardinality(W!Outstanding(m) \ {<<w, t>>})
               = W!Cardinality(W!Outstanding(m)) - 1
      BY <2>3, <3>1, CountingOne
    <3>3. /\ W!Cardinality(W!Outstanding(m)') <= W!Cardinality(W!Outstanding(m)) - 1
          /\ W!Cardinality(W!Outstanding(m)') \in Nat
      BY <2>7, <3>2, Counting
    <3> QED BY <2>1, <2>3, <2>4, <2>5, <2>8, <3>3
  <2>9. CASE MissionOf[t] # m
    <3>1. /\ W!Cardinality(W!Outstanding(m)') <= W!Cardinality(W!Outstanding(m))
          /\ W!Cardinality(W!Outstanding(m)') \in Nat
      BY <2>3, <2>7, Counting
    <3> QED BY <2>1, <2>3, <2>4, <2>5, <2>9, <3>1
  <2> QED BY <2>8, <2>9
<1>11. W!OutstandingBounded'
  BY <1>1, <1>10 DEF W!OutstandingBounded
<1> QED BY <1>8, <1>11 DEF W!Sound

(* A mission whose budget is used up: its task is skipped.                 *)
LEMMA SkipPreserves ==
  ASSUME W!WorkforceRuntimeAssumption, W!Sound,
         NEW w \in Workers, NEW t \in Tasks, W!MissionBudgetSkips(w, t),
         UNCHANGED env
  PROVE  W!Sound'
<1> DEFINE p == [worker[w].pass EXCEPT !.todo = @ \ {t},
                                       !.skipped = @ \cup {t}]
<1>1. /\ worker[w].pc = "placing"
      /\ UNCHANGED <<control, locked, row, spent, stops, faults, excused, env>>
  BY DEF W!MissionBudgetSkips, W!Local, W!rows, W!At
<1>2. worker' = [worker EXCEPT
                   ![w] = [worker[w] EXCEPT !.pc = "placing", !.pass = p]]
  BY <1>1, ProcessTypes DEF W!MissionBudgetSkips, W!Processes
<1>3. /\ p \in W!Passes /\ p.placed = worker[w].pass.placed
      /\ p.pending = worker[w].pass.pending
      /\ p.slice = worker[w].pass.slice /\ p.live = worker[w].pass.live
      /\ p.charged = worker[w].pass.charged
  BY ProcessTypes DEF W!Passes
<1> HIDE DEF p
<1>4. "placing" \in W!Working /\ "placing" # "assigning"
  BY DEF W!Working
<1>5. /\ p.pending \subseteq p.placed /\ p.slice \subseteq p.placed
      /\ p.live \subseteq p.slice /\ p.slice = {}
      /\ worker[w].pass.charged \subseteq p.charged
      /\ row' \in [Tasks -> W!Rows] /\ faults' \in 0..env.faults
  BY <1>1, <1>3, PassFacts
<1> QED BY <1>1, <1>2, <1>3, <1>4, <1>5, PassStep

(* A task is placed, or passed over.                                       *)
LEMMA PlacePreserves ==
  ASSUME W!WorkforceRuntimeAssumption, W!Sound,
         NEW w \in Workers, NEW t \in Tasks, W!PlaceTask(w, t),
         UNCHANGED env
  PROVE  W!Sound'
<1>1. /\ worker[w].pc = "assigning" /\ t = W!First(worker[w].pass.todo)
      /\ UNCHANGED <<control, locked, spent, stops, faults, excused, env>>
  BY DEF W!PlaceTask, W!OnlyRows, W!At, W!Pass
<1>2. /\ "placing" \in W!Working /\ "placing" # "assigning"
      /\ "assigning" \in W!Working /\ "assigned" \in W!Rows
  BY DEF W!Working, W!Rows
<1>3. CASE /\ row' = [row EXCEPT ![t] = "assigned"]
           /\ worker' = [worker EXCEPT ![w].pc = "placing",
                                       ![w].pass.todo = @ \ {t},
                                       ![w].pass.placed = @ \cup {t},
                                       ![w].pass.pending = @ \cup {t}]
  <2> DEFINE p == [worker[w].pass EXCEPT !.todo = @ \ {t},
                     !.placed = @ \cup {t}, !.pending = @ \cup {t}]
  <2>1. worker' = [worker EXCEPT
                     ![w] = [worker[w] EXCEPT !.pc = "placing", !.pass = p]]
    BY <1>3, ProcessTypes DEF W!Processes
  <2>2. /\ p \in W!Passes /\ p.placed = worker[w].pass.placed \cup {t}
        /\ p.pending = worker[w].pass.pending \cup {t}
        /\ p.slice = worker[w].pass.slice /\ p.live = worker[w].pass.live
        /\ p.charged = worker[w].pass.charged
    BY ProcessTypes DEF W!Passes
  <2> HIDE DEF p
  <2>3. row' \in [Tasks -> W!Rows]
    BY <1>2, <1>3, PassFacts
  <2>4. /\ worker[w].pc \in W!Working
        /\ p.placed = worker[w].pass.placed
                        \cup {W!First(worker[w].pass.todo)}
        /\ p.pending \subseteq p.placed /\ p.slice \subseteq p.placed
        /\ p.live \subseteq p.slice /\ p.slice = {}
        /\ worker[w].pass.charged \subseteq p.charged
        /\ faults' \in 0..env.faults
    BY <1>1, <1>2, <2>2, PassFacts
  <2> QED BY <1>1, <1>2, <2>1, <2>2, <2>3, <2>4, PassStep
<1>4. CASE /\ worker' = [worker EXCEPT ![w].pc = "placing",
                                       ![w].pass.todo = @ \ {t}]
           /\ UNCHANGED row
  <2> DEFINE p == [worker[w].pass EXCEPT !.todo = @ \ {t}]
  <2>1. worker' = [worker EXCEPT
                     ![w] = [worker[w] EXCEPT !.pc = "placing", !.pass = p]]
    BY <1>4, ProcessTypes DEF W!Processes
  <2>2. /\ p \in W!Passes /\ p.placed = worker[w].pass.placed
        /\ p.pending = worker[w].pass.pending
        /\ p.slice = worker[w].pass.slice /\ p.live = worker[w].pass.live
        /\ p.charged = worker[w].pass.charged
    BY ProcessTypes DEF W!Passes
  <2> HIDE DEF p
  <2>3. /\ worker[w].pc \in W!Working
        /\ p.pending \subseteq p.placed /\ p.slice \subseteq p.placed
        /\ p.live \subseteq p.slice /\ p.slice = {}
        /\ worker[w].pass.charged \subseteq p.charged
        /\ row' \in [Tasks -> W!Rows] /\ faults' \in 0..env.faults
    BY <1>1, <1>2, <1>4, <2>2, PassFacts
  <2> QED BY <1>1, <1>2, <2>1, <2>2, <2>3, PassStep
<1> QED BY <1>3, <1>4 DEF W!PlaceTask

(* The run time is over.                                                   *)
LEMMA TimesOutPreserves ==
  ASSUME W!WorkforceRuntimeAssumption, W!Sound,
         NEW w \in Workers, W!TimesOut(w), UNCHANGED env
  PROVE  W!Sound'
<1> DEFINE p == [worker[w].pass EXCEPT !.timedOut = TRUE]
<1>1. /\ worker[w].pc \in W!Working
      /\ UNCHANGED <<control, locked, row, spent, stops, faults, excused, env>>
  BY DEF W!TimesOut, W!Local, W!rows
<1>2. worker' = [worker EXCEPT
                   ![w] = [worker[w] EXCEPT !.pc = worker[w].pc, !.pass = p]]
  BY ProcessTypes DEF W!TimesOut, W!Processes
<1>3. /\ p \in W!Passes /\ p.placed = worker[w].pass.placed
      /\ p.todo = worker[w].pass.todo
      /\ p.pending = worker[w].pass.pending
      /\ p.slice = worker[w].pass.slice /\ p.live = worker[w].pass.live
      /\ p.charged = worker[w].pass.charged
  BY ProcessTypes DEF W!Passes
<1> HIDE DEF p
<1>4. /\ p.pending \subseteq p.placed /\ p.slice \subseteq p.placed
      /\ p.live \subseteq p.slice
      /\ worker[w].pc # "executing" => p.slice = {}
      /\ worker[w].pass.charged \subseteq p.charged
      /\ row' \in [Tasks -> W!Rows] /\ faults' \in 0..env.faults
  BY <1>1, <1>3, PassFacts
<1>5. CASE worker[w].pc = "placing"
  BY <1>1, <1>2, <1>3, <1>4, <1>5, PassStep
<1>6. CASE worker[w].pc = "assigning"
  BY <1>1, <1>2, <1>3, <1>4, <1>6, PassStep
<1>7. CASE worker[w].pc = "executing"
  BY <1>1, <1>2, <1>3, <1>4, <1>7, PassStep
<1> QED BY <1>1, <1>5, <1>6, <1>7 DEF W!Working

(* The next slice is taken.                                                *)
LEMMA SlicePreserves ==
  ASSUME W!WorkforceRuntimeAssumption, W!Sound,
         NEW w \in Workers, W!TakeSlice(w), UNCHANGED env
  PROVE  W!Sound'
<1> DEFINE p == [worker[w].pass EXCEPT !.slice = W!NextSlice(w),
                                       !.pending = @ \ W!NextSlice(w)]
<1>1. /\ worker[w].pc \in {"placing", "executing"}
      /\ worker[w].pc = "executing" => worker[w].pass.slice = {}
      /\ UNCHANGED <<control, locked, row, spent, stops, faults, excused, env>>
  BY DEF W!TakeSlice, W!Handed, W!Local, W!rows, W!At, W!Pass
<1>2. worker' = [worker EXCEPT
                   ![w] = [worker[w] EXCEPT !.pc = "executing", !.pass = p]]
  BY ProcessTypes DEF W!TakeSlice, W!Processes
<1>3. W!NextSlice(w) \subseteq worker[w].pass.pending
  BY DEF W!NextSlice, W!FirstOf, W!Pass
<1> DEFINE n == W!NextSlice(w)
<1>4. /\ p \in W!Passes /\ p.placed = worker[w].pass.placed
      /\ p.pending = worker[w].pass.pending \ n
      /\ p.slice = n /\ p.live = worker[w].pass.live
      /\ p.charged = worker[w].pass.charged
  BY <1>3, ProcessTypes DEF W!Passes
<1> HIDE DEF p, n
<1>5. /\ {"placing", "executing"} \subseteq W!Working
      /\ "executing" # "assigning"
  BY DEF W!Working
<1>6. /\ p.pending \subseteq p.placed /\ p.slice \subseteq p.placed
      /\ p.live \subseteq p.slice
      /\ worker[w].pass.charged \subseteq p.charged
      /\ row' \in [Tasks -> W!Rows] /\ faults' \in 0..env.faults
  BY <1>1, <1>3, <1>4, PassFacts DEF n
<1> QED BY <1>1, <1>2, <1>4, <1>5, <1>6, PassStep
(* A task of the slice is claimed, refused or ended.                       *)
LEMMA TaskPreserves ==
  ASSUME W!WorkforceRuntimeAssumption, W!Sound,
         NEW w \in Workers, NEW t \in Tasks, UNCHANGED env,
         \/ W!StartExecution(w, t)
         \/ W!RefuseExecution(w, t)
         \/ \E end \in {"completed", "failed", "assigned"} :
              W!EndExecution(w, t, end)
  PROVE  W!Sound'
<1>1. "executing" \in W!Working /\ "executing" # "assigning"
      /\ {"running", "completed", "failed", "assigned"} \subseteq W!Rows
  BY DEF W!Working, W!Rows
<1>2. ASSUME NEW p \in W!Passes, worker[w].pc = "executing",
             worker' = [worker EXCEPT ![w] =
                         [worker[w] EXCEPT !.pc = "executing", !.pass = p]],
             p.placed = worker[w].pass.placed,
             p.pending = worker[w].pass.pending,
             p.charged = worker[w].pass.charged,
             p.slice \subseteq worker[w].pass.slice, p.live \subseteq p.slice,
             row' \in [Tasks -> W!Rows],
             UNCHANGED <<control, locked, spent, stops, faults, excused>>
      PROVE  W!Sound'
  <2>1. /\ p.pending \subseteq p.placed /\ p.slice \subseteq p.placed
        /\ worker[w].pass.charged \subseteq p.charged
        /\ faults' \in 0..env.faults
    BY <1>2, PassFacts
  <2> QED BY <1>1, <1>2, <2>1, PassStep
<1>3. CASE W!StartExecution(w, t)
  <2> DEFINE p == [worker[w].pass EXCEPT !.live = @ \cup {t}]
  <2>1. /\ worker[w].pc = "executing" /\ t \in worker[w].pass.slice
        /\ row' = [row EXCEPT ![t] = "running"]
        /\ UNCHANGED <<control, locked, spent, stops, faults, excused>>
    BY <1>3 DEF W!StartExecution, W!OnlyRows, W!At, W!Pass
  <2>2. worker' = [worker EXCEPT ![w] =
                    [worker[w] EXCEPT !.pc = "executing", !.pass = p]]
    <3>1. worker' = [worker EXCEPT ![w] = [worker[w] EXCEPT !.pass = p]]
      BY <1>3, ProcessTypes DEF W!StartExecution
    <3> HIDE DEF p
    <3>2. [worker[w] EXCEPT !.pass = p]
            = [worker[w] EXCEPT !.pc = "executing", !.pass = p]
      BY <2>1, ProcessTypes DEF W!Processes
    <3> QED BY <3>1, <3>2
  <2>3. /\ p \in W!Passes /\ p.placed = worker[w].pass.placed
        /\ p.pending = worker[w].pass.pending
        /\ p.slice = worker[w].pass.slice
        /\ p.live = worker[w].pass.live \cup {t}
        /\ p.charged = worker[w].pass.charged
    BY ProcessTypes DEF W!Passes
  <2> HIDE DEF p
  <2>4. row' \in [Tasks -> W!Rows] /\ p.live \subseteq p.slice
    BY <1>1, <2>1, <2>3, PassFacts
  <2> QED BY <1>2, <2>1, <2>2, <2>3, <2>4
<1>4. CASE W!RefuseExecution(w, t)
  <2> DEFINE p == [worker[w].pass EXCEPT !.slice = @ \ {t}]
  <2>1. /\ worker[w].pc = "executing" /\ t \notin worker[w].pass.live
        /\ UNCHANGED <<control, locked, row, spent, stops, faults, excused>>
    BY <1>4 DEF W!RefuseExecution, W!Local, W!rows, W!At, W!Pass
  <2>2. worker' = [worker EXCEPT ![w] =
                    [worker[w] EXCEPT !.pc = "executing", !.pass = p]]
    BY <1>4, <2>1, ProcessTypes DEF W!RefuseExecution, W!Processes
  <2>3. /\ p \in W!Passes /\ p.placed = worker[w].pass.placed
        /\ p.pending = worker[w].pass.pending
        /\ p.slice = worker[w].pass.slice \ {t}
        /\ p.live = worker[w].pass.live
        /\ p.charged = worker[w].pass.charged
    BY ProcessTypes DEF W!Passes
  <2> HIDE DEF p
  <2>4. row' \in [Tasks -> W!Rows] /\ p.live \subseteq p.slice
    BY <2>1, <2>3, PassFacts
  <2> QED BY <1>2, <2>1, <2>2, <2>3, <2>4
<1>5. ASSUME NEW end \in {"completed", "failed", "assigned"},
             W!EndExecution(w, t, end)
      PROVE  W!Sound'
  <2> DEFINE p == [worker[w].pass EXCEPT !.live = @ \ {t},
                     !.slice = @ \ {t},
                     !.completed = IF end = "completed"
                                     THEN @ \cup {t} ELSE @]
  <2>1. /\ worker[w].pc = "executing"
        /\ row' = [row EXCEPT ![t] = end]
        /\ UNCHANGED <<control, locked, spent, stops, faults, excused>>
    BY <1>5 DEF W!EndExecution, W!OnlyRows, W!At
  <2>2. worker' = [worker EXCEPT ![w] =
                    [worker[w] EXCEPT !.pc = "executing", !.pass = p]]
    <3>1. worker' = [worker EXCEPT ![w] = [worker[w] EXCEPT !.pass = p]]
      BY <1>5 DEF W!EndExecution, W!Pass
    <3> HIDE DEF p
    <3>2. [worker[w] EXCEPT !.pass = p]
            = [worker[w] EXCEPT !.pc = "executing", !.pass = p]
      BY <2>1, ProcessTypes DEF W!Processes
    <3> QED BY <3>1, <3>2
  <2>3. /\ worker[w].pass.completed \in SUBSET Tasks
        /\ worker[w].pass.completed \cup {t} \in SUBSET Tasks
    BY ProcessTypes DEF W!Passes
  <2>4. /\ p \in W!Passes /\ p.placed = worker[w].pass.placed
        /\ p.pending = worker[w].pass.pending
        /\ p.slice = worker[w].pass.slice \ {t}
        /\ p.live = worker[w].pass.live \ {t}
        /\ p.charged = worker[w].pass.charged
    BY <2>3, ProcessTypes DEF W!Passes
  <2> HIDE DEF p
  <2>5. row' \in [Tasks -> W!Rows] /\ p.live \subseteq p.slice
    BY <1>1, <2>1, <2>4, PassFacts
  <2> QED BY <1>2, <2>1, <2>2, <2>4, <2>5
<1> QED BY <1>3, <1>4, <1>5

(* The pass ends.                                                          *)
LEMMA FinishPreserves ==
  ASSUME W!WorkforceRuntimeAssumption, W!Sound,
         NEW w \in Workers, W!FinishPass(w), UNCHANGED env
  PROVE  W!Sound'
<1>1. /\ worker[w].pc \in {"placing", "executing"}
      /\ worker[w].pc = "executing" => worker[w].pass.slice = {}
      /\ W!EndPass(w, W!Outcome(worker[w].pass))
      /\ UNCHANGED <<control, locked, row, spent, stops, faults, excused, env>>
  BY DEF W!FinishPass, W!Handed, W!Local, W!rows, W!At, W!Pass
<1>2. W!Outcome(worker[w].pass) \in W!Outcomes
  BY DEF W!Outcome, W!Outcomes
<1>3. /\ worker[w].pc \in W!Working /\ worker[w].pass.slice = {}
      /\ row' \in [Tasks -> W!Rows] /\ faults' \in 0..env.faults
  BY <1>1, PassFacts DEF W!Working
<1> QED BY <1>1, <1>2, <1>3, EndStep

(* Placement and execution.                                                *)
LEMMA WorkPreserves ==
  ASSUME W!WorkforceRuntimeAssumption, W!Sound,
         NEW w \in Workers, W!Place(w) \/ W!Execute(w) \/ W!TimesOut(w),
         UNCHANGED env
  PROVE  W!Sound'
  BY AllowPreserves, SkipPreserves, PlacePreserves, SlicePreserves,
     TaskPreserves, ChargePreserves, FinishPreserves, TimesOutPreserves
  DEF W!Place, W!Execute

(* A process started anew.                                                 *)
LEMMA FreshProcess ==
  ASSUME W!WorkforceRuntimeAssumption
  PROVE  /\ W!Fresh \in W!Processes /\ W!Fresh.pc = "starting"
         /\ W!Uncharged(W!Fresh) = {} /\ W!PassSound(W!Fresh)
         /\ [W!Fresh EXCEPT !.pc = "stopped"] \in W!Processes
         /\ [W!Fresh EXCEPT !.pc = "stopped"].pc = "stopped"
         /\ W!Uncharged([W!Fresh EXCEPT !.pc = "stopped"]) = {}
         /\ W!PassSound([W!Fresh EXCEPT !.pc = "stopped"])
<1>1. W!NoPass \in W!Passes /\ W!NoPass.placed = {} /\ W!NoPass.pending = {}
      /\ W!NoPass.slice = {} /\ W!NoPass.live = {}
  BY DEF W!NoPass, W!Passes, W!Outcomes
<1>2. "starting" \in W!PCs /\ "stopped" \in W!PCs /\ <<>> \in Seq(Owners)
  BY DEF W!PCs
<1>3. W!Cardinality({}) <= MaxTasks
  BY FS_EmptySet, SameCardinality, Finite
<1>4. ASSUME NEW p, p.pass = W!NoPass, p.pc \in {"starting", "stopped"}
      PROVE  W!Uncharged(p) = {} /\ W!PassSound(p)
  <2>1. p.pc \notin W!Working /\ p.pc \notin {"assigning", "executing"}
    BY <1>4 DEF W!Working
  <2>2. W!Uncharged(p) = {}
    BY <2>1 DEF W!Uncharged
  <2>3. W!Cardinality(p.pass.placed) <= MaxTasks
    BY <1>1, <1>3, <1>4
  <2> QED BY <1>1, <1>4, <2>1, <2>2, <2>3 DEF W!PassSound
<1>5. /\ W!Fresh \in W!Processes
      /\ W!Fresh.pc = "starting"
      /\ W!Fresh.pass = W!NoPass
      /\ [W!Fresh EXCEPT !.pc = "stopped"] \in W!Processes
      /\ [W!Fresh EXCEPT !.pc = "stopped"].pc = "stopped"
      /\ [W!Fresh EXCEPT !.pc = "stopped"].pass = W!NoPass
  BY <1>1, <1>2 DEF W!Fresh, W!Processes
<1> QED BY <1>4, <1>5

(* Failed reads and placements, and crashes.                               *)
LEMMA FaultsPreserve ==
  ASSUME W!WorkforceRuntimeAssumption, W!Sound,
         NEW w \in Workers, W!Faults(w), UNCHANGED env
  PROVE  W!Sound'
<1>1. W!Fault => faults' \in 0..env.faults
  <2>1. env.faults \in Nat
    BY ProcessTypes DEF W!WorkforceRuntimeAssumption
  <2> QED BY <2>1, ProcessTypes DEF W!Fault
<1>2. ASSUME W!CycleReadFails(w) PROVE W!Sound'
  <2>1. /\ worker[w].pc \in {"sweep", "owners"} /\ W!Goto(w, "sleeping")
        /\ UNCHANGED <<control, locked, row, spent, stops, excused, env>>
        /\ faults' \in 0..env.faults
    BY <1>1, <1>2 DEF W!CycleReadFails, W!rows
  <2>2. /\ "sleeping" \in W!PCs /\ "sleeping" # "assigning"
        /\ "sleeping" \notin W!Checking \cup W!Working \cup {"returned"}
    BY DEF W!PCs, W!Checking, W!Working
  <2> QED BY <2>1, <2>2, PassFacts, GotoStep
<1>3. ASSUME W!PassReadFails(w) PROVE W!Sound'
  <2>1. /\ worker[w].pc \in W!Checking /\ W!EndPass(w, "error")
        /\ UNCHANGED <<control, locked, row, spent, stops, excused, env>>
        /\ faults' \in 0..env.faults
    BY <1>1, <1>3 DEF W!PassReadFails, W!rows
  <2>2. worker[w].pass.slice = {} /\ "error" \in W!Outcomes
    BY <2>1, PassFacts DEF W!Checking, W!Outcomes
  <2> QED BY <2>1, <2>2, PassFacts, EndStep
<1>4. ASSUME NEW t \in Tasks, W!PlacementFails(w, t) PROVE W!Sound'
  <2> DEFINE skipped == IF worker[w].pc = "placing"
                          THEN worker[w].pass.skipped \cup {t}
                          ELSE worker[w].pass.skipped
             p == [worker[w].pass EXCEPT !.todo = @ \ {t},
                                         !.skipped = skipped]
  <2>1. /\ worker[w].pc \in {"placing", "assigning"}
        /\ UNCHANGED <<control, locked, row, spent, stops, excused, env>>
        /\ faults' \in 0..env.faults
    BY <1>1, <1>4 DEF W!PlacementFails, W!At, W!rows
  <2>2. worker' = [worker EXCEPT
                     ![w] = [worker[w] EXCEPT !.pc = "placing", !.pass = p]]
    BY <1>4, ProcessTypes DEF W!PlacementFails, W!Processes, W!At
  <2>3. skipped \in SUBSET Tasks
    BY ProcessTypes DEF W!Passes
  <2> HIDE DEF skipped
  <2>4. /\ p \in W!Passes /\ p.placed = worker[w].pass.placed
        /\ p.pending = worker[w].pass.pending
        /\ p.slice = worker[w].pass.slice /\ p.live = worker[w].pass.live
        /\ p.charged = worker[w].pass.charged
    BY <2>3, ProcessTypes DEF W!Passes
  <2> HIDE DEF p
  <2>5. "placing" \in W!Working /\ "placing" # "assigning"
        /\ worker[w].pc \in W!Working
    BY <2>1 DEF W!Working
  <2>6. /\ p.pending \subseteq p.placed /\ p.slice \subseteq p.placed
        /\ p.live \subseteq p.slice /\ p.slice = {}
        /\ worker[w].pass.charged \subseteq p.charged
        /\ row' \in [Tasks -> W!Rows]
    BY <2>1, <2>4, PassFacts
  <2> QED BY <2>1, <2>2, <2>4, <2>5, <2>6, PassStep
<1>5. ASSUME W!Crash(w) PROVE W!Sound'
  <2>1. /\ worker' = [worker EXCEPT ![w] = W!Fresh]
        /\ worker[w].pc # "stopped" /\ excused' = excused \ {w}
        /\ UNCHANGED <<control, locked, row, spent, stops, env>>
        /\ faults' \in 0..env.faults
    BY <1>1, <1>5 DEF W!Crash, W!rows
  <2>2. "starting" \notin W!Checking \cup W!Working \cup {"returned"}
    BY DEF W!Checking, W!Working
  <2>3. /\ excused' \in SUBSET Workers /\ excused \ {w} \subseteq excused'
        /\ w \notin env.workers => W!Fresh.pc = "stopped"
        /\ row' \in [Tasks -> W!Rows]
    BY <2>1, ProcessTypes
  <2>4. W!Fresh \in W!Processes /\ W!Fresh.pc = "starting"
        /\ W!Uncharged(W!Fresh) \subseteq W!Uncharged(worker[w])
        /\ W!PassSound(W!Fresh)
    BY FreshProcess
  <2> QED BY <2>1, <2>2, <2>3, <2>4, QuietStep
<1> QED BY <1>2, <1>3, <1>4, <1>5 DEF W!Faults

(* A shutdown is requested.                                                *)
LEMMA StopRequestPreserves ==
  ASSUME W!WorkforceRuntimeAssumption, W!Sound,
         NEW w \in Workers, W!RequestStop(w), UNCHANGED env
  PROVE  W!Sound'
<1> DEFINE c == [worker[w] EXCEPT !.stopping = TRUE]
<1>1. /\ worker' = [worker EXCEPT ![w] = c]
      /\ UNCHANGED <<control, locked, row, spent, stops, faults, excused, env>>
  BY DEF W!RequestStop, W!Local, W!rows
<1>2. /\ c \in W!Processes /\ c.pc = worker[w].pc /\ c.pass = worker[w].pass
      /\ c.owners = worker[w].owners
  BY ProcessTypes DEF W!Processes
<1> HIDE DEF c
<1>3. W!PassSound(c)
  BY <1>2, ProcessTypes DEF W!PassSound
<1>4. W!Uncharged(c) \subseteq W!Uncharged(worker[w])
  BY <1>2 DEF W!Uncharged
<1>5. /\ excused' \in SUBSET Workers /\ excused \ {w} \subseteq excused'
      /\ w \notin env.workers => c.pc = "stopped"
      /\ c.pc \in W!Checking \cup W!Working \cup {"returned"} => c.owners # <<>>
      /\ c.pc \in W!Working /\ W!StopActive => w \in excused'
      /\ row' \in [Tasks -> W!Rows] /\ faults' \in 0..env.faults
  BY <1>1, <1>2, ProcessTypes
<1> QED BY <1>1, <1>2, <1>3, <1>4, <1>5, QuietStep

(* A step of the world around the processes.                               *)
LEMMA WorldStep ==
  ASSUME W!Sound, UNCHANGED <<spent, worker, faults, env>>,
         control' \in {"enabled", "stopped", "missing"},
         locked' \in SUBSET Owners, row' \in [Tasks -> W!Rows],
         stops' \in 0..env.stops, excused' \in SUBSET Workers,
         W!StopBoundsWork'
  PROVE  W!Sound'
<1>1. W!TypeOK'
  BY DEF W!Sound, W!TypeOK
<1>2. W!PassesSound'
  BY DEF W!Sound, W!PassesSound, W!PassSound, W!At
<1>3. W!OutstandingBounded'
  BY DEF W!Sound, W!OutstandingBounded, W!Outstanding, W!MissionCost, W!Uncharged
<1> QED BY <1>1, <1>2, <1>3 DEF W!Sound

(* The owner's stops, lockdowns and new tasks preserve the invariant.      *)
LEMMA WorldPreserves ==
  ASSUME W!WorkforceRuntimeAssumption, W!Sound, UNCHANGED env,
         \/ \E t \in Tasks : W!CreateTask(t)
         \/ \E value \in {"enabled", "stopped", "missing"} :
              W!SetGlobalControl(value)
         \/ \E o \in Owners : W!ToggleLockdown(o)
  PROVE  W!Sound'
<1>1. /\ control \in {"enabled", "stopped", "missing"} /\ locked \subseteq Owners
      /\ row \in [Tasks -> W!Rows] /\ stops \in 0..env.stops
      /\ excused \subseteq Workers /\ env.stops \in Nat
      /\ W!StopBoundsWork
  BY DEF W!Sound, W!TypeOK, W!WorkforceRuntimeAssumption
<1>2. ASSUME NEW t \in Tasks, W!CreateTask(t) PROVE W!Sound'
  <2>1. /\ row' = [row EXCEPT ![t] = "queued"]
        /\ UNCHANGED <<control, locked, spent, stops, faults, worker, excused>>
    BY <1>2 DEF W!CreateTask, W!OnlyRows
  <2>2. row' \in [Tasks -> W!Rows]
    BY <1>1, <2>1 DEF W!Rows
  <2>3. W!StopBoundsWork'
    BY <1>1, <2>1 DEF W!StopBoundsWork, W!StopActive
  <2> QED BY <1>1, <2>1, <2>2, <2>3, WorldStep
<1>3. ASSUME NEW value \in {"enabled", "stopped", "missing"},
             W!SetGlobalControl(value)
      PROVE  W!Sound'
  <2>1. /\ control' = value /\ stops' = stops + 1 /\ stops < env.stops
        /\ excused' = IF value = "enabled" THEN {}
                      ELSE IF W!StopActive THEN excused
                      ELSE {w \in Workers : worker[w].pc \in W!Working}
        /\ UNCHANGED <<locked, row, spent, worker, faults>>
    BY <1>3 DEF W!SetGlobalControl
  <2>2. W!StopBoundsWork'
    BY <1>1, <2>1 DEF W!StopBoundsWork, W!StopActive
  <2>3. stops' \in 0..env.stops /\ excused' \in SUBSET Workers
    BY <1>1, <2>1
  <2> QED BY <1>1, <2>1, <2>2, <2>3, WorldStep
<1>4. ASSUME NEW o \in Owners, W!ToggleLockdown(o) PROVE W!Sound'
  <2>1. /\ locked' \in {locked \ {o}, locked \cup {o}}
        /\ UNCHANGED <<control, row, spent, stops, worker, faults, excused>>
    BY <1>4 DEF W!ToggleLockdown
  <2>2. W!StopBoundsWork'
    BY <1>1, <2>1 DEF W!StopBoundsWork, W!StopActive
  <2> QED BY <1>1, <2>1, <2>2, WorldStep
<1> QED BY <1>2, <1>3, <1>4

(* The initial states.                                                     *)
LEMMA RuntimeInit ==
  ASSUME W!WorkforceRuntimeAssumption PROVE W!Init => W!Sound
<1> SUFFICES ASSUME W!Init PROVE W!Sound
  OBVIOUS
<1> DEFINE Stopped == [W!Fresh EXCEPT !.pc = "stopped"]
<1>1. \A w \in Workers :
        worker[w] = IF w \in env.workers THEN W!Fresh ELSE Stopped
  BY DEF W!Init
<1> HIDE DEF Stopped
<1>2. /\ W!Fresh \in W!Processes /\ W!Fresh.pc = "starting"
      /\ W!Uncharged(W!Fresh) = {} /\ W!PassSound(W!Fresh)
      /\ Stopped \in W!Processes /\ Stopped.pc = "stopped"
      /\ W!Uncharged(Stopped) = {} /\ W!PassSound(Stopped)
  BY FreshProcess DEF Stopped
<1>3. {"starting", "stopped"} \cap (W!Checking \cup W!Working \cup {"returned"}) = {}
  BY DEF W!Checking, W!Working
<1>4. W!TypeOK
  <2>1. worker \in [Workers -> W!Processes]
    BY <1>2 DEF W!Init, Stopped
  <2>2. env \in Environments /\ env.stops \in Nat /\ env.faults \in Nat
    BY DEF W!Init, W!WorkforceRuntimeAssumption
  <2>3. row \in [Tasks -> W!Rows] /\ spent \in Seq(Tasks)
    BY DEF W!Init, W!Rows
  <2>4. \A w \in Workers : worker[w].pc \notin W!Checking \cup W!Working
                                               \cup {"returned"}
    BY <1>1, <1>2, <1>3
  <2>5. /\ control \in {"enabled", "stopped", "missing"} /\ locked \subseteq Owners
        /\ stops \in 0..env.stops /\ faults \in 0..env.faults
        /\ excused \subseteq Workers
    BY <2>2 DEF W!Init
  <2> QED BY <2>1, <2>2, <2>3, <2>4, <2>5 DEF W!TypeOK
<1>5. W!PassesSound
  BY <1>1, <1>2 DEF W!PassesSound, W!At
<1>6. W!StopBoundsWork
  BY DEF W!Init, W!StopBoundsWork, W!StopActive
<1>7. W!OutstandingBounded
  <2> SUFFICES ASSUME NEW m \in Missions, BudgetLimit[m] > 0
               PROVE  W!MissionCost(m) + W!Cardinality(W!Outstanding(m))
                        < BudgetLimit[m] + W!Cardinality(env.workers) * MaxTasks
    BY DEF W!OutstandingBounded
  <2>1. W!Outstanding(m) = {}
    BY <1>1, <1>2 DEF W!Outstanding
  <2>2. {i \in DOMAIN spent : MissionOf[spent[i]] = m} = {}
    BY DEF W!Init
  <2>3. W!Cardinality({}) = 0
    BY FS_EmptySet, SameCardinality
  <2>4. W!MissionCost(m) = 0 /\ W!Cardinality(W!Outstanding(m)) = 0
    BY <2>1, <2>2, <2>3 DEF W!MissionCost
  <2>5. /\ BudgetLimit[m] \in Nat
        /\ W!Cardinality(env.workers) * MaxTasks \in Nat
    BY RoomNat DEF W!Init
  <2> QED BY <2>4, <2>5
<1> QED BY <1>4, <1>5, <1>6, <1>7 DEF W!Sound

(* Every step.                                                             *)
LEMMA RuntimeStep ==
  ASSUME W!WorkforceRuntimeAssumption
  PROVE  W!Sound /\ [W!Next]_(W!vars) => W!Sound'
<1> SUFFICES ASSUME W!Sound, [W!Next]_(W!vars) PROVE W!Sound'
  OBVIOUS
<1>1. CASE UNCHANGED W!vars
  <2>1. UNCHANGED <<control, locked, row, spent, stops, worker, faults,
                    excused, env>>
    BY <1>1 DEF W!vars
  <2>2. W!StopBoundsWork'
    BY <2>1 DEF W!Sound, W!StopBoundsWork, W!StopActive
  <2>3. /\ control' \in {"enabled", "stopped", "missing"}
        /\ locked' \in SUBSET Owners /\ row' \in [Tasks -> W!Rows]
        /\ stops' \in 0..env.stops /\ excused' \in SUBSET Workers
    BY <2>1 DEF W!Sound, W!TypeOK
  <2> QED BY <2>1, <2>2, <2>3, WorldStep
<1>2. CASE W!Next
  <2>1. UNCHANGED env /\ W!Change
    BY <1>2 DEF W!Next
  <2>2. ASSUME NEW w \in Workers,
               W!Step(w) \/ W!TimesOut(w) \/ W!Faults(w) \/ W!RequestStop(w)
        PROVE  W!Sound'
    BY <2>1, <2>2, CyclePreserves, CheckPreserves, WorkPreserves,
       FaultsPreserve, StopRequestPreserves DEF W!Step
  <2> QED BY <2>1, <2>2, WorldPreserves DEF W!Change
<1> QED BY <1>1, <1>2

(* In every reachable state the values of the variables are typed, a pass  *)
(* keeps its lists within maxTasksPerRun, a stop holds against every pass  *)
(* that looks after it, and what is spent for a mission together with what *)
(* may still be charged to it stays below its limit plus one pass of each  *)
(* worker: the inductive invariant of workerLoop.ts and runWorkforce.      *)
THEOREM RuntimeSound ==
  ASSUME W!WorkforceRuntimeAssumption PROVE W!Spec => []W!Sound
  BY RuntimeInit, RuntimeStep, PTL DEF W!Spec

(* The state of the workers keeps to its types.                            *)
THEOREM RuntimeTyped ==
  ASSUME W!WorkforceRuntimeAssumption PROVE W!Spec => []W!TypeOK
<1>1. W!Sound => W!TypeOK
  BY DEF W!Sound
<1> QED BY <1>1, RuntimeSound, PTL

(* While the workforce is stopped, only a pass that had already looked for *)
(* the second time when it was stopped hands out work.                     *)
THEOREM StopBounds ==
  ASSUME W!WorkforceRuntimeAssumption PROVE W!Spec => []StopBoundsWork
<1>1. W!Sound => StopBoundsWork
  BY DEF W!Sound, W!StopBoundsWork, W!StopActive, W!Working,
         StopBoundsWork, StopActive, Working
<1> QED BY <1>1, RuntimeSound, PTL

(* A mission overruns its budget by less than what one pass of each worker *)
(* process may place.                                                      *)
THEOREM OverrunIsBounded ==
  ASSUME W!WorkforceRuntimeAssumption PROVE W!Spec => []OverrunBounded
<1>1. W!Sound => OverrunBounded
  <2> SUFFICES ASSUME W!Sound, NEW m \in Missions, BudgetLimit[m] > 0
               PROVE  MissionCost(m)
                        < BudgetLimit[m] + Cardinality(env.workers) * MaxTasks
    BY DEF OverrunBounded
  <2>1. /\ W!MissionCost(m) \in Nat
        /\ BudgetLimit[m] + W!Cardinality(env.workers) * MaxTasks \in Nat
    BY CostNat, RoomNat DEF W!Sound, W!TypeOK
  <2>2. W!Outstanding(m) \in SUBSET (Workers \X Tasks)
    BY DEF W!Outstanding
  <2>3. W!Cardinality(W!Outstanding(m)) \in Nat
    BY <2>2, FinitelyMany
  <2>4. W!MissionCost(m) + W!Cardinality(W!Outstanding(m))
          < BudgetLimit[m] + W!Cardinality(env.workers) * MaxTasks
    BY DEF W!Sound, W!OutstandingBounded
  <2>5. /\ MissionCost(m) = W!MissionCost(m)
        /\ Cardinality(env.workers) = W!Cardinality(env.workers)
    BY SameCardinality DEF MissionCost, W!MissionCost
  <2> QED BY <2>1, <2>3, <2>4, <2>5
<1> QED BY <1>1, RuntimeSound, PTL
=============================================================================
