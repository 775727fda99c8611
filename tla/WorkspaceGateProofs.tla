------------------------- MODULE WorkspaceGateProofs -------------------------
(***************************************************************************)
(* What WorkspaceGate promises for any tasks, writers, files, contents,    *)
(* operations and pool.                                                    *)
(*                                                                         *)
(* The argument has two layers.  Locked says who owns the lock and what a  *)
(* writer past its check knows of its file; it gives NoLostUpdate.         *)
(* Witnessed says how the readings of an attempt, its fingerprint, its     *)
(* tests and the evidence bracket each other in time, file by file, but    *)
(* for those whose content has been put back; it gives CompletedAsTested   *)
(* and EvidenceIsTested.                                                   *)
(***************************************************************************)
EXTENDS WorkspaceGate, TLAPS

USE DEF Absent, Partial

(***************************************************************************)
(* Types.                                                                  *)
(***************************************************************************)

(* The number of operations left, by the stage of the attempt.             *)
Counted ==
  \A t \in Tasks :
    /\ gate[t].pc \in {"idle", "boundary", "before", "failing"}
         => gate[t].left = Operations
    /\ gate[t].pc = "testing" => gate[t].left > 0

(* A call in progress has a path.                                          *)
Targeted == \A w \in Writers : writer[w].pc # "idle" => writer[w].path \in Paths

Typed == TypeOK /\ Counted /\ Targeted

(* A partial reading has seen some of the files.                           *)
LEMMA ViewFacts ==
  ASSUME NEW view \in Views
  PROVE  /\ DOMAIN view \subseteq Paths
         /\ \A p \in DOMAIN view : view[p] \in Contents
         /\ view = [p \in DOMAIN view |-> view[p]]
  BY DEF Views

(* Nothing read yet is a reading.                                          *)
LEMMA UnreadIsView == Unread \in Views /\ DOMAIN Unread = {}
  <1>1. Unread \in [{} -> Contents] /\ {} \in SUBSET Paths
    BY DEF Unread
  <1>2. QED
    BY <1>1 DEF Views, Unread

(* Reading one more file gives a reading.                                  *)
LEMMA ExtendedView ==
  ASSUME NEW view \in Views, NEW p \in Paths, NEW c \in Contents
  PROVE  [q \in DOMAIN view \cup {p} |-> IF q = p THEN c ELSE view[q]] \in Views
  <1> DEFINE P == DOMAIN view \cup {p}
             longer == [q \in P |-> IF q = p THEN c ELSE view[q]]
  <1>1. P \in SUBSET Paths
    BY ViewFacts
  <1>2. longer \in [P -> Contents]
    BY ViewFacts
  <1>3. QED
    BY <1>1, <1>2 DEF Views

(* A reading that is full is a workspace, and the other way round.         *)
LEMMA FullView ==
  /\ \A view \in Views : Full(view) => view \in Workspaces
  /\ \A w \in Workspaces : w \in Views /\ Full(w)
  <1>1. \A view \in Views : Full(view) => view \in Workspaces
    BY ViewFacts DEF Full, Workspaces
  <1>2. ASSUME NEW w \in Workspaces
        PROVE  w \in Views /\ Full(w)
    <2>1. w \in [Paths -> Contents] /\ Paths \in SUBSET Paths
      BY DEF Workspaces
    <2>2. QED
      BY <2>1 DEF Views, Full
  <1>3. QED
    BY <1>1, <1>2

(* The idle records are well typed.                                        *)
LEMMA IdleRecords ==
  /\ NoAttempt \in Attempts
  /\ NoCall \in WriterCalls
  /\ \A v \in {"retry", "closed"} :
       [NoAttempt EXCEPT !.pc = "failing", !.verdict = v] \in Attempts
  <1>0. Operations \in 0..Operations /\ Unread \in Views
    BY UnreadIsView, WorkspaceGateAssumption
  <1>1. NoAttempt \in Attempts
    BY <1>0 DEF NoAttempt, Attempts, GatePCs
  <1>2. NoCall \in WriterCalls
    BY WorkspaceGateAssumption DEF NoCall, WriterCalls, WriterPCs, Contents
  <1>3. ASSUME NEW v \in {"retry", "closed"}
        PROVE  [NoAttempt EXCEPT !.pc = "failing", !.verdict = v] \in Attempts
    BY <1>0, <1>1 DEF NoAttempt, Attempts, GatePCs
  <1>4. QED
    BY <1>1, <1>2, <1>3

(* The initial state is well typed.                                        *)
LEMMA TypedInit == Init => Typed
  <1> SUFFICES ASSUME Init PROVE Typed
    OBVIOUS
  <1>1. work \in Workspaces
    BY WorkspaceGateAssumption DEF Init, Workspaces, Contents
  <1>2. TypeOK
    BY <1>1, IdleRecords, WorkspaceGateAssumption DEF Init, TypeOK
  <1>3. Counted
    BY DEF Init, Counted, NoAttempt
  <1>4. Targeted
    BY DEF Init, Targeted, NoCall
  <1>5. QED
    BY <1>2, <1>3, <1>4 DEF Typed

(* Writers keep the types: they touch no attempt.                          *)
LEMMA TypedWriter ==
  ASSUME Typed, NEW w \in Writers, Call(w) \/ Write(w)
  PROVE  Typed'
  <1>0. TypeOK /\ Counted /\ Targeted
    BY DEF Typed
  <1>1. writer[w] \in WriterCalls /\ work \in [Paths -> Contents]
    BY <1>0 DEF TypeOK, Workspaces
  <1>2. \A p \in Paths : work[p] \in Contents
    BY <1>1
  <1>3. /\ writer' \in [Writers -> WriterCalls]
        /\ work' \in [Paths -> Contents]
        /\ lock' \in Tasks \cup Writers \cup {None}
        /\ Targeted'
    <2> USE <1>0, <1>1, <1>2 DEF TypeOK, Workspaces
    <2>1. CASE \E p \in Paths : ReadFile(w, p) \/ CallCreate(w, p)
      <3>1. PICK p \in Paths : ReadFile(w, p) \/ CallCreate(w, p)
        BY <2>1
      <3>2. PICK c \in Contents :
              writer' = [writer EXCEPT ![w] = [pc |-> "calling", path |-> p,
                                               base |-> c]]
        <4>1. Absent \in Contents
          BY WorkspaceGateAssumption DEF Contents
        <4>2. QED
          BY <3>1, <4>1 DEF ReadFile, CallCreate
      <3>3. work' = work /\ lock' = lock
        BY <3>1 DEF ReadFile, CallCreate
      <3>4. writer' \in [Writers -> WriterCalls] /\ Targeted'
        BY <3>2 DEF WriterCalls, WriterPCs, Targeted
      <3>5. QED
        BY <3>3, <3>4
    <2>2. CASE WriterConnects(w)
      BY <2>2 DEF WriterConnects, WriterAt, WriterGoto, WriterCalls, WriterPCs,
                  Targeted
    <2>3. CASE \/ WriterConnectTimesOut(w) \/ CheckRefuses(w)
               \/ Attribute(w) \/ WriterFails(w)
      <3>1. writer' = [writer EXCEPT ![w] = NoCall] /\ work' = work
        BY <2>3 DEF WriterConnectTimesOut, CheckRefuses, Attribute, WriterFails,
                    WriterReturns
      <3>2. lock' \in Tasks \cup Writers \cup {None}
        BY <2>3 DEF WriterConnectTimesOut, CheckRefuses, Attribute, WriterFails,
                    Unlock
      <3>3. Targeted'
        BY <3>1 DEF Targeted, NoCall
      <3>4. QED
        BY <3>1, <3>2, <3>3, IdleRecords
    <2>4. CASE WriterLocks(w)
      BY <2>4 DEF WriterLocks, WriterAt, WriterGoto, WriterCalls, WriterPCs,
                  Targeted
    <2>5. CASE CheckPasses(w)
      BY <2>5 DEF CheckPasses, WriterAt, WriterGoto, WriterCalls, WriterPCs,
                  Targeted
    <2>6. CASE ExclusiveCreate(w)
      <3>1. CASE work[writer[w].path] = Absent
        <4>1. Partial \in Contents
          BY WorkspaceGateAssumption DEF Contents
        <4>2. work' = [work EXCEPT ![writer[w].path] = Partial]
          BY <2>6, <3>1 DEF ExclusiveCreate
        <4>3. work' \in [Paths -> Contents]
          BY <4>1, <4>2
        <4>4. /\ writer' = [writer EXCEPT ![w].pc = "filling",
                                         ![w].base = Partial]
              /\ lock' = lock
          BY <2>6, <3>1 DEF ExclusiveCreate
        <4>5. writer' \in [Writers -> WriterCalls]
          BY <4>1, <4>4 DEF WriterCalls, WriterPCs
        <4>6. writer[w].path \in Paths
          BY <2>6 DEF ExclusiveCreate, WriterAt, Targeted
        <4>7. Targeted'
          BY <4>4, <4>6 DEF Targeted, WriterCalls
        <4>8. QED
          BY <4>3, <4>4, <4>5, <4>7
      <3>2. CASE work[writer[w].path] # Absent
        <4>1. /\ writer' = [writer EXCEPT ![w] = NoCall]
              /\ work' = work
              /\ lock' = IF lock = w THEN None ELSE lock
          BY <2>6, <3>2 DEF ExclusiveCreate, WriterReturns, Unlock
        <4>2. Targeted'
          BY <4>1 DEF Targeted, NoCall
        <4>3. QED
          BY <4>1, <4>2, IdleRecords
      <3>3. QED
        BY <3>1, <3>2
    <2>7. CASE \E text \in Texts : AtomicReplace(w, text) \/ FillFile(w, text)
      <3>1. PICK text \in Texts : AtomicReplace(w, text) \/ FillFile(w, text)
        BY <2>7
      <3>2. text \in Contents
        BY WorkspaceGateAssumption DEF Texts, Contents
      <3>3. /\ work' = [work EXCEPT ![writer[w].path] = text]
            /\ writer' = [writer EXCEPT ![w].pc = "attributing"]
            /\ lock' = lock
            /\ writer[w].pc # "idle"
        BY <3>1 DEF AtomicReplace, FillFile, WriterGoto, WriterAt
      <3>4. work' \in [Paths -> Contents]
        BY <3>2, <3>3
      <3>5. writer' \in [Writers -> WriterCalls] /\ Targeted'
        BY <3>3 DEF WriterCalls, WriterPCs, Targeted
      <3>6. QED
        BY <3>3, <3>4, <3>5
    <2>8. QED
      BY <2>1, <2>2, <2>3, <2>4, <2>5, <2>6, <2>7 DEF Call, Write
  <1>4. UNCHANGED <<status, evidence, gate>>
    BY DEF Call, Write, ReadFile, CallCreate, WriterConnects,
           WriterConnectTimesOut, WriterLocks, CheckPasses, CheckRefuses,
           ExclusiveCreate, AtomicReplace, FillFile, Attribute, WriterFails
  <1>5. restored' \in [Tasks -> [run : SUBSET Paths, row : SUBSET Paths]]
    <2>1. restored' = restored \/ \E p \in Paths : PutBack(p)
      <3>1. CASE \E text \in Texts : AtomicReplace(w, text)
        <4>1. writer[w].path \in Paths
          BY <1>0, <3>1 DEF Targeted, AtomicReplace, WriterAt
        <4>2. restored' = restored \/ PutBack(writer[w].path)
          BY <3>1 DEF AtomicReplace
        <4>3. QED
          BY <4>1, <4>2
      <3>2. CASE ~ \E text \in Texts : AtomicReplace(w, text)
        BY <3>2 DEF Call, Write, ReadFile, CallCreate, WriterConnects,
           WriterConnectTimesOut, WriterLocks, CheckPasses, CheckRefuses,
           ExclusiveCreate, FillFile, Attribute, WriterFails
      <3>3. QED
        BY <3>1, <3>2
    <2>2. QED
      BY <1>0, <2>1 DEF PutBack, TypeOK
  <1>6. calls' \in 0..MaxCalls
    <2>1. \/ calls' = calls
          \/ calls < MaxCalls /\ calls' = calls + 1
      BY DEF Call, Write, ReadFile, CallCreate, WriterConnects,
             WriterConnectTimesOut, WriterLocks, CheckPasses, CheckRefuses,
             ExclusiveCreate, AtomicReplace, FillFile, Attribute, WriterFails
    <2>2. QED
      BY <1>0, <2>1, WorkspaceGateAssumption DEF TypeOK
  <1>7. QED
    BY <1>0, <1>3, <1>4, <1>5, <1>6 DEF Typed, TypeOK, Counted, Workspaces

(* A gate step keeps the types.                                            *)
LEMMA TypedEvaluate ==
  ASSUME Typed, NEW t \in Tasks, Evaluate(t)
  PROVE  Typed'
  <1>0. TypeOK /\ Counted /\ Targeted
    BY DEF Typed
  <1>1. gate[t] \in Attempts /\ work \in Workspaces
    BY <1>0 DEF TypeOK
  <1>2. /\ gate' \in [Tasks -> Attempts]
        /\ Counted'
        /\ evidence' \in [Tasks -> Rows \cup {None}]
        /\ lock' \in Tasks \cup Writers \cup {None}
    <2> USE <1>0, <1>1, UnreadIsView DEF TypeOK
    <2>1. CASE BoundaryPasses(t)
      BY <2>1 DEF BoundaryPasses, GateAt, GateGoto, Attempts, GatePCs, Counted
    <2>2. CASE \E v \in {"retry", "closed"} :
                 /\ Deny(t, v)
                 /\ UNCHANGED evidence
                 /\ lock' \in {lock, None}
      <3>1. PICK v \in {"retry", "closed"} : Deny(t, v)
        BY <2>2
      <3>2. gate' \in [Tasks -> Attempts]
        BY <3>1, IdleRecords DEF Deny
      <3>3. Counted'
        BY <3>1 DEF Deny, Counted, NoAttempt
      <3>4. QED
        BY <2>2, <3>2, <3>3
    <2>3. CASE EvaluateBlocks(t)
      BY <2>2, <2>3 DEF EvaluateBlocks
    <2>4. CASE WorkspaceUnavailable(t)
      BY <2>2, <2>4 DEF WorkspaceUnavailable, Unlock
    <2>5. CASE \E p \in Paths : ReadPath(t, p)
      <3>1. PICK p \in Paths : ReadPath(t, p)
        BY <2>5
      <3>2. gate[t].view \in Views /\ work[p] \in Contents
        BY DEF Attempts, Workspaces
      <3> DEFINE old == gate[t].view
                 longer == [q \in DOMAIN old \cup {p} |->
                              IF q = p THEN work[p] ELSE old[q]]
      <3>3. longer \in Views
        BY <3>2, ExtendedView
      <3>4. gate' = [gate EXCEPT ![t].view = longer]
        BY <3>1 DEF ReadPath
      <3> HIDE DEF longer
      <3>5. gate' \in [Tasks -> Attempts] /\ Counted'
        BY <3>3, <3>4 DEF Attempts, Counted
      <3>6. QED
        BY <3>1, <3>5 DEF ReadPath
    <2>6. CASE FingerprintBefore(t)
      <3>1. gate[t].left > 0
        BY <2>6, WorkspaceGateAssumption DEF FingerprintBefore, GateAt, Counted
      <3>2. /\ gate' = [gate EXCEPT ![t].pc = "testing", ![t].view = Unread,
                                    ![t].before = gate[t].view]
            /\ gate[t].view \in Views
        BY <2>6 DEF FingerprintBefore, Attempts
      <3>3. gate' \in [Tasks -> Attempts] /\ Counted'
        BY <3>1, <3>2 DEF Attempts, GatePCs, Counted
      <3>4. QED
        BY <2>6, <3>3 DEF FingerprintBefore
    <2>7. CASE OperationPasses(t)
      <3>1. /\ gate[t].left \in 0..Operations
            /\ gate[t].left > 0
            /\ gate[t].view \in Views
            /\ gate[t].before \in Views
        BY <2>7 DEF OperationPasses, GateAt, Counted, Attempts
      <3>2. /\ gate[t].left - 1 \in 0..Operations
            /\ NextStage(gate[t].left - 1) \in {"testing", "after"}
            /\ NextStage(gate[t].left - 1) = "testing" => gate[t].left - 1 > 0
        BY <3>1, WorkspaceGateAssumption DEF NextStage
      <3>3. gate' = [gate EXCEPT ![t].pc = NextStage(gate[t].left - 1),
                                 ![t].left = gate[t].left - 1,
                                 ![t].view = Unread,
                                 ![t].tested = gate[t].tested \cup {gate[t].view}]
        BY <2>7 DEF OperationPasses
      <3>4. gate' \in [Tasks -> Attempts] /\ Counted'
        BY <3>1, <3>2, <3>3 DEF Attempts, GatePCs, Counted
      <3>5. evidence' \in [Tasks -> Rows \cup {None}]
        BY <2>7, <3>1 DEF OperationPasses, Rows, RecordedFingerprint
      <3>6. QED
        BY <2>7, <3>4, <3>5 DEF OperationPasses
    <2>8. CASE \E class \in {"retry", "closed"} : OperationFails(t, class)
      <3>1. PICK class \in {"retry", "closed"} : OperationFails(t, class)
        BY <2>8
      <3>2. /\ gate[t].left \in 0..Operations
            /\ gate[t].left > 0
            /\ gate[t].worst \in {"passed", "retry", "closed"}
        BY <3>1 DEF OperationFails, GateAt, Counted, Attempts
      <3>3. /\ gate[t].left - 1 \in 0..Operations
            /\ NextStage(gate[t].left - 1) \in {"testing", "after"}
            /\ NextStage(gate[t].left - 1) = "testing" => gate[t].left - 1 > 0
        BY <3>2, WorkspaceGateAssumption DEF NextStage
      <3>4. Worse(gate[t].worst, class) \in {"passed", "retry", "closed"}
        BY <3>2 DEF Worse
      <3>5. gate' = [gate EXCEPT ![t].pc = NextStage(gate[t].left - 1),
                                 ![t].left = gate[t].left - 1,
                                 ![t].view = Unread,
                                 ![t].worst = Worse(gate[t].worst, class)]
        BY <3>1 DEF OperationFails
      <3>6. gate' \in [Tasks -> Attempts] /\ Counted'
        BY <3>3, <3>4, <3>5 DEF Attempts, GatePCs, Counted
      <3>7. QED
        BY <3>1, <3>6 DEF OperationFails
    <2>9. CASE FingerprintAfter(t)
      <3>1. \/ Deny(t, "retry") \/ Deny(t, "closed")
            \/ GateGoto(t, "accepted")
        BY <2>9 DEF FingerprintAfter, Attempts
      <3>2. evidence' = evidence /\ lock' = lock
        BY <2>9 DEF FingerprintAfter
      <3>3. CASE GateGoto(t, "accepted")
        BY <3>2, <3>3 DEF GateGoto, Attempts, GatePCs, Counted
      <3>4. QED
        BY <2>2, <3>1, <3>2, <3>3
    <2>10. QED
      BY <2>1, <2>3, <2>4, <2>5, <2>6, <2>7, <2>8, <2>9 DEF Evaluate
  <1>3. UNCHANGED <<status, work, writer, calls>>
    BY DEF Evaluate, BoundaryPasses, EvaluateBlocks, WorkspaceUnavailable,
           ReadPath, FingerprintBefore, OperationPasses, OperationFails,
           FingerprintAfter
  <1>4. restored' \in [Tasks -> [run : SUBSET Paths, row : SUBSET Paths]]
    <2>1. \/ restored' = restored
          \/ restored' = [restored EXCEPT ![t].run = {}]
          \/ restored' = [restored EXCEPT ![t].row = restored[t].run]
      BY DEF Evaluate, BoundaryPasses, EvaluateBlocks, WorkspaceUnavailable,
             ReadPath, FingerprintBefore, OperationPasses, OperationFails,
             FingerprintAfter
    <2>2. QED
      BY <1>0, <2>1 DEF TypeOK
  <1>5. QED
    BY <1>0, <1>2, <1>3, <1>4 DEF Typed, TypeOK, Targeted

(* A step of the completion guard keeps the types.                         *)
LEMMA TypedComplete ==
  ASSUME Typed, NEW t \in Tasks, Complete(t)
  PROVE  Typed'
  <1>0. TypeOK /\ Counted /\ Targeted
    BY DEF Typed
  <1>1. gate[t] \in Attempts
    BY <1>0 DEF TypeOK
  <1>2. /\ gate' \in [Tasks -> Attempts]
        /\ Counted'
    <2> USE <1>0, <1>1, UnreadIsView DEF TypeOK
    <2>1. ASSUME NEW label \in {"waiting", "final", "persisting",
                                "completing", "recording"},
                 GateGoto(t, label)
          PROVE  gate' \in [Tasks -> Attempts] /\ Counted'
      BY <2>1 DEF GateGoto, Attempts, GatePCs, Counted
    <2>2. ASSUME NEW v \in {"retry", "closed"}, Deny(t, v)
          PROVE  gate' \in [Tasks -> Attempts] /\ Counted'
      <3>1. gate' \in [Tasks -> Attempts]
        BY <2>2, IdleRecords DEF Deny
      <3>2. Counted'
        BY <2>2 DEF Deny, Counted, NoAttempt
      <3>3. QED
        BY <3>1, <3>2
    <2>3. CASE RecordDecision(t)
      <3>1. gate' = [gate EXCEPT ![t] = NoAttempt]
        BY <2>3 DEF RecordDecision
      <3>2. gate' \in [Tasks -> Attempts]
        BY <3>1, IdleRecords
      <3>3. Counted'
        BY <3>1 DEF Counted, NoAttempt
      <3>4. QED
        BY <3>2, <3>3
    <2>4. CASE GuardConnects(t) \/ GuardLocks(t) \/ CompleteTaskRun(t)
               \/ CompleteTaskIfRunning(t)
      BY <2>1, <2>4 DEF GuardConnects, GuardLocks, CompleteTaskRun,
                        CompleteTaskIfRunning
    <2>5. CASE GuardConnectTimesOut(t) \/ CompletionRefused(t)
               \/ StoreTimesOut(t)
      BY <2>2, <2>5 DEF GuardConnectTimesOut, CompletionRefused, StoreTimesOut
    <2>6. CASE FinalFingerprint(t)
      BY <2>1, <2>2, <2>6 DEF FinalFingerprint
    <2>7. QED
      BY <2>3, <2>4, <2>5, <2>6 DEF Complete
  <1>3. lock' \in {lock, None, t}
    BY DEF Complete, GuardConnects, GuardConnectTimesOut, GuardLocks,
           FinalFingerprint, CompleteTaskRun, CompleteTaskIfRunning,
           CompletionRefused, RecordDecision, StoreTimesOut, Unlock
  <1>4. status' \in {status, [status EXCEPT ![t] = "completed"]}
    BY DEF Complete, GuardConnects, GuardConnectTimesOut, GuardLocks,
           FinalFingerprint, CompleteTaskRun, CompleteTaskIfRunning,
           CompletionRefused, RecordDecision, StoreTimesOut
  <1>5. UNCHANGED <<work, evidence, writer, restored, calls>>
    BY DEF Complete, GuardConnects, GuardConnectTimesOut, GuardLocks,
           FinalFingerprint, CompleteTaskRun, CompleteTaskIfRunning,
           CompletionRefused, RecordDecision, StoreTimesOut
  <1>6. QED
    BY <1>0, <1>2, <1>3, <1>4, <1>5 DEF Typed, TypeOK, Targeted

(* The steps around the gate.                                              *)
Around(t) ==
  \/ StartAttempt(t)
  \/ EndAttempt(t, "queued")
  \/ EndAttempt(t, "failed")
  \/ Crash(t)
  \/ EndTask(t)

(* A step around the gate keeps the types.                                 *)
LEMMA TypedAround ==
  ASSUME Typed, NEW t \in Tasks, Around(t)
  PROVE  Typed'
  <1>0. TypeOK /\ Counted /\ Targeted
    BY DEF Typed
  <1>1. /\ gate' \in [Tasks -> Attempts]
        /\ Counted'
    <2>1. CASE gate' = [gate EXCEPT ![t] = NoAttempt]
      <3>1. gate' \in [Tasks -> Attempts]
        BY <1>0, <2>1, IdleRecords DEF TypeOK
      <3>2. Counted'
        BY <1>0, <2>1 DEF TypeOK, Counted, NoAttempt
      <3>3. QED
        BY <3>1, <3>2
    <2>2. CASE StartAttempt(t)
      <3>1. /\ gate' = [gate EXCEPT ![t].pc = "boundary", ![t].view = Unread]
            /\ gate[t].pc = "idle"
        BY <2>2 DEF StartAttempt, GateAt, GateGoto
      <3>2. gate[t] \in Attempts /\ gate[t].left = Operations
        BY <1>0, <3>1 DEF TypeOK, Counted
      <3>3. gate' \in [Tasks -> Attempts]
        BY <1>0, <3>1, <3>2, UnreadIsView DEF TypeOK, Attempts, GatePCs
      <3>4. Counted'
        BY <1>0, <3>1, <3>2 DEF TypeOK, Attempts, Counted
      <3>5. QED
        BY <3>3, <3>4
    <2>3. CASE EndTask(t)
      BY <1>0, <2>3 DEF EndTask, TypeOK, Counted
    <2>4. QED
      BY <2>1, <2>2, <2>3 DEF Around, EndAttempt, Crash
  <1>2. status' \in [Tasks -> {"queued", "running", "completed", "failed"}]
    BY <1>0 DEF Around, StartAttempt, EndAttempt, Crash, EndTask, TypeOK
  <1>3. lock' \in {lock, None}
    BY DEF Around, StartAttempt, EndAttempt, Crash, EndTask, Unlock
  <1>4. UNCHANGED <<work, evidence, writer, restored, calls>>
    BY DEF Around, StartAttempt, EndAttempt, Crash, EndTask
  <1>5. QED
    BY <1>0, <1>1, <1>2, <1>3, <1>4 DEF Typed, TypeOK, Targeted

(* Who takes a step.                                                       *)
LEMMA NextCases ==
  ASSUME Next
  PROVE  \/ \E w \in Writers : Call(w) \/ Write(w)
         \/ \E t \in Tasks : Evaluate(t) \/ Complete(t) \/ Around(t)
  BY DEF Next, Around

LEMMA TypedStep == Typed /\ [Next]_vars => Typed'
  <1> SUFFICES ASSUME Typed, [Next]_vars PROVE Typed'
    OBVIOUS
  <1>1. CASE Next
    BY <1>1, NextCases, TypedWriter, TypedEvaluate, TypedComplete, TypedAround
  <1>2. CASE UNCHANGED vars
    BY <1>2 DEF vars, Typed, TypeOK, Counted, Targeted
  <1>3. QED
    BY <1>1, <1>2

(* Every variable keeps its type in every behaviour, because an attempt    *)
(* that tests has operations left and a call in progress has its file.     *)
THEOREM TypeCorrect == Spec => []TypeOK
  <1>1. Typed => TypeOK
    BY DEF Typed
  <1>2. QED
    BY <1>1, TypedInit, TypedStep, PTL DEF Spec

(***************************************************************************)
(* The lock.                                                               *)
(***************************************************************************)

GateHolds(t) == gate[t].pc \in {"final", "persisting", "completing",
                                "recording"}
WriterHolds(w) == writer[w].pc \in {"checking", "writing", "filling",
                                    "attributing"}

(* The lock has one holder, and a writer past its check knows the content  *)
(* of its file.                                                            *)
Locked ==
  /\ \A t \in Tasks : GateHolds(t) => lock = t
  /\ \A w \in Writers : WriterHolds(w) => lock = w
  /\ \A w \in Writers :
       /\ writer[w].pc \in {"writing", "filling"}
            => work[writer[w].path] = writer[w].base
       /\ writer[w].pc = "filling" => writer[w].base = Partial

(* What a task does with the lock: nothing, give it up, or take it free.   *)
LockMove(t) ==
  \/ lock' = lock /\ (GateHolds(t)' => GateHolds(t))
  \/ Unlock(t) /\ ~GateHolds(t)'
  \/ lock = None /\ lock' = t

(* What a task leaves alone, and what it does with the lock.               *)
LEMMA TaskStep ==
  ASSUME Typed, NEW t \in Tasks, Evaluate(t) \/ Complete(t) \/ Around(t)
  PROVE  /\ \A u \in Tasks \ {t} : /\ gate'[u] = gate[u] /\ evidence'[u] = evidence[u]
                                   /\ restored'[u] = restored[u]
         /\ UNCHANGED <<work, writer>>
         /\ LockMove(t)
  <1>1. /\ gate \in [Tasks -> Attempts] /\ evidence \in [Tasks -> Rows \cup {None}]
        /\ restored \in [Tasks -> [run : SUBSET Paths, row : SUBSET Paths]]
    BY DEF Typed, TypeOK
  <1>2. gate[t] \in Attempts
    BY <1>1
  <1>3. CASE Evaluate(t)
    <2>1. UNCHANGED <<work, writer>>
      BY <1>3
         DEF Evaluate, BoundaryPasses, EvaluateBlocks, WorkspaceUnavailable,
             ReadPath, FingerprintBefore, OperationPasses, OperationFails,
             FingerprintAfter
    <2>2. \A u \in Tasks \ {t} : /\ gate'[u] = gate[u] /\ evidence'[u] = evidence[u]
                                 /\ restored'[u] = restored[u]
      BY <1>1, <1>3
         DEF Evaluate, BoundaryPasses, EvaluateBlocks, WorkspaceUnavailable,
             ReadPath, FingerprintBefore, OperationPasses, OperationFails,
             FingerprintAfter, GateGoto, Deny
    <2>3. LockMove(t)
      <3> USE <1>1, <1>2 DEF LockMove, GateHolds, Attempts, GatePCs
      <3>1. CASE BoundaryPasses(t)
        BY <3>1 DEF BoundaryPasses, GateGoto
      <3>2. CASE EvaluateBlocks(t)
        BY <3>2 DEF EvaluateBlocks, Deny
      <3>3. CASE \E p \in Paths : ReadPath(t, p)
        BY <3>3 DEF ReadPath
      <3>4. CASE FingerprintBefore(t)
        BY <3>4 DEF FingerprintBefore
      <3>5. CASE OperationPasses(t)
        BY <3>5 DEF OperationPasses, NextStage
      <3>6. CASE OperationFails(t, "retry") \/ OperationFails(t, "closed")
        BY <3>6 DEF OperationFails, NextStage
      <3>7. CASE FingerprintAfter(t)
        <4>1. lock' = lock
          BY <3>7 DEF FingerprintAfter
        <4>2. \/ \E v \in {"retry", "closed"} : Deny(t, v)
              \/ GateGoto(t, "accepted")
          BY <3>7 DEF FingerprintAfter
        <4>3. ~GateHolds(t)'
          <5>1. CASE \E v \in {"retry", "closed"} : Deny(t, v)
            BY <5>1 DEF Deny, NoAttempt
          <5>2. CASE GateGoto(t, "accepted")
            BY <5>2 DEF GateGoto
          <5>3. QED
            BY <4>2, <5>1, <5>2
        <4>4. QED
          BY <4>1, <4>3
      <3>8. CASE WorkspaceUnavailable(t)
        BY <3>8 DEF WorkspaceUnavailable, Deny
      <3>9. QED
        BY <1>3, <3>1, <3>2, <3>3, <3>4, <3>5, <3>6, <3>7, <3>8 DEF Evaluate
    <2>4. QED
      BY <2>1, <2>2, <2>3
  <1>4. CASE Complete(t)
    <2>1. UNCHANGED <<work, writer>>
      BY <1>4
         DEF Complete, GuardConnects, GuardConnectTimesOut, GuardLocks,
             FinalFingerprint, CompleteTaskRun, CompleteTaskIfRunning,
             CompletionRefused, RecordDecision, StoreTimesOut
    <2>2. \A u \in Tasks \ {t} : /\ gate'[u] = gate[u] /\ evidence'[u] = evidence[u]
                                 /\ restored'[u] = restored[u]
      BY <1>1, <1>4
         DEF Complete, GuardConnects, GuardConnectTimesOut, GuardLocks,
             FinalFingerprint, CompleteTaskRun, CompleteTaskIfRunning,
             CompletionRefused, RecordDecision, StoreTimesOut, GateGoto, Deny
    <2>3. LockMove(t)
      <3> USE <1>1, <1>2 DEF LockMove, GateHolds, Attempts, GatePCs
      <3>1. CASE GuardConnects(t)
        BY <3>1 DEF GuardConnects, GateGoto
      <3>2. CASE GuardConnectTimesOut(t)
        BY <3>2 DEF GuardConnectTimesOut, Deny
      <3>3. CASE GuardLocks(t)
        BY <3>3 DEF GuardLocks, Unlocked
      <3>4. CASE FinalFingerprint(t)
        <4>1. CASE GateGoto(t, "persisting") /\ lock' = lock
          BY <3>4, <4>1 DEF FinalFingerprint, GateAt
        <4>2. CASE Deny(t, "retry") /\ Unlock(t)
          BY <4>2 DEF Deny, NoAttempt
        <4>3. QED
          BY <3>4, <4>1, <4>2 DEF FinalFingerprint
      <3>5. CASE CompleteTaskRun(t)
        BY <3>5 DEF CompleteTaskRun, GateAt
      <3>6. CASE CompleteTaskIfRunning(t)
        BY <3>6 DEF CompleteTaskIfRunning, GateAt
      <3>7. CASE CompletionRefused(t)
        BY <3>7 DEF CompletionRefused, Deny
      <3>8. CASE RecordDecision(t)
        BY <3>8 DEF RecordDecision, NoAttempt
      <3>9. CASE StoreTimesOut(t)
        BY <3>9 DEF StoreTimesOut, Deny
      <3>10. QED
        BY <1>4, <3>1, <3>2, <3>3, <3>4, <3>5, <3>6, <3>7, <3>8, <3>9
           DEF Complete
    <2>4. QED
      BY <2>1, <2>2, <2>3
  <1>5. CASE Around(t)
    <2>1. UNCHANGED <<work, writer, evidence, restored>>
      BY <1>5 DEF Around, StartAttempt, EndAttempt, Crash, EndTask
    <2>2. \A u \in Tasks \ {t} : gate'[u] = gate[u]
      BY <1>1, <1>5 DEF Around, StartAttempt, EndAttempt, Crash, EndTask, GateGoto
    <2>3. LockMove(t)
      <3> USE <1>1, <1>2 DEF LockMove, GateHolds, Attempts, GatePCs
      <3>1. CASE StartAttempt(t)
        BY <3>1 DEF StartAttempt, GateGoto
      <3>2. CASE EndAttempt(t, "queued") \/ EndAttempt(t, "failed")
        BY <3>2 DEF EndAttempt, NoAttempt
      <3>3. CASE Crash(t)
        BY <3>3 DEF Crash, NoAttempt
      <3>4. CASE EndTask(t)
        BY <3>4 DEF EndTask
      <3>5. QED
        BY <1>5, <3>1, <3>2, <3>3, <3>4 DEF Around
    <2>4. QED
      BY <2>1, <2>2, <2>3
  <1>6. QED
    BY <1>3, <1>4, <1>5

(* What a writer does with the lock, and to the files.                     *)
WriterLockMove(w) ==
  \/ lock' = lock /\ (WriterHolds(w)' => WriterHolds(w))
  \/ Unlock(w) /\ ~WriterHolds(w)'
  \/ lock = None /\ lock' = w

Placed(w) ==
  \E text \in Contents :
    /\ writer[w].pc \in {"writing", "filling"}
    /\ work[writer[w].path] = writer[w].base
    /\ work' = [work EXCEPT ![writer[w].path] = text]
    /\ \/ text >= work[writer[w].path] /\ restored' = restored
       \/ PutBack(writer[w].path)

(* A writer puts a content in place only where it knows the one before.    *)
LEMMA WriterStep ==
  ASSUME Typed, Locked, NEW w \in Writers, Call(w) \/ Write(w)
  PROVE  /\ \A v \in Writers \ {w} : writer'[v] = writer[v]
         /\ UNCHANGED <<status, evidence, gate>>
         /\ WriterLockMove(w)
         /\ UNCHANGED <<work, restored>> \/ Placed(w)
         /\ writer'[w].pc \in {"writing", "filling"}
              => work'[writer'[w].path] = writer'[w].base
         /\ writer'[w].pc = "filling" => writer'[w].base = Partial
  <1>1. /\ writer \in [Writers -> WriterCalls]
        /\ work \in [Paths -> Contents]
        /\ writer[w] \in WriterCalls
        /\ writer[w].pc # "idle" => writer[w].path \in Paths
    BY DEF Typed, TypeOK, Targeted, Workspaces
  <1>2. UNCHANGED <<status, evidence, gate>>
    BY DEF Call, Write, ReadFile, CallCreate, WriterConnects,
           WriterConnectTimesOut, WriterLocks, CheckPasses, CheckRefuses,
           ExclusiveCreate, AtomicReplace, FillFile, Attribute, WriterFails
  <1>3. \A v \in Writers \ {w} : writer'[v] = writer[v]
    BY <1>1
       DEF Call, Write, ReadFile, CallCreate, WriterConnects,
           WriterConnectTimesOut, WriterLocks, CheckPasses, CheckRefuses,
           ExclusiveCreate, AtomicReplace, FillFile, Attribute, WriterFails,
           WriterGoto, WriterReturns
  <1>4. CASE \E p \in Paths : ReadFile(w, p) \/ CallCreate(w, p)
    <2>1. writer'[w].pc = "calling" /\ UNCHANGED <<work, restored>> /\ lock' = lock
      BY <1>1, <1>4 DEF ReadFile, CallCreate
    <2>2. QED
      BY <1>2, <1>3, <2>1 DEF WriterLockMove, WriterHolds
  <1>5. CASE WriterConnects(w)
    <2>1. writer'[w].pc = "waiting" /\ UNCHANGED <<work, restored>> /\ lock' = lock
      BY <1>1, <1>5 DEF WriterConnects, WriterGoto, WriterCalls
    <2>2. QED
      BY <1>2, <1>3, <2>1 DEF WriterLockMove, WriterHolds
  <1>6. CASE WriterConnectTimesOut(w)
    <2>1. writer'[w].pc = "idle" /\ UNCHANGED <<work, restored>> /\ lock' = lock
      BY <1>1, <1>6 DEF WriterConnectTimesOut, WriterReturns, NoCall
    <2>2. QED
      BY <1>2, <1>3, <2>1 DEF WriterLockMove, WriterHolds
  <1>7. CASE CheckRefuses(w) \/ Attribute(w) \/ WriterFails(w)
    <2>1. writer'[w].pc = "idle" /\ UNCHANGED <<work, restored>> /\ Unlock(w)
      BY <1>1, <1>7 DEF CheckRefuses, Attribute, WriterFails, WriterReturns, NoCall
    <2>2. QED
      BY <1>2, <1>3, <2>1 DEF WriterLockMove, WriterHolds
  <1>8. CASE WriterLocks(w)
    <2>1. writer'[w].pc = "checking" /\ UNCHANGED <<work, restored>> /\ lock = None /\ lock' = w
      BY <1>1, <1>8 DEF WriterLocks, WriterGoto, WriterCalls, Unlocked
    <2>2. QED
      BY <1>2, <1>3, <2>1 DEF WriterLockMove, WriterHolds
  <1>9. CASE CheckPasses(w)
    <2>1. /\ writer[w].pc = "checking" /\ writer'[w].pc = "writing"
          /\ writer'[w].path = writer[w].path /\ writer'[w].base = writer[w].base
          /\ UNCHANGED <<work, restored>> /\ lock' = lock
          /\ work[writer[w].path] = writer[w].base
      BY <1>1, <1>9 DEF CheckPasses, WriterAt, WriterGoto, WriterCalls
    <2>2. QED
      BY <1>2, <1>3, <2>1 DEF WriterLockMove, WriterHolds
  <1>10. CASE ExclusiveCreate(w)
    <2>1. writer[w].pc = "writing" /\ writer[w].base = Absent
      BY <1>10 DEF ExclusiveCreate, WriterAt
    <2>2. work[writer[w].path] = Absent
      BY <2>1 DEF Locked
    <2>3. /\ work' = [work EXCEPT ![writer[w].path] = Partial]
          /\ writer' = [writer EXCEPT ![w].pc = "filling", ![w].base = Partial]
          /\ lock' = lock /\ restored' = restored
      BY <1>10, <2>2 DEF ExclusiveCreate
    <2>4. /\ writer'[w].pc = "filling" /\ writer'[w].base = Partial
          /\ writer'[w].path = writer[w].path
          /\ work'[writer[w].path] = Partial
      BY <1>1, <2>1, <2>3 DEF WriterCalls
    <2>5. Partial \in Contents
      BY WorkspaceGateAssumption DEF Contents
    <2>6. Placed(w)
      <3>1. work[writer[w].path] = writer[w].base /\ Partial >= work[writer[w].path]
        BY <2>1, <2>2
      <3>2. QED
        BY <2>1, <2>3, <2>5, <3>1 DEF Placed
    <2>7. WriterLockMove(w)
      BY <2>1, <2>3 DEF WriterLockMove, WriterHolds
    <2>8. QED
      BY <1>2, <1>3, <2>4, <2>6, <2>7
  <1>11. CASE \E text \in Texts : AtomicReplace(w, text) \/ FillFile(w, text)
    <2>1. PICK text \in Texts : AtomicReplace(w, text) \/ FillFile(w, text)
      BY <1>11
    <2>2. text \in Contents /\ text > Partial
      BY WorkspaceGateAssumption DEF Texts, Contents
    <2>3. /\ writer[w].pc \in {"writing", "filling"}
          /\ work' = [work EXCEPT ![writer[w].path] = text]
          /\ writer' = [writer EXCEPT ![w].pc = "attributing"]
          /\ lock' = lock
      BY <2>1 DEF AtomicReplace, FillFile, WriterAt, WriterGoto
    <2>4. work[writer[w].path] = writer[w].base
      BY <2>3 DEF Locked
    <2>5. \/ text >= work[writer[w].path] /\ restored' = restored
          \/ PutBack(writer[w].path)
      <3>1. CASE AtomicReplace(w, text)
        <4>1. work[writer[w].path] \in Nat /\ text \in Nat
          BY <1>1, <2>2, <2>3 DEF Contents
        <4>2. IF text < work[writer[w].path] THEN PutBack(writer[w].path)
              ELSE restored' = restored
          BY <3>1 DEF AtomicReplace
        <4>3. QED
          BY <4>1, <4>2
      <3>2. CASE FillFile(w, text)
        <4>1. writer[w].pc = "filling" /\ restored' = restored
          BY <3>2 DEF FillFile, WriterAt
        <4>2. work[writer[w].path] = Partial
          BY <2>4, <4>1 DEF Locked
        <4>3. text \in Nat
          BY <2>2 DEF Contents
        <4>4. QED
          BY <2>2, <4>1, <4>2, <4>3
      <3>3. QED
        BY <2>1, <3>1, <3>2
    <2>6. Placed(w)
      BY <2>2, <2>3, <2>4, <2>5 DEF Placed
    <2>7. writer'[w].pc = "attributing"
      BY <1>1, <2>3 DEF WriterCalls
    <2>8. WriterLockMove(w)
      BY <2>3 DEF WriterLockMove, WriterHolds
    <2>9. QED
      BY <1>2, <1>3, <2>6, <2>7, <2>8
  <1>12. QED
    BY <1>4, <1>5, <1>6, <1>7, <1>8, <1>9, <1>10, <1>11 DEF Call, Write

LEMMA LockedInit == Init => Locked
  BY DEF Init, Locked, GateHolds, WriterHolds, NoAttempt, NoCall

(* Another writer past its check would hold the lock too.                  *)
LEMMA LockedByWriter ==
  ASSUME Typed, Locked, NEW w \in Writers, Call(w) \/ Write(w)
  PROVE  Locked'
  <1>0. /\ Tasks \cap Writers = {} /\ None \notin Tasks \cup Writers
        /\ lock \in Tasks \cup Writers \cup {None}
        /\ work \in [Paths -> Contents]
    BY WorkspaceGateAssumption DEF Typed, TypeOK, Workspaces
  <1>1. /\ \A v \in Writers \ {w} : writer'[v] = writer[v]
        /\ gate' = gate
        /\ WriterLockMove(w)
        /\ work' = work \/ Placed(w)
    BY WriterStep
  <1>2. ASSUME NEW t \in Tasks, GateHolds(t)'
        PROVE  lock' = t
    <2>1. lock = t
      BY <1>1, <1>2 DEF Locked, GateHolds
    <2>2. lock # w /\ lock # None
      BY <1>0, <2>1
    <2>3. QED
      BY <1>1, <2>1, <2>2 DEF WriterLockMove, Unlock
  <1>3. ASSUME NEW v \in Writers, WriterHolds(v)'
        PROVE  lock' = v
    <2>1. CASE v = w
      BY <1>1, <1>3, <2>1 DEF WriterLockMove, Locked
    <2>2. CASE v # w
      <3>1. lock = v
        BY <1>1, <1>3, <2>2 DEF Locked, WriterHolds
      <3>2. QED
        BY <1>0, <1>1, <2>2, <3>1 DEF WriterLockMove, Unlock
    <2>3. QED
      BY <2>1, <2>2
  <1>4. ASSUME NEW v \in Writers
        PROVE  /\ writer'[v].pc \in {"writing", "filling"}
                    => work'[writer'[v].path] = writer'[v].base
               /\ writer'[v].pc = "filling" => writer'[v].base = Partial
    <2>1. CASE v = w
      BY <2>1, WriterStep
    <2>2. CASE v # w
      <3>1. writer'[v] = writer[v]
        BY <1>1, <2>2
      <3>2. writer[v].pc \in {"writing", "filling"} => work' = work
        BY <1>1, <2>2 DEF Locked, WriterHolds, Placed
      <3>3. QED
        BY <3>1, <3>2 DEF Locked
    <2>3. QED
      BY <2>1, <2>2
  <1>5. QED
    BY <1>2, <1>3, <1>4 DEF Locked

LEMMA LockedByTask ==
  ASSUME Typed, Locked, NEW t \in Tasks, Evaluate(t) \/ Complete(t) \/ Around(t)
  PROVE  Locked'
  <1>0. /\ Tasks \cap Writers = {} /\ None \notin Tasks \cup Writers
        /\ lock \in Tasks \cup Writers \cup {None}
    BY WorkspaceGateAssumption DEF Typed, TypeOK
  <1>1. /\ \A u \in Tasks \ {t} : gate'[u] = gate[u]
        /\ work' = work /\ writer' = writer
        /\ LockMove(t)
    BY TaskStep
  <1>2. ASSUME NEW u \in Tasks, GateHolds(u)'
        PROVE  lock' = u
    <2>1. CASE u = t
      BY <1>1, <1>2, <2>1 DEF LockMove, Locked
    <2>2. CASE u # t
      <3>1. lock = u
        BY <1>1, <1>2, <2>2 DEF Locked, GateHolds
      <3>2. QED
        BY <1>0, <1>1, <2>2, <3>1 DEF LockMove, Unlock
    <2>3. QED
      BY <2>1, <2>2
  <1>3. ASSUME NEW w \in Writers, WriterHolds(w)'
        PROVE  lock' = w
    <2>1. lock = w
      BY <1>1, <1>3 DEF Locked, WriterHolds
    <2>2. lock # t /\ lock # None
      BY <1>0, <2>1
    <2>3. QED
      BY <1>1, <2>1, <2>2 DEF LockMove, Unlock
  <1>4. QED
    BY <1>1, <1>2, <1>3 DEF Locked

LEMMA LockedStep == Typed /\ Locked /\ [Next]_vars => Locked'
  <1> SUFFICES ASSUME Typed, Locked, [Next]_vars PROVE Locked'
    OBVIOUS
  <1>1. CASE Next
    BY <1>1, NextCases, LockedByWriter, LockedByTask
  <1>2. CASE UNCHANGED vars
    BY <1>2 DEF vars, Locked, GateHolds, WriterHolds
  <1>3. QED
    BY <1>1, <1>2

(* A step that changes a file is a writer's, from the content it expects.  *)
LEMMA OnlyWritersChangeFiles ==
  ASSUME Typed, Locked, [Next]_vars, work' # work
  PROVE  \E w \in Writers : Placed(w) /\ gate' = gate /\ evidence' = evidence
  <1>1. Next
    BY DEF vars
  <1>2. PICK w \in Writers : Call(w) \/ Write(w)
    BY <1>1, NextCases, TaskStep
  <1>3. QED
    BY <1>2, WriterStep

LEMMA UpdateStep ==
  ASSUME Typed, Locked, [Next]_vars
  PROVE  \A p \in Paths : work'[p] # work[p] =>
           \E w \in Writers : /\ writer[w].pc \in {"writing", "filling"}
                              /\ writer[w].path = p
                              /\ writer[w].base = work[p]
  <1> SUFFICES ASSUME NEW p \in Paths, work'[p] # work[p]
               PROVE  \E w \in Writers : /\ writer[w].pc \in {"writing", "filling"}
                                         /\ writer[w].path = p
                                         /\ writer[w].base = work[p]
    OBVIOUS
  <1>1. PICK w \in Writers : Placed(w)
    BY OnlyWritersChangeFiles
  <1>2. writer[w].path = p
    BY <1>1 DEF Placed, Typed, TypeOK, Workspaces
  <1>3. QED
    BY <1>1, <1>2 DEF Placed

(* Every change of a file, in every behaviour, is made by a call that      *)
(* expected the content it replaces: the precondition that create_file and *)
(* apply_patch check is still true when they write.                        *)
THEOREM UpdatesAreExpected == Spec => NoLostUpdate
  <1>1. Init => Typed /\ Locked
    BY TypedInit, LockedInit
  <1>2. Typed /\ Locked /\ [Next]_vars => (Typed /\ Locked)'
    BY TypedStep, LockedStep
  <1>3. Typed /\ Locked /\ [Next]_vars
          => [\A p \in Paths : work'[p] # work[p] =>
               \E w \in Writers : /\ writer[w].pc \in {"writing", "filling"}
                                  /\ writer[w].path = p
                                  /\ writer[w].base = work[p]]_vars
    BY UpdateStep
  <1>4. QED
    BY <1>1, <1>2, <1>3, PTL DEF Spec, NoLostUpdate

(***************************************************************************)
(* The witnesses: a file whose content has not been put back only grows in *)
(* number, so a reading that began after another ended has seen in it at   *)
(* least what the other has, and equal ends pin down all that was read     *)
(* between them.  back is the set of the files put back meanwhile.         *)
(***************************************************************************)

Below(back, v, x) == \A p \in DOMAIN v : p \notin back => v[p] <= x[p]

Settled == {"accepted", "waiting", "final", "persisting", "completing"}
Fingerprinted == {"testing", "after"} \cup Settled

(* The readings of an attempt are of the past.                             *)
Past(g, back, x) ==
  /\ Below(back, g.view, x)
  /\ \A v \in g.tested : Full(v) /\ Below(back, v, x)
  /\ g.pc \in Fingerprinted => Full(g.before) /\ Below(back, g.before, x)

(* The first fingerprint is before the tests, and they before the second.  *)
Ordered(g, back) ==
  /\ g.pc \in {"idle", "boundary", "before", "failing"} => g.tested = {}
  /\ g.pc \in Fingerprinted => \A v \in g.tested : Below(back, g.before, v)
  /\ g.pc = "testing" =>
       \A p \in DOMAIN g.view : p \notin back => g.before[p] <= g.view[p]
  /\ g.pc = "after" =>
       \A v \in g.tested : \A p \in DOMAIN g.view : p \notin back => v[p] <= g.view[p]

(* No failure means that an operation passed; all that passed read the     *)
(* same once the two fingerprints agree; and under the lock the workspace  *)
(* stays what the last reading has seen.                                   *)
Pinned(g, back, x) ==
  /\ g.pc \in {"testing", "after"} /\ g.worst = "passed" /\ g.left < Operations
       => g.tested # {}
  /\ g.pc = "after" => g.left = 0
  /\ g.pc \in Settled => /\ g.tested # {}
                         /\ \A v \in g.tested : AgreeBut(back, v, g.before)
  /\ g.pc = "final" => \A p \in DOMAIN g.view : g.view[p] = x[p]
  /\ g.pc \in {"persisting", "completing"} => g.before = x

(* The row's fingerprint was taken before what its operation read.         *)
Kept(e, back, x) ==
  e # None => /\ Full(e.fingerprint) /\ Full(e.tested)
              /\ Below(back, e.fingerprint, e.tested) /\ Below(back, e.tested, x)

Witness(g, back, x) == Past(g, back, x) /\ Ordered(g, back) /\ Pinned(g, back, x)

WitnessOf(t) == /\ Witness(gate[t], restored[t].run, work)
                /\ Kept(evidence[t], restored[t].row, work)

Witnessed == \A t \in Tasks : WitnessOf(t)

(* An attempt that has read nothing since it began.                        *)
LEMMA FreshWitness ==
  ASSUME NEW g, NEW back, NEW x, g.view = Unread, g.tested = {},
         g.pc \in {"idle", "boundary", "before", "failing"}
  PROVE  Witness(g, back, x)
  <1>1. Past(g, back, x)
    BY UnreadIsView DEF Past, Below, Fingerprinted, Settled
  <1>2. Ordered(g, back) /\ Pinned(g, back, x)
    BY DEF Ordered, Pinned, Fingerprinted, Settled
  <1>3. QED
    BY <1>1, <1>2 DEF Witness

LEMMA WitnessedInit == Init => Witnessed
  BY FreshWitness DEF Init, Witnessed, WitnessOf, NoAttempt, Kept

(* A writer changes nothing but a file, and its content grows, unless the  *)
(* file is put back.                                                       *)
LEMMA WorkGrows ==
  ASSUME Typed, Locked, NEW w \in Writers, Call(w) \/ Write(w), NEW t \in Tasks
  PROVE  /\ restored[t].run \subseteq restored'[t].run
         /\ restored[t].row \subseteq restored'[t].row
         /\ \A p \in Paths : /\ work[p] \in Nat /\ work'[p] \in Nat
                             /\ p \notin restored'[t].run => work[p] <= work'[p]
                             /\ p \notin restored'[t].row => work[p] <= work'[p]
  <1>1. /\ work \in [Paths -> Contents] /\ Contents \subseteq Nat
        /\ \A n \in Nat : n <= n
    BY DEF Typed, TypeOK, Workspaces, Contents
  <1>2. CASE UNCHANGED <<work, restored>>
    BY <1>1, <1>2
  <1>3. CASE Placed(w)
    <2> DEFINE q == writer[w].path
    <2>1. PICK text \in Contents :
            /\ work' = [work EXCEPT ![q] = text]
            /\ \/ text >= work[q] /\ restored' = restored
               \/ PutBack(q)
      BY <1>3 DEF Placed
    <2>2. text \in Nat
      BY <1>1, <2>1
    <2> HIDE DEF q
    <2>3. \A p \in Paths : work'[p] = IF p = q THEN text ELSE work[p]
      BY <1>1, <2>1
    <2>4. CASE text >= work[q] /\ restored' = restored
      <3>1. \A p \in Paths : work[p] \in Nat /\ work'[p] \in Nat
        BY <1>1, <2>2, <2>3
      <3>2. \A p \in Paths : work[p] <= work'[p]
        BY <1>1, <2>2, <2>3, <2>4, <3>1
      <3> QED
        BY <2>4, <3>1, <3>2
    <2>5. CASE PutBack(q)
      <3>1. /\ restored'[t].run = restored[t].run \cup {q}
            /\ restored'[t].row = restored[t].row \cup {q}
        BY <2>5 DEF PutBack
      <3>2. \A p \in Paths : work[p] \in Nat /\ work'[p] \in Nat
        BY <1>1, <2>2, <2>3
      <3>3. \A p \in Paths : p # q => work[p] <= work'[p]
        BY <1>1, <2>3
      <3> QED
        BY <3>1, <3>2, <3>3
    <2>6. QED
      BY <2>1, <2>4, <2>5
  <1>4. QED
    BY <1>2, <1>3, WriterStep

(* What was below the workspace stays below it.                            *)
LEMMA BelowGrows ==
  ASSUME NEW v \in Views, NEW old, NEW new, NEW x, NEW y, Below(old, v, x),
         old \subseteq new,
         \A p \in Paths : /\ x[p] \in Nat /\ y[p] \in Nat
                          /\ p \notin new => x[p] <= y[p]
  PROVE  Below(new, v, y)
  <1>1. DOMAIN v \subseteq Paths /\ \A p \in DOMAIN v : v[p] \in Nat
    BY ViewFacts DEF Contents
  <1>2. ASSUME NEW p \in DOMAIN v, p \notin new
        PROVE  v[p] <= y[p]
    <2>1. /\ v[p] \in Nat /\ x[p] \in Nat /\ y[p] \in Nat
          /\ v[p] <= x[p] /\ x[p] <= y[p]
      BY <1>1, <1>2 DEF Below
    <2>2. QED
      BY <2>1
  <1>3. QED
    BY <1>2 DEF Below

(* Two full readings below each other are the same.                        *)
LEMMA BetweenEqual ==
  ASSUME NEW u \in Views, NEW v \in Views, NEW back, Full(u), Full(v),
         Below(back, u, v), Below(back, v, u)
  PROVE  AgreeBut(back, v, u)
  <1>1. u \in [Paths -> Contents] /\ v \in [Paths -> Contents]
    BY FullView DEF Workspaces
  <1>2. ASSUME NEW p \in Paths \ back PROVE v[p] = u[p]
    <2>1. u[p] \in Nat /\ v[p] \in Nat
      BY <1>1 DEF Contents
    <2>2. u[p] <= v[p] /\ v[p] <= u[p]
      BY <1>1 DEF Below
    <2>3. QED
      BY <2>1, <2>2
  <1>3. QED
    BY <1>2 DEF AgreeBut

(* A tool that writes disturbs no witness.                                 *)
LEMMA WitnessedByWriter ==
  ASSUME Typed, Locked, Witnessed, NEW w \in Writers, Call(w) \/ Write(w)
  PROVE  Witnessed'
  <1> SUFFICES ASSUME NEW t \in Tasks
               PROVE  WitnessOf(t)'
    BY DEF Witnessed
  <1> DEFINE g == gate[t]
             e == evidence[t]
             run == restored[t].run
             row == restored[t].row
  <1>0. UNCHANGED <<status, evidence, gate>>
    BY WriterStep
  <1>1. /\ run \subseteq run' /\ row \subseteq row'
        /\ \A p \in Paths : /\ work[p] \in Nat /\ work'[p] \in Nat
                            /\ p \notin run' => work[p] <= work'[p]
                            /\ p \notin row' => work[p] <= work'[p]
    BY WorkGrows
  <1>2. g \in Attempts /\ e \in Rows \cup {None}
    BY DEF Typed, TypeOK
  <1>3. Past(g, run, work) /\ Ordered(g, run) /\ Pinned(g, run, work) /\ Kept(e, row, work)
    BY DEF Witnessed, WitnessOf, Witness
  <1>4. Past(g, run', work')
    <2>1. g.view \in Views /\ g.before \in Views /\ g.tested \subseteq Views
      BY <1>2 DEF Attempts
    <2>2. ASSUME NEW v \in Views, Below(run, v, work)
          PROVE  Below(run', v, work')
      <3>1. \A p \in Paths : /\ work[p] \in Nat /\ work'[p] \in Nat
                             /\ p \notin run' => work[p] <= work'[p]
        BY <1>1
      <3>2. QED
        BY <1>1, <2>2, <3>1, BelowGrows
    <2>3. QED
      BY <1>3, <2>1, <2>2 DEF Past
  <1>5. Ordered(g, run')
    BY <1>1, <1>3 DEF Ordered, Below
  <1>6. Pinned(g, run', work')
    <2>1. g.pc \in {"final", "persisting", "completing"} => work' = work
      <3>1. SUFFICES ASSUME GateHolds(t), work' # work
                     PROVE  FALSE
        BY DEF GateHolds
      <3>2. Placed(w)
        BY <3>1, WriterStep
      <3>3. WriterHolds(w)
        BY <3>2 DEF Placed, WriterHolds
      <3>4. lock = t /\ lock = w
        BY <3>1, <3>3 DEF Locked
      <3>5. QED
        BY <3>4, WorkspaceGateAssumption
    <2>2. \A v : AgreeBut(run, v, g.before) => AgreeBut(run', v, g.before)
      BY <1>1 DEF AgreeBut
    <2>3. QED
      BY <1>3, <2>1, <2>2 DEF Pinned
  <1>7. Kept(e, row', work')
    <2>1. CASE e = None
      BY <2>1 DEF Kept
    <2>2. CASE e # None
      <3>1. e.tested \in Views
        BY <1>2, <2>2 DEF Rows
      <3>2. Below(row', e.tested, work')
        <4>1. \A p \in Paths : /\ work[p] \in Nat /\ work'[p] \in Nat
                               /\ p \notin row' => work[p] <= work'[p]
          BY <1>1
        <4>2. Below(row, e.tested, work)
          BY <1>3, <2>2 DEF Kept
        <4>3. QED
          BY <1>1, <3>1, <4>1, <4>2, BelowGrows
      <3>3. Below(row', e.fingerprint, e.tested)
        BY <1>1, <1>3, <2>2 DEF Kept, Below
      <3>4. QED
        BY <1>3, <2>2, <3>2, <3>3 DEF Kept
    <2>3. QED
      BY <2>1, <2>2
  <1>8. QED
    BY <1>0, <1>4, <1>5, <1>6, <1>7 DEF WitnessOf, Witness

(* An attempt that is denied, or ends, reads nothing any more.             *)
LEMMA EndedWitness ==
  ASSUME Typed, NEW t \in Tasks, NEW back, NEW x,
         \/ \E v \in {"retry", "closed"} : Deny(t, v)
         \/ gate' = [gate EXCEPT ![t] = NoAttempt]
  PROVE  Witness(gate'[t], back, x)
  <1>1. /\ gate'[t].view = Unread /\ gate'[t].tested = {}
        /\ gate'[t].pc \in {"idle", "failing"}
    <2>1. gate \in [Tasks -> Attempts]
      BY DEF Typed, TypeOK
    <2>2. CASE gate' = [gate EXCEPT ![t] = NoAttempt]
      BY <2>1, <2>2 DEF NoAttempt
    <2>3. CASE \E v \in {"retry", "closed"} : Deny(t, v)
      BY <2>1, <2>3 DEF Deny, NoAttempt
    <2>4. QED
      BY <2>2, <2>3
  <1>2. QED
    BY <1>1, FreshWitness

(* An attempt that goes to another stage keeps all but its last reading.   *)
LEMMA GotoFields ==
  ASSUME Typed, NEW t \in Tasks, NEW label, GateGoto(t, label)
  PROVE  /\ gate'[t].pc = label /\ gate'[t].view = Unread
         /\ gate'[t].before = gate[t].before /\ gate'[t].tested = gate[t].tested
         /\ gate'[t].left = gate[t].left /\ gate'[t].worst = gate[t].worst
  BY DEF Typed, TypeOK, Attempts, GateGoto

(* Reading one more file extends the bracket by what the file holds now.   *)
LEMMA ReadWitness ==
  ASSUME Typed, Locked, Witnessed, NEW t \in Tasks, NEW p \in Paths, ReadPath(t, p)
  PROVE  Witness(gate'[t], restored[t].run, work)
  <1> DEFINE g == gate[t]
             back == restored[t].run
             old == gate[t].view
             longer == [q \in DOMAIN old \cup {p} |->
                          IF q = p THEN work[p] ELSE old[q]]
             h == gate'[t]
  <1>1. /\ g \in Attempts /\ Past(g, back, work) /\ Ordered(g, back) /\ Pinned(g, back, work)
        /\ work \in [Paths -> Contents]
    BY DEF Typed, TypeOK, Witnessed, WitnessOf, Witness, Workspaces
  <1>2. gate' = [gate EXCEPT ![t].view = longer]
    BY DEF ReadPath
  <1>3. /\ DOMAIN longer = DOMAIN old \cup {p}
        /\ longer[p] = work[p]
        /\ \A q \in DOMAIN old : q # p => longer[q] = old[q]
    OBVIOUS
  <1> HIDE DEF longer
  <1>4. /\ h.view = longer /\ h.pc = g.pc /\ h.before = g.before
        /\ h.tested = g.tested /\ h.left = g.left /\ h.worst = g.worst
        /\ g.pc \in {"before", "testing", "after", "final"}
    BY <1>1, <1>2 DEF Typed, TypeOK, Attempts, ReadPath
  <1>5. work[p] \in Nat /\ work[p] <= work[p]
    <2>1. work[p] \in Nat
      BY <1>1 DEF Contents
    <2>2. QED
      BY <2>1
  <1>6. Past(h, back, work)
    <2>1. Below(back, longer, work)
      BY <1>1, <1>3, <1>5 DEF Past, Below
    <2>2. QED
      BY <1>1, <1>4, <2>1 DEF Past
  <1>7. Ordered(h, back)
    <2>1. g.pc = "testing" => \A q \in DOMAIN longer : q \notin back => g.before[q] <= longer[q]
      BY <1>1, <1>3
         DEF Past, Ordered, Below, Full, Fingerprinted
    <2>2. g.pc = "after" => \A v \in g.tested : \A q \in DOMAIN longer : 
                           q \notin back => v[q] <= longer[q]
      BY <1>1, <1>3 DEF Past, Ordered, Below, Full
    <2>3. QED
      BY <1>1, <1>4, <2>1, <2>2 DEF Ordered
  <1>8. Pinned(h, back, work)
    <2>1. g.pc = "final" => \A q \in DOMAIN longer : longer[q] = work[q]
      BY <1>1, <1>3 DEF Pinned
    <2>2. QED
      BY <1>1, <1>4, <2>1 DEF Pinned
  <1>9. QED
    BY <1>6, <1>7, <1>8 DEF Witness

(* The first fingerprint is where the bracket opens.                       *)
LEMMA FingerprintWitness ==
  ASSUME Typed, Witnessed, NEW t \in Tasks, FingerprintBefore(t)
  PROVE  Witness(gate'[t], restored[t].run, work)
  <1> DEFINE g == gate[t]
             back == restored[t].run
             h == gate'[t]
  <1>1. g \in Attempts /\ Past(g, back, work) /\ Ordered(g, back) /\ Counted
    BY DEF Typed, TypeOK, Witnessed, WitnessOf, Witness
  <1>2. /\ g.pc = "before" /\ Full(g.view)
        /\ h.pc = "testing" /\ h.view = Unread /\ h.before = g.view
        /\ h.tested = g.tested /\ h.left = g.left /\ h.worst = g.worst
    BY <1>1 DEF FingerprintBefore, GateAt, Typed, TypeOK, Attempts
  <1>3. g.tested = {} /\ g.left = Operations
    BY <1>1, <1>2 DEF Ordered, Counted
  <1>4. Past(h, back, work)
    BY <1>1, <1>2, <1>3, UnreadIsView DEF Past, Below
  <1>5. Ordered(h, back)
    BY <1>2, <1>3, UnreadIsView DEF Ordered
  <1>6. Pinned(h, back, work)
    BY <1>2, <1>3, WorkspaceGateAssumption DEF Pinned, Settled
  <1>7. QED
    BY <1>4, <1>5, <1>6 DEF Witness

(* An operation that passed has read files no older than the fingerprint.  *)
LEMMA PassWitness ==
  ASSUME Typed, Witnessed, NEW t \in Tasks, OperationPasses(t)
  PROVE  Witness(gate'[t], restored[t].run, work)
         /\ Kept(evidence'[t], restored'[t].row, work)
  <1> DEFINE g == gate[t]
             back == restored[t].run
             h == gate'[t]
  <1>1. /\ g \in Attempts /\ Past(g, back, work) /\ Ordered(g, back) /\ Pinned(g, back, work)
        /\ Kept(evidence[t], restored[t].row, work) /\ Counted
    BY DEF Typed, TypeOK, Witnessed, WitnessOf, Witness
  <1>2. /\ g.pc = "testing" /\ Full(g.view)
        /\ h.pc = NextStage(g.left - 1) /\ h.view = Unread /\ h.before = g.before
        /\ h.tested = g.tested \cup {g.view}
        /\ h.left = g.left - 1 /\ h.worst = g.worst
    BY <1>1 DEF OperationPasses, GateAt, Typed, TypeOK, Attempts
  <1>3. /\ h.pc \in {"testing", "after"}
        /\ h.pc = "after" => h.left = 0
    <2>1. g.left \in Nat /\ g.left > 0
      BY <1>1, <1>2 DEF Counted, Attempts
    <2>2. QED
      BY <1>2, <2>1 DEF NextStage
  <1>4. Below(back, g.before, g.view) /\ Full(g.before)
    BY <1>1, <1>2 DEF Past, Ordered, Below, Full, Fingerprinted
  <1>5. Past(h, back, work)
    BY <1>1, <1>2, <1>4, UnreadIsView DEF Past, Below, Fingerprinted
  <1>6. Ordered(h, back)
    BY <1>1, <1>2, <1>3, <1>4, UnreadIsView DEF Ordered, Fingerprinted
  <1>7. Pinned(h, back, work)
    BY <1>2, <1>3 DEF Pinned, Settled
  <1>8. Kept(evidence'[t], restored'[t].row, work)
    <2>1. CASE evidence' = evidence /\ restored' = restored
      BY <1>1, <2>1
    <2>2. CASE /\ evidence' = [evidence EXCEPT ![t] =
                              [fingerprint |-> g.before, tested |-> g.view]]
               /\ restored' = [restored EXCEPT ![t].row = back]
      <3>1. /\ evidence'[t] = [fingerprint |-> g.before, tested |-> g.view]
            /\ restored'[t].row = back
        BY <2>2 DEF Typed, TypeOK
      <3>2. Below(back, g.view, work)
        BY <1>1 DEF Past
      <3>3. QED
        BY <1>2, <1>4, <3>1, <3>2 DEF Kept
    <2>3. QED
      BY <2>1, <2>2 DEF OperationPasses, RecordedFingerprint
  <1>9. QED
    BY <1>5, <1>6, <1>7, <1>8 DEF Witness

(* An operation that failed leaves the attempt marked.                     *)
LEMMA FailWitness ==
  ASSUME Typed, Witnessed, NEW t \in Tasks, NEW class \in {"retry", "closed"},
         OperationFails(t, class)
  PROVE  Witness(gate'[t], restored[t].run, work)
  <1> DEFINE g == gate[t]
             back == restored[t].run
             h == gate'[t]
  <1>1. /\ g \in Attempts /\ Past(g, back, work) /\ Ordered(g, back) /\ Pinned(g, back, work)
        /\ Counted
    BY DEF Typed, TypeOK, Witnessed, WitnessOf, Witness
  <1>2. /\ g.pc = "testing"
        /\ h.pc = NextStage(g.left - 1) /\ h.view = Unread /\ h.before = g.before
        /\ h.tested = g.tested
        /\ h.left = g.left - 1 /\ h.worst = Worse(g.worst, class)
    BY <1>1 DEF OperationFails, GateAt, Typed, TypeOK, Attempts
  <1>3. /\ h.pc \in {"testing", "after"}
        /\ h.pc = "after" => h.left = 0
    <2>1. g.left \in Nat /\ g.left > 0
      BY <1>1, <1>2 DEF Counted, Attempts
    <2>2. QED
      BY <1>2, <2>1 DEF NextStage
  <1>4. h.worst # "passed"
    BY <1>2 DEF Worse
  <1>5. Past(h, back, work)
    BY <1>1, <1>2, UnreadIsView DEF Past, Below, Fingerprinted
  <1>6. Ordered(h, back)
    BY <1>1, <1>2, <1>3, UnreadIsView DEF Ordered, Fingerprinted
  <1>7. Pinned(h, back, work)
    BY <1>3, <1>4 DEF Pinned, Settled
  <1>8. QED
    BY <1>5, <1>6, <1>7 DEF Witness

(* The second fingerprint closes the bracket: what the operations read is  *)
(* between two equal fingerprints.                                         *)
LEMMA AcceptWitness ==
  ASSUME Typed, Witnessed, NEW t \in Tasks, FingerprintAfter(t)
  PROVE  Witness(gate'[t], restored[t].run, work)
  <1> DEFINE g == gate[t]
             back == restored[t].run
             h == gate'[t]
  <1>1. /\ g \in Attempts /\ Past(g, back, work) /\ Ordered(g, back) /\ Pinned(g, back, work)
    BY DEF Typed, TypeOK, Witnessed, WitnessOf, Witness
  <1>2. g.pc = "after" /\ Full(g.view)
    BY DEF FingerprintAfter, GateAt
  <1>3. CASE g.view # g.before \/ g.worst # "passed"
    <2>1. \E v \in {"retry", "closed"} : Deny(t, v)
      BY <1>1, <1>3 DEF FingerprintAfter, Attempts
    <2>2. QED
      BY <2>1, EndedWitness
  <1>4. CASE g.view = g.before /\ g.worst = "passed"
    <2>1. GateGoto(t, "accepted")
      BY <1>4 DEF FingerprintAfter
    <2>2. /\ h.pc = "accepted" /\ h.view = Unread /\ h.before = g.before
          /\ h.tested = g.tested
      BY <2>1, GotoFields
    <2>3. g.tested # {}
      BY <1>1, <1>2, <1>4, WorkspaceGateAssumption DEF Pinned
    <2>4. ASSUME NEW v \in g.tested
          PROVE  AgreeBut(back, v, g.before)
      <3>1. v \in Views /\ g.before \in Views
        BY <1>1 DEF Attempts
      <3>2. Full(v) /\ Full(g.before)
        BY <1>1, <1>2, <1>4 DEF Past
      <3>3. Below(back, g.before, v) /\ Below(back, v, g.before)
        BY <1>1, <1>2, <1>4, <3>2 DEF Ordered, Below, Full, Fingerprinted
      <3>4. QED
        BY <3>1, <3>2, <3>3, BetweenEqual
    <2>5. /\ h.tested # {}
          /\ \A v \in h.tested : AgreeBut(back, v, h.before)
      BY <2>2, <2>3, <2>4
    <2>6. Past(h, back, work)
      BY <1>1, <1>2, <2>2, UnreadIsView DEF Past, Below, Fingerprinted
    <2>7. Ordered(h, back)
      BY <1>1, <1>2, <2>2 DEF Ordered, Fingerprinted
    <2>8. Pinned(h, back, work)
      BY <2>2, <2>5 DEF Pinned
    <2>9. QED
      BY <2>6, <2>7, <2>8 DEF Witness
  <1>5. QED
    BY <1>3, <1>4

(* An accepted attempt reaches the lock, and under it the workspace stays  *)
(* what the final fingerprint has seen.                                    *)
LEMMA GuardWitness ==
  ASSUME Typed, Witnessed, NEW t \in Tasks, Complete(t)
  PROVE  Witness(gate'[t], restored[t].run, work)
  <1> DEFINE g == gate[t]
             back == restored[t].run
             h == gate'[t]
  <1>1. /\ g \in Attempts /\ Past(g, back, work) /\ Ordered(g, back) /\ Pinned(g, back, work)
        /\ work \in [Paths -> Contents]
    BY DEF Typed, TypeOK, Witnessed, WitnessOf, Witness, Workspaces
  <1>2. ASSUME NEW label \in {"waiting", "final", "persisting", "completing",
                              "recording"},
               GateGoto(t, label),
               g.pc \in Settled,
               label \in {"persisting", "completing"} => g.before = work
        PROVE  Witness(h, restored[t].run, work)
    <2>1. /\ h.pc = label /\ h.view = Unread /\ h.before = g.before
          /\ h.tested = g.tested
      BY <1>2, GotoFields
    <2>2. Past(h, back, work)
      BY <1>1, <1>2, <2>1, UnreadIsView DEF Past, Below, Fingerprinted
    <2>3. Ordered(h, back)
      BY <1>1, <1>2, <2>1 DEF Ordered, Fingerprinted, Settled
    <2>4. Pinned(h, back, work)
      BY <1>1, <1>2, <2>1, UnreadIsView DEF Pinned, Settled
    <2>5. QED
      BY <2>2, <2>3, <2>4 DEF Witness
  <1>3. CASE GuardConnects(t) \/ GuardLocks(t)
    BY <1>2, <1>3 DEF GuardConnects, GuardLocks, GateAt, Settled
  <1>4. CASE GuardConnectTimesOut(t) \/ CompletionRefused(t) \/ StoreTimesOut(t)
             \/ RecordDecision(t)
    BY <1>4, EndedWitness
       DEF GuardConnectTimesOut, CompletionRefused, StoreTimesOut, RecordDecision
  <1>5. CASE CompleteTaskRun(t) \/ CompleteTaskIfRunning(t)
    <2>1. g.pc \in {"persisting", "completing"}
      BY <1>5 DEF CompleteTaskRun, CompleteTaskIfRunning, GateAt
    <2>2. g.before = work /\ g.pc \in Settled
      BY <1>1, <2>1 DEF Pinned, Settled
    <2>3. GateGoto(t, "completing") \/ GateGoto(t, "recording")
      BY <1>5 DEF CompleteTaskRun, CompleteTaskIfRunning
    <2>4. QED
      BY <1>2, <2>2, <2>3
  <1>6. CASE FinalFingerprint(t)
    <2>1. g.pc = "final" /\ Full(g.view)
      BY <1>6 DEF FinalFingerprint, GateAt
    <2>2. CASE Deny(t, "retry")
      BY <2>2, EndedWitness
    <2>3. CASE Stable(t) /\ GateGoto(t, "persisting")
      <3>1. \A p \in Paths : g.view[p] = work[p]
        BY <1>1, <2>1 DEF Pinned, Full
      <3>2. g.view \in [Paths -> Contents]
        BY <1>1, <2>1, FullView DEF Attempts, Workspaces
      <3>3. g.view = work
        BY <1>1, <3>1, <3>2
      <3>4. g.before = work
        BY <2>3, <3>3 DEF Stable
      <3>5. QED
        BY <1>2, <2>1, <2>3, <3>4 DEF Settled
    <2>4. QED
      BY <1>6, <2>2, <2>3 DEF FinalFingerprint
  <1>7. QED
    BY <1>3, <1>4, <1>5, <1>6 DEF Complete

(* Every step of a task keeps its own witnesses.                           *)
LEMMA OwnWitness ==
  ASSUME Typed, Locked, Witnessed, NEW t \in Tasks,
         Evaluate(t) \/ Complete(t) \/ Around(t)
  PROVE  WitnessOf(t)'
  <1> DEFINE run == restored[t].run
             row == restored[t].row
  <1>1. /\ Witness(gate[t], run, work) /\ Kept(evidence[t], row, work)
        /\ gate[t] \in Attempts
        /\ restored \in [Tasks -> [run : SUBSET Paths, row : SUBSET Paths]]
    BY DEF Witnessed, WitnessOf, Typed, TypeOK
  <1>2. work' = work
    BY TaskStep
  <1>3. ASSUME evidence' = evidence, restored' = restored, Witness(gate'[t], run, work)
        PROVE  WitnessOf(t)'
    BY <1>1, <1>2, <1>3 DEF WitnessOf
  <1>4. CASE BoundaryPasses(t) \/ StartAttempt(t)
    <2>1. /\ GateGoto(t, "before") \/ GateGoto(t, "boundary")
          /\ gate[t].pc \in {"idle", "boundary"}
          /\ evidence' = evidence
          /\ restored' = restored \/ restored' = [restored EXCEPT ![t].run = {}]
      BY <1>4 DEF BoundaryPasses, StartAttempt, GateAt
    <2>2. gate[t].tested = {}
      BY <1>1, <2>1 DEF Witness, Ordered
    <2>3. /\ gate'[t].pc \in {"before", "boundary"}
          /\ gate'[t].view = Unread /\ gate'[t].tested = {}
      BY <2>1, <2>2, GotoFields
    <2>4. Witness(gate'[t], restored'[t].run, work)
      BY <2>3, FreshWitness
    <2>5. restored'[t].row = row
      BY <1>1, <2>1
    <2>6. QED
      BY <1>1, <1>2, <2>1, <2>4, <2>5 DEF WitnessOf
  <1>5. CASE EvaluateBlocks(t) \/ WorkspaceUnavailable(t)
    <2>1. Witness(gate'[t], run, work)
      BY <1>5, EndedWitness DEF EvaluateBlocks, WorkspaceUnavailable
    <2>2. QED
      BY <1>3, <1>5, <2>1 DEF EvaluateBlocks, WorkspaceUnavailable
  <1>6. CASE \E p \in Paths : ReadPath(t, p)
    BY <1>3, <1>6, ReadWitness DEF ReadPath
  <1>7. CASE FingerprintBefore(t)
    BY <1>3, <1>7, FingerprintWitness DEF FingerprintBefore
  <1>8. CASE OperationPasses(t)
    <2>1. Witness(gate'[t], run, work) /\ Kept(evidence'[t], restored'[t].row, work)
      BY <1>8, PassWitness
    <2>2. restored'[t].run = run
      BY <1>1, <1>8 DEF OperationPasses
    <2>3. QED
      BY <1>2, <2>1, <2>2 DEF WitnessOf
  <1>9. CASE OperationFails(t, "retry") \/ OperationFails(t, "closed")
    BY <1>3, <1>9, FailWitness DEF OperationFails
  <1>10. CASE FingerprintAfter(t)
    BY <1>3, <1>10, AcceptWitness DEF FingerprintAfter
  <1>11. CASE Complete(t)
    <2>1. evidence' = evidence /\ restored' = restored
      BY <1>11
         DEF Complete, GuardConnects, GuardConnectTimesOut, GuardLocks,
             FinalFingerprint, CompleteTaskRun, CompleteTaskIfRunning,
             CompletionRefused, RecordDecision, StoreTimesOut
    <2>2. QED
      BY <1>3, <1>11, <2>1, GuardWitness
  <1>12. CASE EndAttempt(t, "queued") \/ EndAttempt(t, "failed") \/ Crash(t)
    <2>1. Witness(gate'[t], run, work)
      BY <1>12, EndedWitness DEF EndAttempt, Crash
    <2>2. QED
      BY <1>3, <1>12, <2>1 DEF EndAttempt, Crash
  <1>13. CASE EndTask(t)
    BY <1>1, <1>3, <1>13 DEF EndTask
  <1>14. QED
    BY <1>4, <1>5, <1>6, <1>7, <1>8, <1>9, <1>10, <1>11, <1>12, <1>13
       DEF Evaluate, Around

LEMMA WitnessedStep ==
  ASSUME Typed, Locked, Witnessed, [Next]_vars
  PROVE  Witnessed'
  <1>1. CASE UNCHANGED vars
    BY <1>1 DEF vars, Witnessed, WitnessOf
  <1>2. CASE \E w \in Writers : Call(w) \/ Write(w)
    BY <1>2, WitnessedByWriter
  <1>3. CASE \E t \in Tasks : Evaluate(t) \/ Complete(t) \/ Around(t)
    <2>1. PICK t \in Tasks : Evaluate(t) \/ Complete(t) \/ Around(t)
      BY <1>3
    <2>2. /\ \A u \in Tasks \ {t} : /\ gate'[u] = gate[u] /\ evidence'[u] = evidence[u]
                                    /\ restored'[u] = restored[u]
          /\ work' = work
      BY <2>1, TaskStep
    <2>3. WitnessOf(t)'
      BY <2>1, OwnWitness
    <2>4. ASSUME NEW u \in Tasks, u # t
          PROVE  WitnessOf(u)'
      BY <2>2, <2>4 DEF Witnessed, WitnessOf
    <2>5. QED
      BY <2>3, <2>4 DEF Witnessed
  <1>4. QED
    BY <1>1, <1>2, <1>3, NextCases

(* What the witnesses give.                                                *)
LEMMA WitnessedEvidence ==
  ASSUME Typed, Witnessed
  PROVE  EvidenceIsTested
  <1> SUFFICES ASSUME NEW t \in Tasks, evidence[t] # None,
                      evidence[t].fingerprint = work
               PROVE  AgreeBut(restored[t].row, evidence[t].tested, work)
    BY DEF EvidenceIsTested
  <1> DEFINE row == restored[t].row
  <1>1. evidence[t] \in Rows /\ work \in Workspaces
    BY DEF Typed, TypeOK
  <1>2. evidence[t].tested \in Views /\ work \in Views /\ Full(work)
    BY <1>1, FullView DEF Rows
  <1>3. /\ Full(evidence[t].tested)
        /\ Below(row, work, evidence[t].tested) /\ Below(row, evidence[t].tested, work)
    BY DEF Witnessed, WitnessOf, Kept
  <1>4. QED
    BY <1>2, <1>3, BetweenEqual

(* What holds when an attempt completes its task.                          *)
TestedNow(t) ==
  /\ gate[t].before = work
  /\ gate[t].tested # {}
  /\ \A view \in gate[t].tested : AgreeBut(restored[t].run, view, work)

LEMMA CompletionStep ==
  ASSUME Typed, Locked, Witnessed, [Next]_vars
  PROVE  \A t \in Tasks : status[t] # "completed" /\ status'[t] = "completed"
                          => TestedNow(t)
  <1> SUFFICES ASSUME NEW t \in Tasks, status[t] # "completed",
                      status'[t] = "completed"
               PROVE  TestedNow(t)
    OBVIOUS
  <1>0. status \in [Tasks -> {"queued", "running", "completed", "failed"}]
    BY DEF Typed, TypeOK
  <1>1. Next
    BY DEF vars
  <1>2. ~ \E w \in Writers : Call(w) \/ Write(w)
    BY WriterStep
  <1>3. PICK u \in Tasks : Evaluate(u) \/ Complete(u) \/ Around(u)
    BY <1>1, <1>2, NextCases
  <1>4. CompleteTaskIfRunning(u)
    <2>1. CASE Evaluate(u)
      BY <2>1
         DEF Evaluate, BoundaryPasses, EvaluateBlocks, WorkspaceUnavailable,
             ReadPath, FingerprintBefore, OperationPasses, OperationFails,
             FingerprintAfter
    <2>2. CASE Complete(u)
      BY <2>2
         DEF Complete, GuardConnects, GuardConnectTimesOut, GuardLocks,
             FinalFingerprint, CompleteTaskRun,
             CompletionRefused, RecordDecision, StoreTimesOut
    <2>3. CASE Around(u)
      BY <1>0, <2>3 DEF Around, StartAttempt, EndAttempt, Crash, EndTask
    <2>4. QED
      BY <1>3, <2>1, <2>2, <2>3
  <1>5. u = t /\ gate[t].pc = "completing"
    BY <1>0, <1>4 DEF CompleteTaskIfRunning, GateAt
  <1>6. QED
    BY <1>5 DEF Witnessed, WitnessOf, Witness, Pinned, Settled, TestedNow

(* In every behaviour, evidence whose fingerprint is the workspace's was   *)
(* earned on it, in every file that has not got an earlier content back    *)
(* since the fingerprint: nothing but a restored content escapes it.       *)
THEOREM EvidenceCorrect == Spec => []EvidenceIsTested
  <1>1. Init => Typed /\ Locked /\ Witnessed
    BY TypedInit, LockedInit, WitnessedInit
  <1>2. Typed /\ Locked /\ Witnessed /\ [Next]_vars => (Typed /\ Locked /\ Witnessed)'
    BY TypedStep, LockedStep, WitnessedStep
  <1>3. Typed /\ Locked /\ Witnessed => EvidenceIsTested
    BY WitnessedEvidence
  <1>4. QED
    BY <1>1, <1>2, <1>3, PTL DEF Spec

(* In every behaviour, a task is completed only on the workspace its gate  *)
(* fingerprinted first, and every operation that passed has read the files *)
(* of that workspace, but for those that got an earlier content back.      *)
THEOREM CompletionCorrect == Spec => CompletedAsTested
  <1>1. Init => Typed /\ Locked /\ Witnessed
    BY TypedInit, LockedInit, WitnessedInit
  <1>2. Typed /\ Locked /\ Witnessed /\ [Next]_vars => (Typed /\ Locked /\ Witnessed)'
    BY TypedStep, LockedStep, WitnessedStep
  <1>3. Typed /\ Locked /\ Witnessed /\ [Next]_vars
          => [\A t \in Tasks :
               status[t] # "completed" /\ status'[t] = "completed"
                 => /\ gate[t].before = work
                    /\ gate[t].tested # {}
                    /\ \A view \in gate[t].tested :
                         AgreeBut(restored[t].run, view, work)]_vars
    BY CompletionStep DEF TestedNow
  <1>4. QED
    BY <1>1, <1>2, <1>3, PTL DEF Spec, CompletedAsTested
=============================================================================
