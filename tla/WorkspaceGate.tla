---------------------------- MODULE WorkspaceGate ----------------------------
(***************************************************************************)
(* Gates 45 and 46: a task that requires verification is completed only    *)
(* when its operations passed, and only if the workspace is still the one  *)
(* they passed on.  The acceptance gate hashes the workspace, runs the     *)
(* operations and hashes it again, all without a lock; the completion      *)
(* guard then takes the workspace's advisory lock, hashes once more and    *)
(* writes the completion before it releases the lock.  The tools that      *)
(* write files, create_file and apply_patch, take the same lock.           *)
(*                                                                         *)
(* A lock costs its holder, and everybody who waits for it, a connection   *)
(* of the process's pool, and the guarded completion needs one more for    *)
(* every store call it makes.                                              *)
(*                                                                         *)
(* Reading a workspace, to hash it or to test it, is not atomic: each file *)
(* is read at a moment of its own.  A content is a number, and those of a  *)
(* file are numbered in the order in which it first has them: a write that *)
(* lowers the number puts an earlier content back, which no comparison of  *)
(* hashes can tell from no write at all.  The history restored keeps the   *)
(* files this has happened to.                                             *)
(*                                                                         *)
(* Abstracted: what an operation checks (a passed one has read every       *)
(* file), bounds, links, protected and transient paths of the hash, and    *)
(* the failure path of the attempt, which TaskExecution models in full.    *)
(* The advisory lock is assumed to last as long as its holder.             *)
(***************************************************************************)
EXTENDS Naturals, FiniteSets

CONSTANTS
  Tasks,        \* tasks that require verification, in one workspace
  Writers,      \* calls of create_file and apply_patch
  Paths,        \* the files of the workspace
  Existing,     \* those that exist at the start
  MaxContent,   \* bound on the contents of a file
  Operations,   \* how many operations a task requires
  PoolSize,     \* connections of the pool
  MaxCalls,     \* bound: calls of the writers
  None

ASSUME WorkspaceGateAssumption ==
  /\ IsFiniteSet(Tasks) /\ IsFiniteSet(Writers)
  /\ Tasks \cap Writers = {}
  /\ None \notin Tasks \cup Writers
  /\ Existing \subseteq Paths
  /\ MaxContent \in Nat /\ MaxContent >= 2
  /\ Operations \in Nat \ {0}
  /\ PoolSize \in Nat \ {0}
  /\ MaxCalls \in Nat

VARIABLES
  status,    \* tasks.status
  work,      \* the files of the workspace
  lock,      \* the holder of the workspace's advisory lock
  evidence,  \* per task, its latest task_verifications row that passed
  gate,      \* the local state of each task's attempt
  writer,    \* the local state of each call that writes
  restored,  \* history: the files that got an earlier content back, per
             \* task, since its attempt, and since the attempt that its row
             \* comes from, took the first fingerprint
  calls      \* calls of the writers so far

vars == <<status, work, lock, evidence, gate, writer, restored, calls>>

(* A file that does not exist, one that was created and not yet filled,    *)
(* and the complete contents.                                              *)
Absent == 0
Partial == 1
Texts == 2..MaxContent
Contents == 0..MaxContent

Workspaces == [Paths -> Contents]
Views == UNION {[P -> Contents] : P \in SUBSET Paths}
Unread == [p \in {} |-> Absent]
Full(view) == DOMAIN view = Paths

GatePCs == {"idle", "boundary", "before", "testing", "after", "accepted",
            "waiting", "final", "persisting", "completing", "recording",
            "failing"}
WriterPCs == {"idle", "calling", "waiting", "checking", "writing",
              "filling", "attributing"}

(* view: what the current reading of the workspace has seen; before: the   *)
(* fingerprint the gate took first; left and worst: the operations to run  *)
(* and the worst class so far; tested, a history: what the passed          *)
(* operations read; verdict: how the failure path will end the attempt.    *)
Attempts == [pc : GatePCs, view : Views, before : Views,
             left : 0..Operations, worst : {"passed", "retry", "closed"},
             tested : SUBSET Views, verdict : {"none", "retry", "closed"}]
NoAttempt == [pc |-> "idle", view |-> Unread, before |-> Unread,
              left |-> Operations, worst |-> "passed", tested |-> {},
              verdict |-> "none"]

(* base: the content whose hash the caller expects, Absent for create_file.*)
WriterCalls == [pc : WriterPCs, path : Paths \cup {None}, base : Contents]
NoCall == [pc |-> "idle", path |-> None, base |-> Absent]

(* tested is a history: what the operation of the row had read.            *)
Rows == [fingerprint : Views, tested : Views]

TypeOK ==
  /\ status \in [Tasks -> {"queued", "running", "completed", "failed"}]
  /\ work \in Workspaces
  /\ lock \in Tasks \cup Writers \cup {None}
  /\ evidence \in [Tasks -> Rows \cup {None}]
  /\ gate \in [Tasks -> Attempts]
  /\ writer \in [Writers -> WriterCalls]
  /\ restored \in [Tasks -> [run : SUBSET Paths, row : SUBSET Paths]]
  /\ calls \in 0..MaxCalls

Init ==
  /\ status = [t \in Tasks |-> "queued"]
  /\ work = [p \in Paths |-> IF p \in Existing THEN 2 ELSE Absent]
  /\ lock = None
  /\ evidence = [t \in Tasks |-> None]
  /\ gate = [t \in Tasks |-> NoAttempt]
  /\ writer = [w \in Writers |-> NoCall]
  /\ restored = [t \in Tasks |-> [run |-> {}, row |-> {}]]
  /\ calls = 0

(***************************************************************************)
(* withRepoLock: connect, wait for the advisory lock, run, unlock.         *)
(***************************************************************************)

Holding == {t \in Tasks : gate[t].pc \in {"waiting", "final", "persisting",
                                          "completing", "recording"}}
             \cup {w \in Writers : writer[w].pc \notin {"idle", "calling"}}

FreeConnection == Cardinality(Holding) < PoolSize

(* Mutant: a shared advisory lock.                                         *)
UnlockedOrShared == TRUE
Unlocked == lock = None

Unlock(c) == lock' = IF lock = c THEN None ELSE lock

(***************************************************************************)
(* create_file and apply_patch.                                            *)
(***************************************************************************)

WriterAt(w, label) == writer[w].pc = label
WriterGoto(w, label) == writer' = [writer EXCEPT ![w].pc = label]
WriterReturns(w) == writer' = [writer EXCEPT ![w] = NoCall]

(* The agent reads a file and writes a patch against what it has read, or  *)
(* decides to create a file.                                               *)
ReadFile(w, p) ==
  /\ WriterAt(w, "idle") /\ calls < MaxCalls
  /\ work[p] # Absent
  /\ writer' = [writer EXCEPT ![w] = [pc |-> "calling", path |-> p,
                                      base |-> work[p]]]
  /\ calls' = calls + 1
  /\ UNCHANGED <<status, work, lock, evidence, gate, restored>>

CallCreate(w, p) ==
  /\ WriterAt(w, "idle") /\ calls < MaxCalls
  /\ writer' = [writer EXCEPT ![w] = [pc |-> "calling", path |-> p,
                                      base |-> Absent]]
  /\ calls' = calls + 1
  /\ UNCHANGED <<status, work, lock, evidence, gate, restored>>

WriterConnects(w) ==
  /\ WriterAt(w, "calling")
  /\ FreeConnection
  /\ WriterGoto(w, "waiting")
  /\ UNCHANGED <<status, work, lock, evidence, gate, restored, calls>>

WriterConnectTimesOut(w) ==
  /\ WriterAt(w, "calling")
  /\ ~FreeConnection
  /\ WriterReturns(w)
  /\ UNCHANGED <<status, work, lock, evidence, gate, restored, calls>>

WriterLocks(w) ==
  /\ WriterAt(w, "waiting")
  /\ Unlocked
  /\ lock' = w
  /\ WriterGoto(w, "checking")
  /\ UNCHANGED <<status, work, evidence, gate, restored, calls>>

(* The hash precondition of apply_patch, the absence precondition of       *)
(* create_file; a path or a content that is refused ends the call too.     *)
CheckPasses(w) ==
  /\ WriterAt(w, "checking")
  /\ work[writer[w].path] = writer[w].base
  /\ WriterGoto(w, "writing")
  /\ UNCHANGED <<status, work, lock, evidence, gate, restored, calls>>

CheckRefuses(w) ==
  /\ WriterAt(w, "checking")
  /\ Unlock(w)
  /\ WriterReturns(w)
  /\ UNCHANGED <<status, work, evidence, gate, restored, calls>>

PutBack(p) ==
  restored' = [t \in Tasks |-> [run |-> restored[t].run \cup {p},
                               row |-> restored[t].row \cup {p}]]

(* atomicReplace: the new content appears with the rename.                 *)
AtomicReplace(w, text) ==
  LET p == writer[w].path
  IN  /\ WriterAt(w, "writing")
      /\ writer[w].base # Absent
      /\ work' = [work EXCEPT ![p] = text]
      /\ IF text < work[p] THEN PutBack(p) ELSE UNCHANGED restored
      /\ WriterGoto(w, "attributing")
      /\ UNCHANGED <<status, lock, evidence, gate, calls>>

(* exclusiveCreate: the file exists before its content is written.         *)
ExclusiveCreate(w) ==
  LET p == writer[w].path
  IN  /\ WriterAt(w, "writing")
      /\ writer[w].base = Absent
      /\ IF work[p] = Absent
           THEN /\ work' = [work EXCEPT ![p] = Partial]
                /\ writer' = [writer EXCEPT ![w].pc = "filling",
                                            ![w].base = Partial]
                /\ UNCHANGED lock
           ELSE WriterReturns(w) /\ Unlock(w) /\ UNCHANGED work
      /\ UNCHANGED <<status, evidence, gate, restored, calls>>

FillFile(w, text) ==
  /\ WriterAt(w, "filling")
  /\ work' = [work EXCEPT ![writer[w].path] = text]
  /\ WriterGoto(w, "attributing")
  /\ UNCHANGED <<status, lock, evidence, gate, restored, calls>>

(* The audit row is written on the lock's own connection; whether it       *)
(* succeeds or not, the call returns and the lock is released.             *)
Attribute(w) ==
  /\ WriterAt(w, "attributing")
  /\ Unlock(w)
  /\ WriterReturns(w)
  /\ UNCHANGED <<status, work, evidence, gate, restored, calls>>

(* The process dies, or a file operation fails.                            *)
WriterFails(w) ==
  /\ ~WriterAt(w, "idle")
  /\ Unlock(w)
  /\ WriterReturns(w)
  /\ UNCHANGED <<status, work, evidence, gate, restored, calls>>

(***************************************************************************)
(* The acceptance gate: evaluate.                                          *)
(***************************************************************************)

GateAt(t, label) == gate[t].pc = label
GateGoto(t, label) ==
  gate' = [gate EXCEPT ![t].pc = label, ![t].view = Unread]
Deny(t, verdict) ==
  gate' = [gate EXCEPT ![t] = [NoAttempt EXCEPT !.pc = "failing",
                                                !.verdict = verdict]]

(* The task is claimed and the model has declared success.                 *)
StartAttempt(t) ==
  /\ GateAt(t, "idle")
  /\ status[t] = "queued"
  /\ status' = [status EXCEPT ![t] = "running"]
  /\ GateGoto(t, "boundary")
  /\ UNCHANGED <<work, lock, evidence, writer, restored, calls>>

(* The task is still running, no stop, lockdown, cancelled mission or      *)
(* exhausted budget, and the workspace resolves.                           *)
BoundaryPasses(t) ==
  /\ GateAt(t, "boundary")
  /\ status[t] = "running"
  /\ GateGoto(t, "before")
  /\ restored' = [restored EXCEPT ![t].run = {}]
  /\ UNCHANGED <<status, work, lock, evidence, writer, calls>>

(* One of them fails, or the first fingerprint does: blocked.              *)
EvaluateBlocks(t) ==
  /\ gate[t].pc \in {"boundary", "before"}
  /\ Deny(t, "closed")
  /\ UNCHANGED <<status, work, lock, evidence, writer, restored, calls>>

(* A fingerprint, or an operation, reads one more file.                    *)
ReadPath(t, p) ==
  LET view == gate[t].view
  IN  /\ gate[t].pc \in {"before", "testing", "after", "final"}
      /\ p \notin DOMAIN view
      /\ gate' = [gate EXCEPT ![t].view =
                    [q \in DOMAIN view \cup {p} |->
                       IF q = p THEN work[p] ELSE view[q]]]
      /\ UNCHANGED <<status, work, lock, evidence, writer, restored, calls>>

FingerprintBefore(t) ==
  /\ GateAt(t, "before")
  /\ Full(gate[t].view)
  /\ gate' = [gate EXCEPT ![t].pc = "testing", ![t].view = Unread,
                          ![t].before = gate[t].view]
  /\ UNCHANGED <<status, work, lock, evidence, writer, restored, calls>>

NextStage(left) == IF left > 0 THEN "testing" ELSE "after"

(* Mutant: the row carries the workspace as it is when the row is written. *)
RecordedFingerprintNow(t) == work

(* The row carries the fingerprint taken before the first operation.       *)
RecordedFingerprint(t) == gate[t].before

(* recordTaskVerification is best-effort: the row may be missing.          *)
OperationPasses(t) ==
  LET view == gate[t].view
  IN  /\ GateAt(t, "testing")
      /\ Full(view)
      /\ gate' = [gate EXCEPT ![t].pc = NextStage(gate[t].left - 1),
                              ![t].left = @ - 1,
                              ![t].view = Unread,
                              ![t].tested = @ \cup {view}]
      /\ \/ evidence' = [evidence EXCEPT ![t] =
                           [fingerprint |-> RecordedFingerprint(t),
                            tested |-> view]]
            /\ restored' = [restored EXCEPT ![t].row = restored[t].run]
         \/ UNCHANGED <<evidence, restored>>
      /\ UNCHANGED <<status, work, lock, writer, calls>>

Worse(a, b) ==
  CASE "closed" \in {a, b} -> "closed"
    [] "retry" \in {a, b} /\ "closed" \notin {a, b} -> "retry"
    [] OTHER -> "passed"

(* The remaining operations are run all the same.                          *)
OperationFails(t, class) ==
  /\ GateAt(t, "testing")
  /\ gate' = [gate EXCEPT ![t].pc = NextStage(gate[t].left - 1),
                          ![t].left = @ - 1,
                          ![t].view = Unread,
                          ![t].worst = Worse(@, class)]
  /\ UNCHANGED <<status, work, lock, evidence, writer, restored, calls>>

(* A changed workspace dominates every outcome of the operations.          *)
FingerprintAfter(t) ==
  /\ GateAt(t, "after")
  /\ Full(gate[t].view)
  /\ CASE gate[t].view # gate[t].before -> Deny(t, "retry")
       [] gate[t].view = gate[t].before /\ gate[t].worst # "passed" ->
            Deny(t, gate[t].worst)
       [] OTHER -> GateGoto(t, "accepted")
  /\ UNCHANGED <<status, work, lock, evidence, writer, restored, calls>>

(* A second fingerprint that cannot be taken, or a root that no longer     *)
(* resolves, counts as a changed workspace.                                *)
WorkspaceUnavailable(t) ==
  /\ gate[t].pc \in {"after", "accepted", "final"}
  /\ Deny(t, "retry")
  /\ Unlock(t)
  /\ UNCHANGED <<status, work, evidence, writer, restored, calls>>

(***************************************************************************)
(* The completion guard: withStableWorkspace and persistCompletion.        *)
(***************************************************************************)

GuardConnects(t) ==
  /\ GateAt(t, "accepted")
  /\ FreeConnection
  /\ GateGoto(t, "waiting")
  /\ UNCHANGED <<status, work, lock, evidence, writer, restored, calls>>

GuardConnectTimesOut(t) ==
  /\ GateAt(t, "accepted")
  /\ ~FreeConnection
  /\ Deny(t, "closed")
  /\ UNCHANGED <<status, work, lock, evidence, writer, restored, calls>>

GuardLocks(t) ==
  /\ GateAt(t, "waiting")
  /\ Unlocked
  /\ lock' = t
  /\ GateGoto(t, "final")
  /\ UNCHANGED <<status, work, evidence, writer, restored, calls>>

(* Mutant: the completion relies on the gate's own comparison.             *)
StableUnchecked(t) == TRUE
Stable(t) == gate[t].view = gate[t].before

FinalFingerprint(t) ==
  /\ GateAt(t, "final")
  /\ Full(gate[t].view)
  /\ IF Stable(t)
       THEN GateGoto(t, "persisting") /\ UNCHANGED lock
       ELSE Deny(t, "retry") /\ Unlock(t)
  /\ UNCHANGED <<status, work, evidence, writer, restored, calls>>

CompleteTaskRun(t) ==
  /\ GateAt(t, "persisting")
  /\ FreeConnection
  /\ GateGoto(t, "completing")
  /\ UNCHANGED <<status, work, lock, evidence, writer, restored, calls>>

CompleteTaskIfRunning(t) ==
  /\ GateAt(t, "completing")
  /\ FreeConnection
  /\ status[t] = "running"
  /\ status' = [status EXCEPT ![t] = "completed"]
  /\ GateGoto(t, "recording")
  /\ UNCHANGED <<work, lock, evidence, writer, restored, calls>>

CompletionRefused(t) ==
  /\ GateAt(t, "completing")
  /\ FreeConnection
  /\ status[t] # "running"
  /\ Deny(t, "closed")
  /\ Unlock(t)
  /\ UNCHANGED <<status, work, evidence, writer, restored, calls>>

RecordDecision(t) ==
  /\ GateAt(t, "recording")
  /\ FreeConnection
  /\ gate' = [gate EXCEPT ![t] = NoAttempt]
  /\ Unlock(t)
  /\ UNCHANGED <<status, work, evidence, writer, restored, calls>>

(* Mutant: the pool waits for a connection without a limit.                *)
StoreWaitsForEver(t) == FALSE /\ UNCHANGED vars

(* connectionTimeoutMillis: no connection comes free within 30 seconds, the*)
(* store call throws, and the attempt fails closed.                        *)
StoreTimesOut(t) ==
  /\ gate[t].pc \in {"persisting", "completing", "recording"}
  /\ ~FreeConnection
  /\ Deny(t, "closed")
  /\ Unlock(t)
  /\ UNCHANGED <<status, work, evidence, writer, restored, calls>>

(***************************************************************************)
(* The end of an attempt that was not accepted, and the environment.       *)
(***************************************************************************)

(* The failure path of the executor in one step: a task that has ended is  *)
(* left alone, a repairable failure may put it back in the queue.          *)
EndAttempt(t, next) ==
  /\ GateAt(t, "failing")
  /\ next = "queued" => gate[t].verdict = "retry"
  /\ status' = IF status[t] = "running"
                 THEN [status EXCEPT ![t] = next] ELSE status
  /\ gate' = [gate EXCEPT ![t] = NoAttempt]
  /\ UNCHANGED <<work, lock, evidence, writer, restored, calls>>

Crash(t) ==
  /\ ~GateAt(t, "idle")
  /\ gate' = [gate EXCEPT ![t] = NoAttempt]
  /\ Unlock(t)
  /\ UNCHANGED <<status, work, evidence, writer, restored, calls>>

(* The recovery sweep or the owner ends a running task.                    *)
EndTask(t) ==
  /\ status[t] = "running"
  /\ status' = [status EXCEPT ![t] = "failed"]
  /\ UNCHANGED <<work, lock, evidence, gate, writer, restored, calls>>

Call(w) ==
  \/ \E p \in Paths : ReadFile(w, p) \/ CallCreate(w, p)
  \/ WriterConnects(w)
  \/ WriterConnectTimesOut(w)

Write(w) ==
  \/ WriterLocks(w)
  \/ CheckPasses(w)
  \/ CheckRefuses(w)
  \/ ExclusiveCreate(w)
  \/ \E text \in Texts : AtomicReplace(w, text) \/ FillFile(w, text)
  \/ Attribute(w)
  \/ WriterFails(w)

Evaluate(t) ==
  \/ BoundaryPasses(t)
  \/ EvaluateBlocks(t)
  \/ \E p \in Paths : ReadPath(t, p)
  \/ FingerprintBefore(t)
  \/ OperationPasses(t)
  \/ OperationFails(t, "retry")
  \/ OperationFails(t, "closed")
  \/ FingerprintAfter(t)
  \/ WorkspaceUnavailable(t)

Complete(t) ==
  \/ GuardConnects(t)
  \/ GuardConnectTimesOut(t)
  \/ GuardLocks(t)
  \/ FinalFingerprint(t)
  \/ CompleteTaskRun(t)
  \/ CompleteTaskIfRunning(t)
  \/ CompletionRefused(t)
  \/ RecordDecision(t)
  \/ StoreTimesOut(t)

Next ==
  \/ \E w \in Writers : Call(w) \/ Write(w)
  \/ \E t \in Tasks :
       \/ StartAttempt(t)
       \/ Evaluate(t)
       \/ Complete(t)
       \/ EndAttempt(t, "queued")
       \/ EndAttempt(t, "failed")
       \/ Crash(t)
       \/ EndTask(t)

Spec == Init /\ [][Next]_vars

(***************************************************************************)
(* Properties.                                                             *)
(***************************************************************************)

(* Two workspaces are the same but for some files.                         *)
AgreeBut(files, one, other) == \A p \in Paths \ files : one[p] = other[p]

(* A task is completed only on the workspace its gate fingerprinted first, *)
(* and that is, file by file, the one that each of its operations read     *)
(* when it passed, whatever tools wrote while the gate hashed and tested   *)
(* without a lock; the only files this may fail for are those that got an  *)
(* earlier content back meanwhile.                                         *)
CompletedAsTested ==
  [][\A t \in Tasks :
       status[t] # "completed" /\ status'[t] = "completed"
         => /\ gate[t].before = work
            /\ gate[t].tested # {}
            /\ \A view \in gate[t].tested :
                 AgreeBut(restored[t].run, view, work)]_vars

(* A tool changes a file only from the content its caller expected: no     *)
(* other call's write is overwritten unseen, although the hash is compared *)
(* in one step and the file replaced in another.                           *)
NoLostUpdate ==
  [][\A p \in Paths : work'[p] # work[p] =>
       \E w \in Writers : /\ writer[w].pc \in {"writing", "filling"}
                          /\ writer[w].path = p
                          /\ writer[w].base = work[p]]_vars

(* Evidence that git_prepare_commit would accept, because its fingerprint  *)
(* is the workspace's, comes from an operation that ran on this workspace, *)
(* although the row carries a fingerprint taken before the operation and   *)
(* is kept when the gate finds that the workspace has changed; files that  *)
(* got an earlier content back since that fingerprint are excepted.        *)
EvidenceIsTested ==
  \A t \in Tasks :
    evidence[t] # None /\ evidence[t].fingerprint = work
      => AgreeBut(restored[t].row, evidence[t].tested, work)

(* Whoever holds the workspace lock can take its next step, although that  *)
(* step may need a connection while those who wait for the lock have taken *)
(* all the others: the pool and the lock never wait for each other.        *)
HolderProceeds ==
  /\ \A w \in Writers : lock = w => ENABLED Write(w)
  /\ \A t \in Tasks : lock = t => ENABLED (Evaluate(t) \/ Complete(t))
=============================================================================
