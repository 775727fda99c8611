-------------------------- MODULE PreparedDelivery --------------------------
(***************************************************************************)
(* Gate 47, the way of a change from a workspace into a Git commit:        *)
(* git_prepare_commit freezes the change as a prepared delivery and asks   *)
(* for an approval, the owner decides, git_commit revalidates the delivery *)
(* and commits it, or finishes a commit that a dead process left behind.   *)
(*                                                                         *)
(* Two resources without a common transaction are involved: the rows       *)
(* prepared_deliveries and approvals, and the repository (HEAD, the        *)
(* worktree, the index).  Both tools hold the advisory lock of the         *)
(* repository from their first look at it to their return, as do the tools *)
(* that write files; the decision endpoint takes no lock, and a process    *)
(* that dies loses the lock with its connection.                           *)
(*                                                                         *)
(* A tree maps each path to its content.  SHA-256 fingerprints and Git     *)
(* tree ids are the trees they identify.  The commits form one line, HEAD  *)
(* is the last entry of log.  One project, agent and owner; rejected and   *)
(* denied are one answer; an approval of a delivery never expires, because *)
(* git_prepare_commit gives it no expiry.  Nobody moves HEAD or the files  *)
(* behind the lock: neither a person nor a git child of a dead process.    *)
(***************************************************************************)
EXTENDS Naturals, Sequences, FiniteSets

CONSTANTS
  Deliveries,      \* ids of prepared_deliveries rows; an approval has its id
  Tasks,
  Callers,         \* concurrent tool calls, over all processes
  Deciders,        \* concurrent decision requests of the owner
  Paths,           \* files, numbered in the order of their names
  Contents,
  Writable,        \* the contents that are written to each file
  Root,            \* the tree of the first commit, checked out and indexed
  Message,         \* the commit message each task uses
  EarlyDecisions,  \* deliveries whose approval may be decided before it is linked
  None             \* no file, no delivery

Tree == [Paths -> Contents \cup {None}]

ASSUME PreparedDeliveryAssumption ==
  /\ Paths \subseteq Nat
  /\ None \notin Contents \cup Deliveries \cup Tasks
  /\ Root \in Tree
  /\ Writable \in [Paths -> SUBSET Contents]
  /\ EarlyDecisions \subseteq Deliveries

VARIABLES
  log,       \* the commits, oldest first; HEAD is the last
  work,      \* the worktree
  verified,  \* per task, the workspace of its latest passed verification
  delivery,  \* the rows of prepared_deliveries
  approval,  \* the status of the approval of each delivery
  call,      \* the tool calls; one that is not idle holds the lock
  request    \* the decision requests

vars == <<log, work, verified, delivery, approval, call, request>>

Kinds == {"A", "D", "M"}
Entries == Paths \X Kinds \X (Contents \cup {None})

DeliveryStatuses == {"absent", "prepared", "approved", "rejected",
                     "committing", "committed", "failed"}
ApprovalStatuses == {"absent", "pending", "approved", "rejected"}

NoSha == 0  \* a row that names no commit: commit_sha is null

Absent == [status |-> "absent", task |-> None, base |-> 0, tree |-> Root,
           manifest |-> {}, evidence |-> Root, linked |-> FALSE, sha |-> NoSha]

CallPC == {"idle", "creating", "linking", "recovering", "validating",
           "committing", "finishing", "failing"}

NoCall == [pc |-> "idle", task |-> None, delivery |-> None]
NoRequest == [pc |-> "idle", delivery |-> None, paired |-> FALSE,
              answer |-> "approved"]

TypeOK ==
  /\ log \in Seq([tree : Tree, delivery : Deliveries \cup {None},
                  message : {Message[t] : t \in Tasks} \cup {None}])
  /\ log # <<>>
  /\ work \in Tree
  /\ verified \in [Tasks -> Tree \cup {None}]
  /\ delivery \in [Deliveries ->
       [status : DeliveryStatuses, task : Tasks \cup {None}, base : Nat,
        tree : Tree, manifest : SUBSET Entries, evidence : Tree,
        linked : BOOLEAN, sha : Nat]]
  /\ approval \in [Deliveries -> ApprovalStatuses]
  /\ call \in [Callers -> [pc : CallPC, task : Tasks \cup {None},
                           delivery : Deliveries \cup {None}]]
  /\ request \in [Deciders ->
       [pc : {"idle", "deciding"}, delivery : Deliveries \cup {None},
        paired : BOOLEAN, answer : {"approved", "rejected"}]]
  /\ \A c \in Callers : call[c].pc # "idle" =>
       call[c].delivery \in Deliveries
  /\ \A o \in Deciders : request[o].pc # "idle" =>
       request[o].delivery \in Deliveries

Init ==
  /\ log = <<[tree |-> Root, delivery |-> None, message |-> None]>>
  /\ work = Root
  /\ verified = [t \in Tasks |-> None]
  /\ delivery = [d \in Deliveries |-> Absent]
  /\ approval = [d \in Deliveries |-> "absent"]
  /\ call = [c \in Callers |-> NoCall]
  /\ request = [o \in Deciders |-> NoRequest]

(***************************************************************************)
(* The repository.                                                         *)
(***************************************************************************)

HEAD == Len(log)
HEADTree == log[HEAD].tree

(* Every index that is written is a temporary one, so the repository's own *)
(* index stays what it was when the workspace was set up.                  *)
Index == Root

(* git status --porcelain, as currentManifest reads it: a D in either      *)
(* column is a deletion, ?? an addition, anything else a modification.  A  *)
(* path that HEAD has and the index lacks yields a deletion and, when the  *)
(* file is there, an addition too.                                         *)
Added == {p \in Paths : Index[p] = None /\ work[p] # None}
Deleted == {p \in Paths : \/ Index[p] = None /\ HEADTree[p] # None
                          \/ Index[p] # None /\ work[p] = None}
Modified == {p \in Paths : /\ Index[p] # None
                           /\ work[p] # None
                           /\ ~(work[p] = Index[p] /\ Index[p] = HEADTree[p])}

Manifest == {<<p, "A", work[p]>> : p \in Added}
              \cup {<<p, "D", None>> : p \in Deleted}
              \cup {<<p, "M", work[p]>> : p \in Modified}

PathsOf(manifest) == {entry[1] : entry \in manifest}
DeletedIn(manifest) == {entry[1] : entry \in {m \in manifest : m[2] = "D"}}

(* The tree of git_prepare_commit and of its revalidation: add every path  *)
(* that is not deleted, then rm every deleted one.                         *)
PreparedTree(base, manifest) ==
  [p \in Paths |-> IF p \in DeletedIn(manifest) THEN None
                   ELSE IF p \in PathsOf(manifest) THEN work[p]
                   ELSE log[base].tree[p]]

(* The tree of the commit itself: add -A for every path of the manifest.   *)
StagedTree(base, manifest) ==
  [p \in Paths |-> IF p \in PathsOf(manifest) THEN work[p]
                   ELSE log[base].tree[p]]

(* git diff --name-status between the base and HEAD.                       *)
Changed(base) ==
  LET from == log[base].tree
      kind(p) == IF from[p] = None THEN "A"
                 ELSE IF HEADTree[p] = None THEN "D" ELSE "M"
  IN  {<<p, kind(p)>> : p \in {q \in Paths : from[q] # HEADTree[q]}}

Rank == [A |-> 1, D |-> 2, M |-> 3]

(* The recovery compares two texts: Git lists the paths in order, the      *)
(* expected lines are sorted with the kind in front of the path.           *)
SameOrder(lines) ==
  \A x \in lines, y \in lines : x[1] < y[1] => Rank[x[2]] <= Rank[y[2]]

(* Mutant: the recovery does not compare the message.                      *)
RecognizedWithoutMessage(d) ==
  LET row == delivery[d]
      lines == {<<m[1], m[2]>> : m \in row.manifest}
  IN  HEAD = row.base + 1 /\ lines = Changed(row.base) /\ SameOrder(lines)

(* recoverCommittedDelivery: HEAD is a commit on the base of the delivery, *)
(* with its message and its list of changed files.                         *)
Recognized(d) ==
  LET row == delivery[d]
      lines == {<<m[1], m[2]>> : m \in row.manifest}
  IN  /\ HEAD = row.base + 1
      /\ log[HEAD].message = Message[row.task]
      /\ lines = Changed(row.base)
      /\ SameOrder(lines)

(***************************************************************************)
(* The lock and the local state of the calls.                              *)
(***************************************************************************)

At(c, label) == call[c].pc = label
Goto(c, label) == call' = [call EXCEPT ![c].pc = label]
Return(c) == call' = [call EXCEPT ![c] = NoCall]
Enter(c, label, t, d) ==
  call' = [call EXCEPT ![c] = [pc |-> label, task |-> t, delivery |-> d]]

(* A call is between its first read of the repository and its return       *)
(* exactly while it holds the repository lock.                             *)
LockFree == \A c \in Callers : At(c, "idle")

(***************************************************************************)
(* The workspace between the Git tools: create_file and apply_patch under  *)
(* the same lock, and the verification of a task.                          *)
(***************************************************************************)

WriteFile(p, content) ==
  /\ LockFree
  /\ work[p] # content
  /\ work' = [work EXCEPT ![p] = content]
  /\ UNCHANGED <<log, verified, delivery, approval, call, request>>

Verify(t) ==
  /\ verified[t] # work
  /\ verified' = [verified EXCEPT ![t] = work]
  /\ UNCHANGED <<log, work, delivery, approval, call, request>>

(***************************************************************************)
(* git_prepare_commit.                                                     *)
(***************************************************************************)

(* The unique index prepared_deliveries_active_task_idx.                   *)
ActiveDelivery(t) ==
  \E d \in Deliveries : /\ delivery[d].task = t
                        /\ delivery[d].status \in
                             {"prepared", "approved", "committing"}

(* Everything up to createPreparedDelivery: the reads see one state of the *)
(* repository because the lock is held, and an early return writes nothing.*)
CreatePreparedDelivery(c, t, d) ==
  /\ LockFree
  /\ delivery[d].status = "absent"
  /\ Manifest # {}
  /\ verified[t] = work
  /\ ~ActiveDelivery(t)
  /\ delivery' = [delivery EXCEPT ![d] =
       [Absent EXCEPT !.status = "prepared", !.task = t, !.base = HEAD,
                      !.manifest = Manifest,
                      !.tree = PreparedTree(HEAD, Manifest),
                      !.evidence = verified[t]]]
  /\ Enter(c, "creating", t, d)
  /\ UNCHANGED <<log, work, verified, approval, request>>

CreateApproval(c) ==
  /\ At(c, "creating")
  /\ approval' = [approval EXCEPT ![call[c].delivery] = "pending"]
  /\ Goto(c, "linking")
  /\ UNCHANGED <<log, work, verified, delivery, request>>

LinkPreparedDeliveryApproval(c) ==
  /\ At(c, "linking")
  /\ delivery' = [delivery EXCEPT ![call[c].delivery].linked = TRUE]
  /\ Return(c)
  /\ UNCHANGED <<log, work, verified, approval, request>>

(***************************************************************************)
(* POST /api/approvals/decision.                                           *)
(***************************************************************************)

(* The reads: the approval is pending, and whether a delivery is linked to *)
(* it decides the path of the write.                                       *)
ReadApproval(o, d, answer) ==
  /\ request[o].pc = "idle"
  /\ approval[d] = "pending"
  /\ d \in EarlyDecisions \/ delivery[d].linked
  /\ request' = [request EXCEPT ![o] =
       [pc |-> "deciding", delivery |-> d, paired |-> delivery[d].linked,
        answer |-> answer]]
  /\ UNCHANGED <<log, work, verified, delivery, approval, call>>

(* decideApprovalWithPreparedDelivery: both rows or neither.               *)
Undecided(d) == approval[d] = "pending" /\ delivery[d].status = "prepared"

(* Mutant: the transaction updates the approval and not the delivery.      *)
DecidePairedApprovalOnly(o) ==
  LET d == request[o].delivery
  IN  /\ request[o].pc = "deciding"
      /\ request[o].paired
      /\ IF Undecided(d)
           THEN approval' = [approval EXCEPT ![d] = request[o].answer]
           ELSE UNCHANGED approval
      /\ request' = [request EXCEPT ![o] = NoRequest]
      /\ UNCHANGED <<log, work, verified, delivery, call>>

DecidePaired(o) ==
  LET d == request[o].delivery
      answer == request[o].answer
  IN  /\ request[o].pc = "deciding"
      /\ request[o].paired
      /\ IF Undecided(d)
           THEN /\ approval' = [approval EXCEPT ![d] = answer]
                /\ delivery' = [delivery EXCEPT ![d].status = answer]
           ELSE UNCHANGED <<approval, delivery>>
      /\ request' = [request EXCEPT ![o] = NoRequest]
      /\ UNCHANGED <<log, work, verified, call>>

(* patchApproval, with no condition on the row.                            *)
DecideGeneric(o) ==
  /\ request[o].pc = "deciding"
  /\ ~request[o].paired
  /\ approval' = [approval EXCEPT ![request[o].delivery] = request[o].answer]
  /\ request' = [request EXCEPT ![o] = NoRequest]
  /\ UNCHANGED <<log, work, verified, delivery, call>>

(***************************************************************************)
(* git_commit.                                                             *)
(***************************************************************************)

(* The lock is taken and the two rows are read; any task may name any      *)
(* approval.                                                               *)
OpenDelivery(c, t, d, label, status) ==
  /\ LockFree
  /\ approval[d] = "approved"
  /\ delivery[d].linked
  /\ delivery[d].status = status
  /\ Enter(c, label, t, d)
  /\ UNCHANGED <<log, work, verified, delivery, approval, request>>

(* A delivery found in 'committing': finish it, or report                  *)
(* commit_recovery_required and leave it.                                  *)
RecoverCommittedDelivery(c) ==
  LET d == call[c].delivery
  IN  /\ At(c, "recovering")
      /\ IF Recognized(d) /\ delivery[d].status = "committing"
           THEN delivery' = [delivery EXCEPT ![d].status = "committed",
                                             ![d].sha = HEAD]
           ELSE UNCHANGED delivery
      /\ Return(c)
      /\ UNCHANGED <<log, work, verified, approval, request>>

(* Mutant: git_commit only checks that HEAD is still the base.             *)
RevalidatedBaseOnly(t, d) == delivery[d].task = t /\ delivery[d].base = HEAD

(* Identity, base, manifest and tree; the message and the evidence cannot  *)
(* have changed, their rows are never written again.                       *)
Revalidated(t, d) ==
  LET row == delivery[d]
  IN  /\ row.task = t
      /\ row.base = HEAD
      /\ row.manifest = Manifest
      /\ row.tree = PreparedTree(row.base, row.manifest)

(* transitionPreparedDelivery, a compare-and-swap on the status, is the    *)
(* last check and the claim.                                               *)
Claimable(t, d) == Revalidated(t, d) /\ delivery[d].status = "approved"

ClaimDelivery(c) ==
  LET d == call[c].delivery
  IN  /\ At(c, "validating")
      /\ Claimable(call[c].task, d)
      /\ delivery' = [delivery EXCEPT ![d].status = "committing"]
      /\ Goto(c, "committing")
      /\ UNCHANGED <<log, work, verified, approval, request>>

RefuseDelivery(c) ==
  /\ At(c, "validating")
  /\ ~Claimable(call[c].task, call[c].delivery)
  /\ Return(c)
  /\ UNCHANGED <<log, work, verified, delivery, approval, request>>

(* read-tree, add and commit on a fresh index.  The commit may advance     *)
(* HEAD and yet be reported as failed (timeout, output limit).             *)
GitCommit(c, label) ==
  LET d == call[c].delivery
      row == delivery[d]
      tree == StagedTree(row.base, row.manifest)
  IN  /\ At(c, "committing")
      /\ tree # HEADTree
      /\ log' = Append(log, [tree |-> tree, delivery |-> d,
                             message |-> Message[row.task]])
      /\ Goto(c, label)
      /\ UNCHANGED <<work, verified, delivery, approval, request>>

GitFails(c) ==
  /\ At(c, "committing")
  /\ Goto(c, "failing")
  /\ UNCHANGED <<log, work, verified, delivery, approval, request>>

(* rev-parse HEAD is asked for the commit and its outcome is not looked    *)
(* at: when it fails the delivery is committed and its commit_sha is null. *)
CompleteDelivery(c, sha) ==
  LET d == call[c].delivery
  IN  /\ At(c, "finishing")
      /\ IF delivery[d].status = "committing"
           THEN delivery' = [delivery EXCEPT ![d].status = "committed",
                                             ![d].sha = sha]
           ELSE UNCHANGED delivery
      /\ Return(c)
      /\ UNCHANGED <<log, work, verified, approval, request>>

FailDelivery(c) ==
  LET d == call[c].delivery
  IN  /\ At(c, "failing")
      /\ IF delivery[d].status = "committing"
           THEN delivery' = [delivery EXCEPT ![d].status = "failed"]
           ELSE UNCHANGED delivery
      /\ Return(c)
      /\ UNCHANGED <<log, work, verified, approval, request>>

(* The process dies, or a store call throws: the lock is lost with it.     *)
Crash(c) ==
  /\ ~At(c, "idle")
  /\ Return(c)
  /\ UNCHANGED <<log, work, verified, delivery, approval, request>>

Workspace ==
  \/ \E p \in Paths : \E content \in Writable[p] : WriteFile(p, content)
  \/ \E t \in Tasks : Verify(t)

Prepare(c) ==
  \/ \E t \in Tasks, d \in Deliveries : CreatePreparedDelivery(c, t, d)
  \/ CreateApproval(c)
  \/ LinkPreparedDeliveryApproval(c)

Decide(o) ==
  \/ \E d \in Deliveries, answer \in {"approved", "rejected"} :
       ReadApproval(o, d, answer)
  \/ DecidePaired(o)
  \/ DecideGeneric(o)

Commit(c) ==
  \/ \E t \in Tasks, d \in Deliveries :
       \/ OpenDelivery(c, t, d, "recovering", "committing")
       \/ OpenDelivery(c, t, d, "validating", "approved")
  \/ RecoverCommittedDelivery(c)
  \/ ClaimDelivery(c)
  \/ RefuseDelivery(c)
  \/ GitCommit(c, "finishing")
  \/ GitCommit(c, "failing")
  \/ GitFails(c)
  \/ CompleteDelivery(c, HEAD)
  \/ CompleteDelivery(c, NoSha)
  \/ FailDelivery(c)

Next ==
  \/ Workspace
  \/ \E c \in Callers : Prepare(c) \/ Commit(c) \/ Crash(c)
  \/ \E o \in Deciders : Decide(o)

Spec == Init /\ [][Next]_vars

(***************************************************************************)
(* Properties.                                                             *)
(***************************************************************************)

CommitsOf(d) == {i \in DOMAIN log : log[i].delivery = d}

(* What reaches the history is the workspace that passed verification when *)
(* the delivery was prepared, on the commit it was prepared against: no    *)
(* edit, other delivery or restart slips between approval and commit, and  *)
(* however often git_commit dies and is called again, it commits once.     *)
CommitIsVerified ==
  \A d \in Deliveries : \A i \in CommitsOf(d) :
    /\ log[i].tree = delivery[d].evidence
    /\ i = delivery[d].base + 1

(* Two deliveries the recovery cannot tell apart by their messages: they   *)
(* are of different tasks that use the same one.                           *)
ShareMessage(d, x) ==
  /\ delivery[x].task \in Tasks \ {delivery[d].task}
  /\ Message[delivery[x].task] = Message[delivery[d].task]

(* A delivery that says 'committed' has been committed: on its base stands *)
(* the commit that was made for it, also when a later call finished the    *)
(* work of a dead process, and the commit it names, if it names one, is    *)
(* that one.  Only a delivery of another task with the same message may    *)
(* have made the commit in its place.                                      *)
CommitRecorded ==
  \A d \in Deliveries : delivery[d].status = "committed" =>
    LET i == delivery[d].base + 1
    IN  /\ i \in DOMAIN log
        /\ delivery[d].sha \in {i, NoSha}
        /\ log[i].delivery \in
             {d} \cup {x \in Deliveries : ShareMessage(d, x)}

(* The decision on a delivery and on its approval is one: a linked         *)
(* approval that is decided has a delivery that was decided the same way,   *)
(* unless it may have been decided before the link.                        *)
PairedDecision ==
  \A d \in Deliveries \ EarlyDecisions : delivery[d].linked =>
    CASE approval[d] = "pending"  -> delivery[d].status = "prepared"
      [] approval[d] = "rejected" -> delivery[d].status = "rejected"
      [] OTHER -> delivery[d].status \in
                    {"approved", "committing", "committed", "failed"}
=============================================================================
