----------------------- MODULE PreparedDeliveryProofs -----------------------
(***************************************************************************)
(* Theorems about PreparedDelivery, for any number of deliveries, tasks,   *)
(* files, contents, concurrent calls and decisions.                        *)
(***************************************************************************)
EXTENDS PreparedDelivery, TLAPS

Active == {"prepared", "approved", "committing"}

(* The repository lock has one holder.                                     *)
Alone == \A c, x \in Callers : ~At(c, "idle") /\ ~At(x, "idle") => c = x

(* A manifest against the tree `from` describes a workspace: its entries   *)
(* carry the contents of their files, a path with no entry but a deletion  *)
(* has no file, and all other files are those of `from`.                   *)
Describes(manifest, from, tree) ==
  \A p \in Paths :
    /\ \A m \in manifest : m[1] = p /\ m[2] # "D" => tree[p] = m[3]
    /\ (\A m \in manifest : m[1] = p => m[2] = "D")
         => tree[p] = IF p \in PathsOf(manifest) THEN None ELSE from[p]

(* A row that exists belongs to a task and describes the workspace it was  *)
(* prepared from.                                                          *)
Rows ==
  \A d \in Deliveries :
    /\ delivery[d].status = "absent" => ~delivery[d].linked
    /\ delivery[d].status # "absent" =>
         /\ delivery[d].task \in Tasks
         /\ delivery[d].base \in 1 .. Len(log)
         /\ Describes(delivery[d].manifest, log[delivery[d].base].tree,
                      delivery[d].evidence)

(* Commit i is the first commit, or that of the delivery it names.         *)
Made(i, d) ==
  /\ delivery[d].status \in {"committing", "committed", "failed"}
  /\ log[i].tree = delivery[d].evidence
  /\ log[i].message = Message[delivery[d].task]
  /\ i = delivery[d].base + 1

History ==
  \A i \in 1 .. Len(log) :
    IF log[i].delivery = None THEN i = 1 ELSE Made(i, log[i].delivery)

(* A task has one active delivery, and its commits of other deliveries are *)
(* not after its base.                                                     *)
OneActive ==
  \A d, x \in Deliveries :
    /\ delivery[d].status \in Active /\ x # d
    /\ delivery[x].task = delivery[d].task
    => /\ delivery[x].status \notin Active
       /\ \A i \in 1 .. Len(log) : log[i].delivery = x => i <= delivery[d].base

(* What a call knows of its delivery while it holds the lock.              *)
Knows(c) ==
  LET d == call[c].delivery
  IN  /\ At(c, "creating") \/ At(c, "linking") =>
           delivery[d].status = "prepared" /\ ~delivery[d].linked
      /\ At(c, "linking") /\ d \notin EarlyDecisions => approval[d] = "pending"
      /\ At(c, "committing") =>
           /\ delivery[d].status = "committing"
           /\ delivery[d].base = Len(log)
           /\ StagedTree(delivery[d].base, delivery[d].manifest)
                = delivery[d].evidence
      /\ At(c, "finishing") =>
           delivery[d].status = "committing" /\ log[Len(log)].delivery = d

CallsFit == \A c \in Callers : Knows(c)

(* A decision that has seen the link of its delivery is right, and one on  *)
(* a delivery that cannot be decided early has seen it.                    *)
RequestsFit ==
  \A o \in Deciders : request[o].pc = "deciding" =>
    /\ request[o].paired => delivery[request[o].delivery].linked
    /\ request[o].delivery \notin EarlyDecisions => request[o].paired

Safe ==
  /\ TypeOK /\ Alone /\ Rows /\ History /\ OneActive /\ CallsFit /\ RequestsFit
  /\ PairedDecision

(* The entries of the log and the records of the tables and the calls.      *)
Commits == [tree : Tree, delivery : Deliveries \cup {None},
            message : {Message[t] : t \in Tasks} \cup {None}]
DeliveryRows == [status : DeliveryStatuses, task : Tasks \cup {None}, base : Nat,
                 tree : Tree, manifest : SUBSET Entries, evidence : Tree,
                 linked : BOOLEAN, sha : Nat]
CallStates == [pc : CallPC, task : Tasks \cup {None},
               delivery : Deliveries \cup {None}]
RequestStates == [pc : {"idle", "deciding"}, delivery : Deliveries \cup {None},
                  paired : BOOLEAN, answer : {"approved", "rejected"}]

(***************************************************************************)
(* The repository.                                                         *)
(***************************************************************************)

(* HEAD is a commit and its tree is one.                                   *)
LEMMA HeadTyped ==
  ASSUME TypeOK
  PROVE  Len(log) \in Nat /\ Len(log) >= 1 /\ HEADTree \in Tree
<1>1. log \in Seq(Commits)
  BY DEF TypeOK, Commits
<1>2. Len(log) \in Nat /\ Len(log) >= 1
  BY DEF TypeOK
<1>3. log[Len(log)] \in Commits
  BY <1>1, <1>2
<1> QED BY <1>2, <1>3 DEF Commits, HEADTree, HEAD

(* A manifest describes one workspace.                                     *)
LEMMA OneDescription ==
  ASSUME NEW m, NEW from, NEW x \in Tree, NEW y \in Tree,
         Describes(m, from, x), Describes(m, from, y)
  PROVE  x = y
<1>1. \A p \in Paths : x[p] = y[p]
  BY DEF Describes
<1> QED BY <1>1 DEF Tree

(* What git status reports of a path.                                      *)
LEMMA Reported ==
  ASSUME TypeOK, NEW p \in Paths
  PROVE  /\ \A m \in Manifest : m[1] = p /\ m[2] # "D" => work[p] = m[3]
         /\ p \in PathsOf(Manifest) \/ work[p] = HEADTree[p]
         /\ (\A m \in Manifest : m[1] = p => m[2] = "D")
              => p \notin PathsOf(Manifest) \/ work[p] = None
<1>1. \A m \in Manifest : m[1] = p /\ m[2] # "D" => work[p] = m[3]
  BY DEF Manifest
<1>2. p \in PathsOf(Manifest) <=> p \in Added \/ p \in Deleted \/ p \in Modified
  <2>1. p \in Added => <<p, "A", work[p]>> \in Manifest
    BY DEF Manifest
  <2>2. p \in Deleted => <<p, "D", None>> \in Manifest
    BY DEF Manifest
  <2>3. p \in Modified => <<p, "M", work[p]>> \in Manifest
    BY DEF Manifest
  <2>4. \A m \in Manifest :
          m[1] = p => p \in Added \/ p \in Deleted \/ p \in Modified
    BY DEF Manifest
  <2> QED BY <2>1, <2>2, <2>3, <2>4 DEF PathsOf
<1>3. p \notin PathsOf(Manifest) => work[p] = HEADTree[p]
  BY <1>2 DEF Added, Deleted, Modified
<1>4. ASSUME \A m \in Manifest : m[1] = p => m[2] = "D", p \in PathsOf(Manifest)
      PROVE  work[p] = None
  <2>1. p \notin Added
    <3>1. p \in Added => <<p, "A", work[p]>> \in Manifest
      BY DEF Manifest
    <3> QED BY <3>1, <1>4
  <2>2. p \notin Modified
    <3>1. p \in Modified => <<p, "M", work[p]>> \in Manifest
      BY DEF Manifest
    <3> QED BY <3>1, <1>4
  <2>3. p \in Deleted
    BY <1>2, <1>4, <2>1, <2>2
  <2> QED BY <2>1, <2>3 DEF Added, Deleted
<1> QED BY <1>1, <1>3, <1>4

(* The current manifest describes the current workspace, and staging its   *)
(* paths on HEAD gives exactly the workspace.                              *)
LEMMA WorkspaceDescribed ==
  ASSUME TypeOK
  PROVE  Describes(Manifest, HEADTree, work)
         /\ StagedTree(Len(log), Manifest) = work
<1>1. \A p \in Paths : p \notin PathsOf(Manifest) => work[p] = HEADTree[p]
  BY Reported
<1>2. StagedTree(Len(log), Manifest) = [p \in Paths |-> work[p]]
  BY <1>1 DEF StagedTree, HEADTree, HEAD
<1>3. [p \in Paths |-> work[p]] = work
  BY DEF TypeOK, Tree
<1>4. ASSUME NEW p \in Paths
      PROVE  /\ \A m \in Manifest : m[1] = p /\ m[2] # "D" => work[p] = m[3]
             /\ (\A m \in Manifest : m[1] = p => m[2] = "D")
                  => work[p] = IF p \in PathsOf(Manifest) THEN None ELSE HEADTree[p]
  BY Reported
<1> QED BY <1>2, <1>3, <1>4 DEF Describes

LEMMA Typed ==
  TypeOK <=> /\ log \in Seq(Commits) /\ log # <<>>
             /\ work \in Tree /\ verified \in [Tasks -> Tree \cup {None}]
             /\ delivery \in [Deliveries -> DeliveryRows]
             /\ approval \in [Deliveries -> ApprovalStatuses]
             /\ call \in [Callers -> CallStates]
             /\ request \in [Deciders -> RequestStates]
             /\ \A c \in Callers : ~At(c, "idle") => call[c].delivery \in Deliveries
             /\ \A o \in Deciders :
                   request[o].pc # "idle" => request[o].delivery \in Deliveries
  BY DEF TypeOK, Commits, DeliveryRows, CallStates, RequestStates, At

(***************************************************************************)
(* Steps that write no row.                                                *)
(***************************************************************************)

(* A step of a call that leaves it where it knows nothing.                 *)
LEMMA LocalStep ==
  ASSUME Safe, NEW c \in Callers, NEW x \in CallStates,
         LockFree \/ ~At(c, "idle"),
         call' = [call EXCEPT ![c] = x],
         x.pc \in {"idle", "recovering", "validating", "failing"},
         x.pc # "idle" => x.delivery \in Deliveries,
         UNCHANGED <<log, work, verified, delivery, approval, request>>
  PROVE  Safe'
<1>1. call \in [Callers -> CallStates] /\ call' \in [Callers -> CallStates]
      /\ call'[c] = x /\ \A y \in Callers : y # c => call'[y] = call[y]
  BY Typed DEF Safe
<1>2. TypeOK'
  BY <1>1 DEF Safe, TypeOK, CallStates
<1>3. Alone'
  BY <1>1 DEF Safe, Alone, LockFree, At
<1>4. CallsFit'
  <2> SUFFICES ASSUME NEW y \in Callers PROVE Knows(y)'
    BY DEF CallsFit
  <2>1. CASE y = c
    BY <1>1, <2>1 DEF Knows, At
  <2>2. CASE y # c
    BY <1>1, <2>2 DEF Safe, CallsFit, Knows, At, StagedTree
  <2> QED BY <2>1, <2>2
<1>5. Rows' /\ History' /\ OneActive' /\ RequestsFit' /\ PairedDecision'
  BY DEF Safe, Rows, History, Made, OneActive, RequestsFit, PairedDecision
<1> QED BY <1>2, <1>3, <1>4, <1>5 DEF Safe

LEMMA LeaveSafe ==
  ASSUME Safe, NEW c \in Callers, RefuseDelivery(c) \/ GitFails(c) \/ Crash(c)
  PROVE  Safe'
<1>1. call \in [Callers -> CallStates]
  BY Typed DEF Safe
<1>2. CASE RefuseDelivery(c) \/ Crash(c)
  <2>1. NoCall \in CallStates /\ NoCall.pc = "idle"
    BY DEF NoCall, CallStates, CallPC
  <2> QED BY <1>2, <2>1, LocalStep DEF RefuseDelivery, Crash, Return, At
<1>3. CASE GitFails(c)
  <2> DEFINE x == [call[c] EXCEPT !.pc = "failing"]
  <2>1. call[c] \in CallStates /\ x \in CallStates /\ x.pc = "failing"
        /\ x.delivery = call[c].delivery /\ ~At(c, "idle")
        /\ call[c].delivery \in Deliveries
    BY <1>1, <1>3, Typed DEF Safe, CallStates, CallPC, GitFails, At
  <2>2. call' = [call EXCEPT ![c] = x]
    BY <1>1, <1>3 DEF GitFails, Goto
  <2> HIDE DEF x
  <2> QED BY <1>3, <2>1, <2>2, LocalStep DEF GitFails
<1> QED BY <1>2, <1>3

LEMMA OpenSafe ==
  ASSUME Safe, NEW c \in Callers, NEW t \in Tasks, NEW d \in Deliveries,
         NEW label \in {"recovering", "validating"}, NEW status,
         OpenDelivery(c, t, d, label, status)
  PROVE  Safe'
<1> DEFINE x == [pc |-> label, task |-> t, delivery |-> d]
<1>1. x \in CallStates /\ x.pc = label /\ x.delivery = d
  BY DEF CallStates, CallPC
<1>2. call' = [call EXCEPT ![c] = x] /\ LockFree
      /\ UNCHANGED <<log, work, verified, delivery, approval, request>>
  BY DEF OpenDelivery, Enter
<1> HIDE DEF x
<1> QED BY <1>1, <1>2, LocalStep

LEMMA WorkspaceSafe ==
  ASSUME Safe, Workspace
  PROVE  Safe'
<1>1. UNCHANGED <<log, delivery, approval, call, request>>
  BY DEF Workspace, WriteFile, Verify
<1>2. TypeOK'
  <2>1. work \in Tree /\ verified \in [Tasks -> Tree \cup {None}]
    BY DEF Safe, TypeOK
  <2>2. work' \in Tree
    BY <2>1, PreparedDeliveryAssumption DEF Workspace, WriteFile, Verify, Tree
  <2>3. verified' \in [Tasks -> Tree \cup {None}]
    BY <2>1 DEF Workspace, WriteFile, Verify
  <2> QED BY <1>1, <2>2, <2>3 DEF Safe, TypeOK
<1>3. CallsFit'
  <2>1. CASE \E t \in Tasks : Verify(t)
    BY <1>1, <2>1 DEF Verify, Safe, CallsFit, Knows, At, StagedTree
  <2>2. CASE LockFree
    BY <1>1, <2>2 DEF CallsFit, Knows, At, LockFree
  <2> QED BY <2>1, <2>2 DEF Workspace, WriteFile
<1>4. Alone' /\ Rows' /\ History' /\ OneActive' /\ RequestsFit' /\ PairedDecision'
  BY <1>1 DEF Safe, Alone, At, Rows, History, Made, OneActive, RequestsFit,
              PairedDecision
<1> QED BY <1>2, <1>3, <1>4 DEF Safe

LEMMA ReadApprovalSafe ==
  ASSUME Safe, NEW o \in Deciders, NEW d \in Deliveries,
         NEW answer \in {"approved", "rejected"}, ReadApproval(o, d, answer)
  PROVE  Safe'
<1> DEFINE x == [pc |-> "deciding", delivery |-> d,
                 paired |-> delivery[d].linked, answer |-> answer]
<1>1. /\ request \in [Deciders -> RequestStates]
      /\ delivery[d] \in DeliveryRows
  BY Typed DEF Safe
<1>2. x \in RequestStates /\ x.delivery = d /\ x.paired = delivery[d].linked
  BY <1>1 DEF RequestStates, DeliveryRows
<1>3. request' = [request EXCEPT ![o] = x]
  BY DEF ReadApproval
<1> HIDE DEF x
<1>4. /\ request' \in [Deciders -> RequestStates] /\ request'[o] = x
      /\ \A y \in Deciders : y # o => request'[y] = request[y]
      /\ UNCHANGED <<log, work, verified, delivery, approval, call>>
  BY <1>1, <1>2, <1>3 DEF ReadApproval
<1>5. TypeOK'
  BY <1>2, <1>4 DEF Safe, TypeOK, RequestStates
<1>6. RequestsFit'
  BY <1>2, <1>4 DEF Safe, RequestsFit, ReadApproval
<1>7. Alone' /\ Rows' /\ History' /\ OneActive' /\ CallsFit' /\ PairedDecision'
  BY <1>4 DEF Safe, Alone, At, Rows, History, Made, OneActive, CallsFit, Knows,
              StagedTree, PairedDecision
<1> QED BY <1>5, <1>6, <1>7 DEF Safe

(***************************************************************************)
(* Steps that write a row that exists.                                     *)
(***************************************************************************)

(* What is frozen in a row stays, a row does not become active, and one    *)
(* that is or was to be committed remains so.                              *)
Keeps(old, new) ==
  /\ new.task = old.task /\ new.base = old.base
  /\ new.manifest = old.manifest /\ new.evidence = old.evidence
  /\ old.status # "absent" /\ new.status # "absent"
  /\ new.status \in Active => old.status \in Active
  /\ old.status \in {"committing", "committed", "failed"}
       => new.status \in {"committing", "committed", "failed"}

LEMMA RowStep ==
  ASSUME Safe, NEW d \in Deliveries, NEW row \in DeliveryRows,
         Keeps(delivery[d], row), log' = log,
         delivery' = [delivery EXCEPT ![d] = row]
  PROVE  /\ delivery' \in [Deliveries -> DeliveryRows]
         /\ delivery'[d] = row
         /\ \A x \in Deliveries : x # d => delivery'[x] = delivery[x]
         /\ Rows' /\ History' /\ OneActive'
<1>1. /\ delivery' \in [Deliveries -> DeliveryRows] /\ delivery'[d] = row
      /\ \A x \in Deliveries : x # d => delivery'[x] = delivery[x]
  BY Typed DEF Safe
<1>2. \A x \in Deliveries : Keeps(delivery[x], delivery'[x]) \/ x # d
  BY <1>1
<1>3. Rows'
  BY <1>1 DEF Safe, Rows, Keeps
<1>4. History'
  <2> SUFFICES ASSUME NEW i \in 1 .. Len(log), log[i].delivery # None
               PROVE  Made(i, log[i].delivery)'
    BY DEF Safe, History
  <2>1. Made(i, log[i].delivery)
    BY DEF Safe, History
  <2>2. log[i].delivery \in Deliveries
    <3>1. log \in Seq(Commits) /\ log[i] \in Commits
      BY Typed DEF Safe
    <3> QED BY <3>1 DEF Commits
  <2> QED BY <1>1, <2>1, <2>2 DEF Made, Keeps
<1>5. OneActive'
  <2> SUFFICES ASSUME NEW a \in Deliveries, NEW x \in Deliveries, x # a,
                      delivery'[a].status \in Active,
                      delivery'[x].task = delivery'[a].task
               PROVE  /\ delivery'[x].status \notin Active
                      /\ \A i \in 1 .. Len(log) :
                            log[i].delivery = x => i <= delivery'[a].base
    BY DEF OneActive
  <2>1. /\ delivery[a].status \in Active
        /\ delivery'[a].task = delivery[a].task
        /\ delivery'[a].base = delivery[a].base
    BY <1>1 DEF Keeps
  <2>2. /\ delivery'[x].status \in Active => delivery[x].status \in Active
        /\ delivery'[x].task = delivery[x].task
    BY <1>1 DEF Keeps
  <2> QED BY <2>1, <2>2 DEF Safe, OneActive
<1> QED BY <1>1, <1>3, <1>4, <1>5

(* Such a step of a call that ends, or goes on to commit.                  *)
LEMMA CallStep ==
  ASSUME Safe, NEW c \in Callers, NEW d \in Deliveries, d = call[c].delivery,
         ~At(c, "idle"), NEW row \in DeliveryRows, Keeps(delivery[d], row),
         row.linked = delivery[d].linked,
         NEW x \in CallStates, call' = [call EXCEPT ![c] = x],
         \/ x.pc = "idle"
         \/ /\ x.pc = "committing" /\ x.delivery = d
            /\ row.status = "committing" /\ row.base = Len(log)
            /\ StagedTree(row.base, row.manifest) = row.evidence,
         delivery' = [delivery EXCEPT ![d] = row],
         d \notin EarlyDecisions /\ row.linked =>
            /\ approval[d] = "pending" => row.status = "prepared"
            /\ approval[d] = "rejected" => row.status = "rejected"
            /\ approval[d] \notin {"pending", "rejected"}
                 => row.status \in {"approved", "committing", "committed", "failed"},
         UNCHANGED <<log, work, verified, approval, request>>
  PROVE  Safe'
<1>1. /\ delivery' \in [Deliveries -> DeliveryRows] /\ delivery'[d] = row
      /\ \A y \in Deliveries : y # d => delivery'[y] = delivery[y]
      /\ Rows' /\ History' /\ OneActive'
  BY RowStep
<1>2. call \in [Callers -> CallStates] /\ call' \in [Callers -> CallStates]
      /\ call'[c] = x /\ \A y \in Callers : y # c => call'[y] = call[y]
  BY Typed DEF Safe
<1>3. \A y \in Callers : y # c => At(y, "idle")
  BY DEF Safe, Alone
<1>4. TypeOK'
  <2>1. TypeOK
    BY DEF Safe
  <2>2. \A y \in Callers : ~At(y, "idle")' => call'[y].delivery \in Deliveries
    BY <1>2, <1>3 DEF At
  <2>3. request \in [Deciders -> RequestStates]
        /\ \A o \in Deciders :
             request[o].pc # "idle" => request[o].delivery \in Deliveries
    BY <2>1, Typed
  <2> QED BY <1>1, <1>2, <2>1, <2>2, <2>3
          DEF TypeOK, DeliveryRows, CallStates, At
<1>5. Alone'
  BY <1>2, <1>3 DEF Alone, At
<1>6. CallsFit'
  <2>1. \A y \in Callers : y # c => Knows(y)'
    BY <1>2, <1>3 DEF Knows, At
  <2>2. Knows(c)'
    <3>1. StagedTree(row.base, row.manifest)'
            = StagedTree(row.base, row.manifest)
      BY DEF StagedTree
    <3> QED BY <1>1, <1>2, <3>1 DEF Knows, At, StagedTree
  <2> QED BY <2>1, <2>2 DEF CallsFit
<1>7. RequestsFit'
  BY <1>1, Typed DEF Safe, RequestsFit
<1>8. PairedDecision'
  <2> SUFFICES ASSUME NEW y \in Deliveries \ EarlyDecisions, delivery'[y].linked
               PROVE  /\ approval[y] = "pending" => delivery'[y].status = "prepared"
                      /\ approval[y] = "rejected" => delivery'[y].status = "rejected"
                      /\ approval[y] \notin {"pending", "rejected"} =>
                           delivery'[y].status \in
                             {"approved", "committing", "committed", "failed"}
    BY DEF PairedDecision
  <2>1. CASE y = d
    BY <1>1, <2>1
  <2>2. CASE y # d
    BY <1>1, <2>2 DEF Safe, PairedDecision
  <2> QED BY <2>1, <2>2
<1> QED BY <1>1, <1>4, <1>5, <1>6, <1>7, <1>8 DEF Safe

(* The row of a call that holds the lock.                                  *)
LEMMA OwnRow ==
  ASSUME Safe, NEW c \in Callers, ~At(c, "idle")
  PROVE  /\ call[c] \in CallStates /\ call[c].delivery \in Deliveries
         /\ delivery[call[c].delivery] \in DeliveryRows
         /\ Len(log) \in Nat /\ Len(log) >= 1
         /\ NoCall \in CallStates /\ NoCall.pc = "idle"
<1>1. NoCall \in CallStates /\ NoCall.pc = "idle"
  BY DEF NoCall, CallStates, CallPC
<1> QED BY <1>1, Typed, HeadTyped DEF Safe

(* A linked delivery past its decision was approved.                       *)
LEMMA DecidedFits ==
  ASSUME Safe, NEW d \in Deliveries \ EarlyDecisions, delivery[d].linked,
         delivery[d].status \in {"approved", "committing", "committed", "failed"}
  PROVE  approval[d] \notin {"pending", "rejected"}
BY DEF Safe, PairedDecision

(* The status of a committing row is written by its outcome.               *)
LEMMA OutcomeSafe ==
  ASSUME Safe, NEW c \in Callers, NEW status \in {"committed", "failed"},
         NEW n \in Nat, ~At(c, "idle"), Return(c),
         delivery[call[c].delivery].status = "committing",
         delivery' = [delivery EXCEPT ![call[c].delivery].status = status,
                                      ![call[c].delivery].sha = n],
         UNCHANGED <<log, work, verified, approval, request>>
  PROVE  Safe'
<1> PICK d \in Deliveries : d = call[c].delivery
  BY OwnRow
<1> DEFINE row == [delivery[d] EXCEPT !.status = status, !.sha = n]
<1>1. delivery \in [Deliveries -> DeliveryRows] /\ delivery[d] \in DeliveryRows
  BY Typed DEF Safe
<1>2. row \in DeliveryRows /\ row.linked = delivery[d].linked /\ row.status = status
  BY <1>1 DEF DeliveryRows, DeliveryStatuses
<1>3. Keeps(delivery[d], row)
  BY <1>1 DEF Keeps, DeliveryRows, Active
<1>4. delivery' = [delivery EXCEPT ![d] = row]
  BY <1>1 DEF DeliveryRows
<1>5. NoCall \in CallStates /\ NoCall.pc = "idle" /\ call' = [call EXCEPT ![c] = NoCall]
  BY OwnRow DEF Return
<1>6. d \notin EarlyDecisions /\ row.linked => approval[d] \notin {"pending", "rejected"}
  BY <1>2, DecidedFits
<1> HIDE DEF row
<1> QED BY <1>2, <1>3, <1>4, <1>5, <1>6, CallStep

LEMMA CompleteDeliverySafe ==
  ASSUME Safe, NEW c \in Callers,
         NEW sha \in {HEAD, NoSha},
         CompleteDelivery(c, sha) \/ FailDelivery(c) \/ RecoverCommittedDelivery(c)
  PROVE  Safe'
<1> PICK d \in Deliveries : d = call[c].delivery
  BY OwnRow DEF CompleteDelivery, FailDelivery, RecoverCommittedDelivery, At
<1>1. /\ ~At(c, "idle") /\ Return(c)
      /\ UNCHANGED <<log, work, verified, approval, request>>
  BY DEF CompleteDelivery, FailDelivery, RecoverCommittedDelivery, At
<1>2. /\ delivery \in [Deliveries -> DeliveryRows] /\ delivery[d] \in DeliveryRows
      /\ delivery[d].sha \in Nat /\ HEAD \in Nat /\ sha \in Nat
  BY Typed, HeadTyped DEF Safe, DeliveryRows, HEAD, NoSha
<1>3. CASE UNCHANGED delivery
  <2>1. NoCall \in CallStates /\ NoCall.pc = "idle"
    BY <1>1, OwnRow
  <2> QED BY <1>1, <1>3, <2>1, LocalStep DEF Return
<1>4. CASE delivery[d].status = "committing"
           /\ delivery' = [delivery EXCEPT ![d].status = "failed"]
  <2>1. delivery' = [delivery EXCEPT ![d].status = "failed",
                                     ![d].sha = delivery[d].sha]
    BY <1>2, <1>4 DEF DeliveryRows
  <2> QED BY <1>1, <1>2, <1>4, <2>1, OutcomeSafe
<1>5. CASE /\ delivery[d].status = "committing"
           /\ \E n \in {HEAD, sha} :
                delivery' = [delivery EXCEPT ![d].status = "committed",
                                             ![d].sha = n]
  BY <1>1, <1>2, <1>5, OutcomeSafe
<1> QED BY <1>3, <1>4, <1>5
        DEF CompleteDelivery, FailDelivery, RecoverCommittedDelivery

(* The revalidation finds the workspace of the preparation, and staging it *)
(* on HEAD gives that workspace.                                           *)
LEMMA RevalidationHolds ==
  ASSUME Safe, NEW d \in Deliveries, NEW t \in Tasks, Revalidated(t, d),
         delivery[d].status # "absent"
  PROVE  /\ delivery[d].base = Len(log) /\ delivery[d].evidence = work
         /\ StagedTree(delivery[d].base, delivery[d].manifest)
              = delivery[d].evidence
<1>1. delivery[d].base = Len(log) /\ delivery[d].manifest = Manifest
  BY DEF Revalidated, HEAD
<1>2. Describes(Manifest, HEADTree, delivery[d].evidence)
  BY <1>1 DEF Safe, Rows, HEADTree, HEAD
<1>3. /\ Describes(Manifest, HEADTree, work)
      /\ StagedTree(Len(log), Manifest) = work
  BY WorkspaceDescribed DEF Safe
<1>4. work \in Tree /\ delivery[d].evidence \in Tree
  BY Typed DEF Safe, DeliveryRows
<1>5. delivery[d].evidence = work
  BY <1>2, <1>3, <1>4, OneDescription
<1> QED BY <1>1, <1>3, <1>5

LEMMA ClaimSafe ==
  ASSUME Safe, NEW c \in Callers, ClaimDelivery(c)
  PROVE  Safe'
<1> PICK d \in Deliveries : d = call[c].delivery
  BY OwnRow DEF ClaimDelivery, At
<1> DEFINE row == [delivery[d] EXCEPT !.status = "committing"]
           x == [call[c] EXCEPT !.pc = "committing"]
<1>1. /\ At(c, "validating") /\ ~At(c, "idle")
      /\ Revalidated(call[c].task, d) /\ delivery[d].status = "approved"
      /\ UNCHANGED <<log, work, verified, approval, request>>
  BY DEF ClaimDelivery, Claimable, At
<1>2. /\ delivery \in [Deliveries -> DeliveryRows] /\ delivery[d] \in DeliveryRows
      /\ call \in [Callers -> CallStates] /\ call[c] \in CallStates
  BY Typed DEF Safe
<1>3. call[c].task \in Tasks
  BY <1>1 DEF Safe, Rows, Revalidated
<1>4. /\ delivery[d].base = Len(log)
      /\ StagedTree(delivery[d].base, delivery[d].manifest) = delivery[d].evidence
  BY <1>1, <1>3, RevalidationHolds
<1>5. /\ row \in DeliveryRows /\ row.linked = delivery[d].linked
      /\ row.status = "committing" /\ row.base = delivery[d].base
      /\ row.manifest = delivery[d].manifest /\ row.evidence = delivery[d].evidence
  BY <1>2 DEF DeliveryRows, DeliveryStatuses
<1>6. Keeps(delivery[d], row)
  BY <1>1, <1>2 DEF Keeps, DeliveryRows, Active
<1>7. /\ x \in CallStates /\ x.pc = "committing" /\ x.delivery = d
      /\ call' = [call EXCEPT ![c] = x]
  BY <1>2 DEF CallStates, CallPC, ClaimDelivery, Goto
<1>8. delivery' = [delivery EXCEPT ![d] = row]
  BY <1>2 DEF ClaimDelivery
<1>9. d \notin EarlyDecisions /\ row.linked => approval[d] \notin {"pending", "rejected"}
  BY <1>1, <1>5, DecidedFits
<1> HIDE DEF row, x
<1> QED BY <1>1, <1>4, <1>5, <1>6, <1>7, <1>8, <1>9, CallStep

(***************************************************************************)
(* git_prepare_commit.                                                     *)
(***************************************************************************)

LEMMA CreateSafe ==
  ASSUME Safe, NEW c \in Callers, NEW t \in Tasks, NEW d \in Deliveries,
         CreatePreparedDelivery(c, t, d)
  PROVE  Safe'
<1> DEFINE row == [Absent EXCEPT !.status = "prepared", !.task = t, !.base = HEAD,
                                 !.manifest = Manifest,
                                 !.tree = PreparedTree(HEAD, Manifest),
                                 !.evidence = verified[t]]
           x == [pc |-> "creating", task |-> t, delivery |-> d]
<1>1. /\ LockFree /\ delivery[d].status = "absent" /\ verified[t] = work
      /\ ~ActiveDelivery(t)
      /\ UNCHANGED <<log, work, verified, approval, request>>
  BY DEF CreatePreparedDelivery
<1>2. /\ delivery \in [Deliveries -> DeliveryRows] /\ work \in Tree
      /\ call \in [Callers -> CallStates]
      /\ request \in [Deciders -> RequestStates]
      /\ Len(log) \in Nat /\ Len(log) >= 1 /\ HEADTree \in Tree
  BY Typed, HeadTyped DEF Safe
<1>3. PreparedTree(HEAD, Manifest) \in Tree
  <2>1. PreparedTree(HEAD, Manifest)
          = [p \in Paths |-> IF p \in DeletedIn(Manifest) THEN None
                             ELSE IF p \in PathsOf(Manifest) THEN work[p]
                             ELSE HEADTree[p]]
    BY DEF PreparedTree, HEADTree
  <2> QED BY <1>2, <2>1 DEF Tree
<1>4. Manifest \subseteq Entries
  BY <1>2 DEF Manifest, Added, Deleted, Modified, Entries, Kinds, Tree
<1>5. /\ row \in DeliveryRows /\ row.status = "prepared" /\ row.task = t
      /\ row.base = Len(log) /\ row.manifest = Manifest /\ row.evidence = work
      /\ ~row.linked
  BY <1>1, <1>2, <1>3, <1>4, PreparedDeliveryAssumption
     DEF DeliveryRows, DeliveryStatuses, Absent, NoSha, HEAD
<1>6. x \in CallStates /\ x.pc = "creating" /\ x.delivery = d
  BY DEF CallStates, CallPC
<1>7. call' = [call EXCEPT ![c] = x] /\ delivery' = [delivery EXCEPT ![d] = row]
  BY DEF CreatePreparedDelivery, Enter
<1> HIDE DEF row, x
<1>8. /\ delivery' \in [Deliveries -> DeliveryRows] /\ delivery'[d] = row
      /\ \A y \in Deliveries : y # d => delivery'[y] = delivery[y]
      /\ call' \in [Callers -> CallStates] /\ call'[c] = x
      /\ \A y \in Callers : y # c => call'[y] = call[y]
  BY <1>2, <1>5, <1>6, <1>7
<1>9. TypeOK'
  <2>1. TypeOK
    BY DEF Safe
  <2>2. \A y \in Callers : ~At(y, "idle")' => call'[y].delivery \in Deliveries
    BY <1>1, <1>6, <1>8 DEF At, LockFree
  <2> QED BY <1>1, <1>8, <2>1, <2>2
          DEF TypeOK, DeliveryRows, CallStates, At
<1>10. Alone'
  BY <1>1, <1>8 DEF Alone, At, LockFree
<1>11. Rows'
  <2>1. Describes(Manifest, log[Len(log)].tree, work)
    BY WorkspaceDescribed DEF Safe, HEADTree, HEAD
  <2> QED BY <1>1, <1>2, <1>5, <1>8, <2>1 DEF Safe, Rows
<1>12. \A i \in 1 .. Len(log) : log[i].delivery # d
  BY <1>1, PreparedDeliveryAssumption DEF Safe, History, Made
<1>13. History'
  <2>1. \A i \in 1 .. Len(log) :
          log[i].delivery # None => log[i].delivery \in Deliveries
    <3>1. log \in Seq(Commits)
      BY Typed DEF Safe
    <3>2. \A i \in 1 .. Len(log) : log[i] \in Commits
      BY <3>1
    <3> QED BY <3>2 DEF Commits
  <2> QED BY <1>1, <1>8, <1>12, <2>1 DEF Safe, History, Made
<1>14. OneActive'
  <2> SUFFICES ASSUME NEW a \in Deliveries, NEW y \in Deliveries, y # a,
                      delivery'[a].status \in Active,
                      delivery'[y].task = delivery'[a].task
               PROVE  /\ delivery'[y].status \notin Active
                      /\ \A i \in 1 .. Len(log) :
                            log[i].delivery = y => i <= delivery'[a].base
    BY <1>1 DEF OneActive
  <2>1. CASE a = d
    BY <1>1, <1>2, <1>5, <1>8, <2>1 DEF ActiveDelivery, Active
  <2>2. CASE y = d
    BY <1>1, <1>5, <1>8, <1>12, <2>2 DEF ActiveDelivery, Active
  <2>3. CASE a # d /\ y # d
    BY <1>8, <2>3 DEF Safe, OneActive
  <2> QED BY <2>1, <2>2, <2>3
<1>15. CallsFit'
  BY <1>1, <1>5, <1>6, <1>8 DEF CallsFit, Knows, At, LockFree
<1>16. RequestsFit'
  BY <1>1, <1>2, <1>8, Typed DEF Safe, RequestsFit, Rows
<1>17. PairedDecision'
  BY <1>1, <1>5, <1>8 DEF Safe, PairedDecision
<1> QED BY <1>9, <1>10, <1>11, <1>13, <1>14, <1>15, <1>16, <1>17 DEF Safe

LEMMA CreateApprovalSafe ==
  ASSUME Safe, NEW c \in Callers, CreateApproval(c)
  PROVE  Safe'
<1> PICK d \in Deliveries : d = call[c].delivery
  BY OwnRow DEF CreateApproval, At
<1>1. /\ At(c, "creating") /\ ~At(c, "idle")
      /\ approval' = [approval EXCEPT ![d] = "pending"]
      /\ UNCHANGED <<log, work, verified, delivery, request>>
  BY DEF CreateApproval, At
<1>2. /\ call \in [Callers -> CallStates] /\ call[c] \in CallStates
      /\ approval \in [Deliveries -> ApprovalStatuses]
  BY Typed DEF Safe
<1>3. /\ call' \in [Callers -> CallStates] /\ call'[c].pc = "linking"
      /\ call'[c].delivery = d
      /\ \A y \in Callers : y # c => call'[y] = call[y]
  BY <1>2 DEF CreateApproval, Goto, CallStates, CallPC
<1>4. delivery[d].status = "prepared" /\ ~delivery[d].linked
  BY <1>1 DEF Safe, CallsFit, Knows
<1>5. /\ approval' \in [Deliveries -> ApprovalStatuses]
      /\ approval'[d] = "pending"
      /\ \A y \in Deliveries : y # d => approval'[y] = approval[y]
  BY <1>1, <1>2 DEF ApprovalStatuses
<1>6. \A y \in Callers : y # c => At(y, "idle")
  BY <1>1 DEF Safe, Alone
<1>7. TypeOK'
  <2>1. \A y \in Callers : ~At(y, "idle")' => call'[y].delivery \in Deliveries
    BY <1>3, <1>6 DEF At
  <2> QED BY <1>1, <1>3, <1>5, <2>1 DEF Safe, TypeOK, CallStates, At
<1>8. Alone'
  BY <1>3, <1>6 DEF Alone, At
<1>9. CallsFit'
  BY <1>1, <1>3, <1>4, <1>5, <1>6 DEF CallsFit, Knows, At
<1>10. Rows' /\ History' /\ OneActive' /\ RequestsFit'
  BY <1>1 DEF Safe, Rows, History, Made, OneActive, RequestsFit
<1>11. PairedDecision'
  BY <1>1, <1>4, <1>5 DEF Safe, PairedDecision
<1> QED BY <1>7, <1>8, <1>9, <1>10, <1>11 DEF Safe

LEMMA LinkSafe ==
  ASSUME Safe, NEW c \in Callers, LinkPreparedDeliveryApproval(c)
  PROVE  Safe'
<1> PICK d \in Deliveries : d = call[c].delivery
  BY OwnRow DEF LinkPreparedDeliveryApproval, At
<1> DEFINE row == [delivery[d] EXCEPT !.linked = TRUE]
<1>1. /\ At(c, "linking") /\ ~At(c, "idle") /\ Return(c)
      /\ UNCHANGED <<log, work, verified, approval, request>>
  BY DEF LinkPreparedDeliveryApproval, At
<1>2. /\ delivery \in [Deliveries -> DeliveryRows] /\ delivery[d] \in DeliveryRows
      /\ call \in [Callers -> CallStates]
      /\ request \in [Deciders -> RequestStates]
  BY Typed DEF Safe
<1>3. /\ delivery[d].status = "prepared"
      /\ d \notin EarlyDecisions => approval[d] = "pending"
  BY <1>1 DEF Safe, CallsFit, Knows
<1>4. /\ row \in DeliveryRows /\ row.status = "prepared" /\ row.linked
      /\ Keeps(delivery[d], row) /\ delivery' = [delivery EXCEPT ![d] = row]
  BY <1>2, <1>3 DEF DeliveryRows, Keeps, Active, LinkPreparedDeliveryApproval
<1> HIDE DEF row
<1>5. /\ delivery' \in [Deliveries -> DeliveryRows] /\ delivery'[d] = row
      /\ \A y \in Deliveries : y # d => delivery'[y] = delivery[y]
      /\ Rows' /\ History' /\ OneActive'
  BY <1>1, <1>4, RowStep
<1>6. /\ call' \in [Callers -> CallStates] /\ call'[c].pc = "idle"
      /\ \A y \in Callers : y # c => call'[y] = call[y]
  BY <1>1, <1>2, OwnRow DEF Return
<1>7. \A y \in Callers : At(y, "idle")'
  BY <1>1, <1>6 DEF Safe, Alone, At
<1>8. TypeOK'
  BY <1>1, <1>5, <1>6, <1>7 DEF Safe, TypeOK, DeliveryRows, CallStates, At
<1>9. Alone' /\ CallsFit'
  BY <1>7 DEF Alone, CallsFit, Knows, At
<1>10. RequestsFit'
  BY <1>1, <1>4, <1>5, Typed DEF Safe, RequestsFit
<1>11. PairedDecision'
  BY <1>1, <1>3, <1>4, <1>5 DEF Safe, PairedDecision
<1> QED BY <1>5, <1>8, <1>9, <1>10, <1>11 DEF Safe

(***************************************************************************)
(* The decision.                                                           *)
(***************************************************************************)

(* The end of a request.                                                   *)
LEMMA RequestEnds ==
  ASSUME Safe, NEW o \in Deciders, request' = [request EXCEPT ![o] = NoRequest]
  PROVE  /\ request' \in [Deciders -> RequestStates]
         /\ request'[o].pc = "idle"
         /\ \A y \in Deciders : y # o => request'[y] = request[y]
         /\ \A y \in Deciders :
              request'[y].pc # "idle" => request'[y].delivery \in Deliveries
<1>1. NoRequest \in RequestStates /\ NoRequest.pc = "idle"
  BY DEF NoRequest, RequestStates
<1>2. /\ request \in [Deciders -> RequestStates]
      /\ \A y \in Deciders :
           request[y].pc # "idle" => request[y].delivery \in Deliveries
  BY Typed DEF Safe
<1> QED BY <1>1, <1>2

LEMMA DecidePairedSafe ==
  ASSUME Safe, NEW o \in Deciders, DecidePaired(o)
  PROVE  Safe'
<1>1. /\ request[o].pc = "deciding" /\ request[o].paired
      /\ request' = [request EXCEPT ![o] = NoRequest]
      /\ UNCHANGED <<log, work, verified, call>>
  BY DEF DecidePaired
<1>2. /\ request \in [Deciders -> RequestStates] /\ request[o] \in RequestStates
      /\ request[o].delivery \in Deliveries
      /\ delivery \in [Deliveries -> DeliveryRows]
      /\ approval \in [Deliveries -> ApprovalStatuses]
  BY <1>1, Typed DEF Safe
<1> PICK d \in Deliveries, answer \in {"approved", "rejected"} :
      d = request[o].delivery /\ answer = request[o].answer
  BY <1>2 DEF RequestStates
<1>3. delivery[d].linked /\ delivery[d] \in DeliveryRows
  BY <1>1, <1>2 DEF Safe, RequestsFit
<1>4. /\ request' \in [Deciders -> RequestStates]
      /\ request'[o].pc = "idle"
      /\ \A y \in Deciders : y # o => request'[y] = request[y]
      /\ \A y \in Deciders :
           request'[y].pc # "idle" => request'[y].delivery \in Deliveries
  BY <1>1, RequestEnds
<1>5. CASE Undecided(d)
  <2> DEFINE row == [delivery[d] EXCEPT !.status = answer]
  <2>1. delivery[d].status = "prepared"
    BY <1>5 DEF Undecided
  <2>2. /\ row \in DeliveryRows /\ row.status = answer /\ row.linked
        /\ Keeps(delivery[d], row) /\ delivery' = [delivery EXCEPT ![d] = row]
        /\ approval' = [approval EXCEPT ![d] = answer]
    BY <1>2, <1>3, <1>5, <2>1
       DEF DeliveryRows, DeliveryStatuses, Keeps, Active, DecidePaired
  <2> HIDE DEF row
  <2>3. /\ delivery' \in [Deliveries -> DeliveryRows] /\ delivery'[d] = row
        /\ \A y \in Deliveries : y # d => delivery'[y] = delivery[y]
        /\ Rows' /\ History' /\ OneActive'
    BY <1>1, <2>2, RowStep
  <2>4. /\ approval' \in [Deliveries -> ApprovalStatuses]
        /\ approval'[d] = answer
        /\ \A y \in Deliveries : y # d => approval'[y] = approval[y]
    BY <1>2, <2>2 DEF ApprovalStatuses
  <2>5. TypeOK'
    BY <1>1, <1>4, <2>3, <2>4 DEF Safe, TypeOK, DeliveryRows, RequestStates
  <2>6. Alone'
    BY <1>1 DEF Safe, Alone, At
  <2>7. CallsFit'
    <3> SUFFICES ASSUME NEW c \in Callers PROVE Knows(c)'
      BY DEF CallsFit
    <3>1. Knows(c) /\ call[c]' = call[c]
      BY <1>1 DEF Safe, CallsFit
    <3>2. CASE At(c, "idle")
      BY <3>1, <3>2 DEF Knows, At
    <3>3. CASE ~At(c, "idle") /\ call[c].delivery = d
      BY <1>3, <2>1, <3>1, <3>3 DEF Knows, At
    <3>4. CASE ~At(c, "idle") /\ call[c].delivery # d
      <4>1. call[c].delivery \in Deliveries
        BY <3>4, OwnRow
      <4> QED BY <1>1, <2>3, <2>4, <3>1, <3>4, <4>1 DEF Knows, At, StagedTree
    <3> QED BY <3>2, <3>3, <3>4
  <2>8. RequestsFit'
    BY <1>4, <2>2, <2>3, Typed DEF Safe, RequestsFit
  <2>9. PairedDecision'
    BY <2>2, <2>3, <2>4 DEF Safe, PairedDecision
  <2> QED BY <2>3, <2>5, <2>6, <2>7, <2>8, <2>9 DEF Safe
<1>6. CASE ~Undecided(d)
  <2>1. UNCHANGED <<delivery, approval>>
    BY <1>6 DEF DecidePaired
  <2>2. TypeOK'
    BY <1>1, <1>4, <2>1 DEF Safe, TypeOK, RequestStates
  <2>3. RequestsFit'
    BY <1>4, <2>1 DEF Safe, RequestsFit
  <2>4. Alone' /\ Rows' /\ History' /\ OneActive' /\ CallsFit' /\ PairedDecision'
    BY <1>1, <2>1 DEF Safe, Alone, At, Rows, History, Made, OneActive, CallsFit,
                      Knows, StagedTree, PairedDecision
  <2> QED BY <2>2, <2>3, <2>4 DEF Safe
<1> QED BY <1>5, <1>6

LEMMA DecideGenericSafe ==
  ASSUME Safe, NEW o \in Deciders, DecideGeneric(o)
  PROVE  Safe'
<1>1. /\ request[o].pc = "deciding" /\ ~request[o].paired
      /\ approval' = [approval EXCEPT ![request[o].delivery] = request[o].answer]
      /\ request' = [request EXCEPT ![o] = NoRequest]
      /\ UNCHANGED <<log, work, verified, delivery, call>>
  BY DEF DecideGeneric
<1>2. /\ request[o].answer \in {"approved", "rejected"}
      /\ request[o].delivery \in EarlyDecisions
      /\ approval \in [Deliveries -> ApprovalStatuses]
  BY <1>1, Typed DEF Safe, RequestsFit, RequestStates
<1>3. /\ approval' \in [Deliveries -> ApprovalStatuses]
      /\ \A y \in Deliveries \ EarlyDecisions : approval'[y] = approval[y]
  BY <1>1, <1>2 DEF ApprovalStatuses
<1>4. /\ request' \in [Deciders -> RequestStates]
      /\ request'[o].pc = "idle"
      /\ \A y \in Deciders : y # o => request'[y] = request[y]
      /\ \A y \in Deciders :
           request'[y].pc # "idle" => request'[y].delivery \in Deliveries
  BY <1>1, RequestEnds
<1>5. TypeOK'
  BY <1>1, <1>3, <1>4 DEF Safe, TypeOK, RequestStates
<1>6. RequestsFit'
  BY <1>1, <1>4 DEF Safe, RequestsFit
<1>7. CallsFit'
  <2> SUFFICES ASSUME NEW c \in Callers PROVE Knows(c)'
    BY DEF CallsFit
  <2>1. Knows(c) /\ call[c]' = call[c]
    BY <1>1 DEF Safe, CallsFit
  <2>2. ~At(c, "idle") => call[c].delivery \in Deliveries
    BY OwnRow
  <2> QED BY <1>1, <1>3, <2>1, <2>2 DEF Knows, At, StagedTree
<1>8. Alone' /\ Rows' /\ History' /\ OneActive'
  BY <1>1 DEF Safe, Alone, At, Rows, History, Made, OneActive
<1>9. PairedDecision'
  BY <1>1, <1>3 DEF Safe, PairedDecision
<1> QED BY <1>5, <1>6, <1>7, <1>8, <1>9 DEF Safe

(***************************************************************************)
(* The commit.                                                             *)
(***************************************************************************)

LEMMA GitCommitSafe ==
  ASSUME Safe, NEW c \in Callers, NEW label \in {"finishing", "failing"},
         GitCommit(c, label)
  PROVE  Safe'
<1> PICK d \in Deliveries : d = call[c].delivery
  BY OwnRow DEF GitCommit, At
<1> DEFINE entry == [tree |-> StagedTree(delivery[d].base, delivery[d].manifest),
                     delivery |-> d, message |-> Message[delivery[d].task]]
<1>1. /\ At(c, "committing") /\ ~At(c, "idle")
      /\ log' = Append(log, entry)
      /\ UNCHANGED <<work, verified, delivery, approval, request>>
  BY DEF GitCommit, At
<1>2. /\ log \in Seq(Commits) /\ Len(log) \in Nat /\ Len(log) >= 1
      /\ delivery[d] \in DeliveryRows
      /\ call \in [Callers -> CallStates] /\ call[c] \in CallStates
  BY Typed, HeadTyped DEF Safe
<1>3. /\ delivery[d].status = "committing" /\ delivery[d].base = Len(log)
      /\ StagedTree(delivery[d].base, delivery[d].manifest) = delivery[d].evidence
  BY <1>1 DEF Safe, CallsFit, Knows
<1>4. delivery[d].task \in Tasks
  BY <1>3 DEF Safe, Rows
<1>5. /\ entry \in Commits /\ entry.delivery = d
      /\ entry.tree = delivery[d].evidence
      /\ entry.message = Message[delivery[d].task]
  BY <1>2, <1>3, <1>4 DEF Commits, DeliveryRows
<1> HIDE DEF entry
<1>6. /\ log' \in Seq(Commits) /\ Len(log') = Len(log) + 1
      /\ log'[Len(log) + 1] = entry
      /\ \A i \in 1 .. Len(log) : log'[i] = log[i]
  BY <1>1, <1>2, <1>5
<1>7. /\ call' \in [Callers -> CallStates] /\ call'[c].pc = label
      /\ call'[c].delivery = d
      /\ \A y \in Callers : y # c => call'[y] = call[y]
  BY <1>2 DEF GitCommit, Goto, CallStates, CallPC
<1>8. \A y \in Callers : y # c => At(y, "idle")
  BY <1>1 DEF Safe, Alone
<1>9. TypeOK'
  <2>1. \A y \in Callers : ~At(y, "idle")' => call'[y].delivery \in Deliveries
    BY <1>7, <1>8 DEF At
  <2>2. log' # <<>>
    BY <1>2, <1>6
  <2> QED BY <1>1, <1>6, <1>7, <2>1, <2>2 DEF Safe, TypeOK, Commits, CallStates, At
<1>10. Alone'
  BY <1>7, <1>8 DEF Alone, At
<1>11. Rows'
  <2> SUFFICES ASSUME NEW x \in Deliveries
               PROVE  /\ delivery[x].status = "absent" => ~delivery[x].linked
                      /\ delivery[x].status # "absent" =>
                           /\ delivery[x].task \in Tasks
                           /\ delivery[x].base \in 1 .. Len(log')
                           /\ Describes(delivery[x].manifest,
                                        log'[delivery[x].base].tree,
                                        delivery[x].evidence)
    BY <1>1 DEF Rows
  <2> QED BY <1>2, <1>6 DEF Safe, Rows
<1>12. History'
  <2> SUFFICES ASSUME NEW i \in 1 .. Len(log')
               PROVE  IF log'[i].delivery = None THEN i = 1
                      ELSE Made(i, log[i].delivery)'
    BY DEF History
  <2>1. CASE i = Len(log) + 1
    BY <1>1, <1>3, <1>5, <1>6, <2>1, PreparedDeliveryAssumption DEF Made
  <2>2. CASE i \in 1 .. Len(log)
    BY <1>1, <1>6, <2>2 DEF Safe, History, Made
  <2> QED BY <1>2, <1>6, <2>1, <2>2
<1>13. OneActive'
  <2> SUFFICES ASSUME NEW a \in Deliveries, NEW x \in Deliveries, x # a,
                      delivery[a].status \in Active,
                      delivery[x].task = delivery[a].task
               PROVE  /\ delivery[x].status \notin Active
                      /\ \A i \in 1 .. Len(log') :
                            log'[i].delivery = x => i <= delivery[a].base
    BY <1>1 DEF OneActive
  <2>1. /\ delivery[x].status \notin Active
        /\ \A i \in 1 .. Len(log) :
              log[i].delivery = x => i <= delivery[a].base
    BY DEF Safe, OneActive
  <2>2. x # d
    BY <1>3, <2>1 DEF Active
  <2> QED BY <1>2, <1>5, <1>6, <2>1, <2>2
<1>14. CallsFit'
  <2>1. \A y \in Callers : y # c => Knows(y)'
    BY <1>7, <1>8 DEF Knows, At
  <2>2. Knows(c)'
    BY <1>1, <1>3, <1>5, <1>6, <1>7 DEF Knows, At
  <2> QED BY <2>1, <2>2 DEF CallsFit
<1>15. RequestsFit' /\ PairedDecision'
  BY <1>1 DEF Safe, RequestsFit, PairedDecision
<1> QED BY <1>9, <1>10, <1>11, <1>12, <1>13, <1>14, <1>15 DEF Safe

(***************************************************************************)
(* The theorems.                                                           *)
(***************************************************************************)

(* One commit, and no delivery.                                            *)
LEMMA InitSafe ==
  Init => Safe
<1> SUFFICES ASSUME Init PROVE Safe
  OBVIOUS
<1>1. /\ Absent \in DeliveryRows /\ Absent.status = "absent" /\ ~Absent.linked
      /\ NoCall \in CallStates /\ NoCall.pc = "idle"
      /\ NoRequest \in RequestStates /\ NoRequest.pc = "idle"
  BY PreparedDeliveryAssumption
     DEF Absent, NoSha, NoCall, NoRequest, DeliveryRows, DeliveryStatuses, CallStates,
         CallPC, RequestStates
<1>2. /\ \A d \in Deliveries : delivery[d] = Absent
      /\ \A c \in Callers : call[c].pc = "idle"
      /\ \A o \in Deciders : request[o].pc = "idle"
  BY <1>1 DEF Init
<1>3. /\ log \in Seq(Commits) /\ Len(log) = 1 /\ log # <<>>
      /\ log[1].delivery = None
  BY PreparedDeliveryAssumption DEF Init, Commits
<1>4. TypeOK
  <2>1. delivery \in [Deliveries -> DeliveryRows]
    BY <1>1 DEF Init
  <2>2. call \in [Callers -> CallStates] /\ request \in [Deciders -> RequestStates]
    BY <1>1 DEF Init
  <2>3. /\ work \in Tree /\ verified \in [Tasks -> Tree \cup {None}]
        /\ approval \in [Deliveries -> ApprovalStatuses]
    BY PreparedDeliveryAssumption DEF Init, ApprovalStatuses
  <2> QED BY <1>2, <1>3, <2>1, <2>2, <2>3, Typed DEF At
<1>5. Alone /\ CallsFit /\ RequestsFit
  BY <1>2 DEF Alone, CallsFit, RequestsFit, Knows, At
<1>6. Rows /\ OneActive /\ PairedDecision
  BY <1>1, <1>2 DEF Rows, OneActive, PairedDecision, Active
<1>7. History
  BY <1>3 DEF History
<1> QED BY <1>4, <1>5, <1>6, <1>7 DEF Safe

LEMMA SafeStep ==
  Safe /\ [Next]_vars => Safe'
<1> SUFFICES ASSUME Safe, [Next]_vars PROVE Safe'
  OBVIOUS
<1>1. CASE Workspace
  BY <1>1, WorkspaceSafe
<1>2. ASSUME NEW c \in Callers, Prepare(c)
      PROVE  Safe'
  BY <1>2, CreateSafe, CreateApprovalSafe, LinkSafe DEF Prepare
<1>3. ASSUME NEW c \in Callers, Commit(c)
      PROVE  Safe'
  BY <1>3, OpenSafe, CompleteDeliverySafe, ClaimSafe, LeaveSafe, GitCommitSafe
     DEF Commit
<1>4. ASSUME NEW c \in Callers, Crash(c)
      PROVE  Safe'
  BY <1>4, LeaveSafe
<1>5. ASSUME NEW o \in Deciders, Decide(o)
      PROVE  Safe'
  BY <1>5, ReadApprovalSafe, DecidePairedSafe, DecideGenericSafe DEF Decide
<1>6. CASE UNCHANGED vars
  BY <1>6 DEF vars, Safe, TypeOK, Alone, At, Rows, History, Made, OneActive,
              CallsFit, Knows, StagedTree, RequestsFit, PairedDecision
<1> QED BY <1>1, <1>2, <1>3, <1>4, <1>5, <1>6 DEF Next

(* The lock has one holder, rows describe the workspace they were prepared *)
(* from, every commit but the first is the only one of its delivery, and   *)
(* what calls and requests have read still holds.                          *)
THEOREM SafetyInvariant == Spec => []Safe
<1> QED BY InitSafe, SafeStep, PTL DEF Spec

(* CommitIsVerified: whatever edits, other deliveries, crashes and repeated *)
(* calls come between approval and commit, git_commit commits the verified *)
(* workspace, on the prepared base, once.                                  *)
THEOREM CommitsAreVerified == Spec => []CommitIsVerified
<1>1. ASSUME Safe PROVE CommitIsVerified
  <2>1. Len(log) \in Nat /\ DOMAIN log = 1 .. Len(log)
    BY <1>1, Typed DEF Safe
  <2> QED BY <1>1, <2>1, PreparedDeliveryAssumption
          DEF Safe, History, Made, CommitIsVerified, CommitsOf
<1> QED BY <1>1, SafetyInvariant, PTL

(* PairedDecision: the rows of an approval and of its delivery are decided *)
(* together or not at all, unless the decision could come before the link. *)
THEOREM DecisionIsOne == Spec => []PairedDecision
<1>1. Safe => PairedDecision
  BY DEF Safe
<1> QED BY <1>1, SafetyInvariant, PTL

(***************************************************************************)
(* The recovery.                                                           *)
(***************************************************************************)

(* What the recovery recognizes is the commit of the delivery itself or of *)
(* another task with the same message: a commit of another delivery of its *)
(* own task lies before its base.                                          *)
LEMMA RecognizedIsOwn ==
  ASSUME Safe, NEW d \in Deliveries, Recognized(d),
         delivery[d].status = "committing"
  PROVE  /\ HEAD = delivery[d].base + 1 /\ HEAD \in DOMAIN log
         /\ log[HEAD].delivery \in
              {d} \cup {x \in Deliveries : ShareMessage(d, x)}
<1>1. /\ log \in Seq(Commits) /\ Len(log) \in Nat /\ Len(log) >= 1
      /\ DOMAIN log = 1 .. Len(log)
  BY Typed, HeadTyped DEF Safe
<1>2. /\ Len(log) = delivery[d].base + 1
      /\ log[Len(log)].message = Message[delivery[d].task]
  BY DEF Recognized, HEAD
<1>3. delivery[d].task \in Tasks /\ delivery[d].base \in 1 .. Len(log)
  BY DEF Safe, Rows
<1>4. log[Len(log)] \in Commits
  BY <1>1
<1> PICK x : x = log[Len(log)].delivery
  OBVIOUS
<1>5. x \in Deliveries /\ Made(Len(log), x) /\ delivery[x].task \in Tasks
  <2>1. x # None
    BY <1>1, <1>2, <1>3 DEF Safe, History
  <2>2. x \in Deliveries /\ Made(Len(log), x)
    BY <1>1, <1>4, <2>1 DEF Safe, History, Commits
  <2> QED BY <2>2 DEF Made, Safe, Rows
<1>6. CASE delivery[x].task = delivery[d].task
  <2>1. x = d
    BY <1>1, <1>2, <1>3, <1>5, <1>6 DEF Safe, OneActive, Active
  <2> QED BY <1>1, <1>2, <2>1 DEF HEAD
<1>7. CASE delivery[x].task # delivery[d].task
  <2>1. ShareMessage(d, x)
    BY <1>2, <1>5, <1>7 DEF ShareMessage, Made
  <2> QED BY <1>1, <1>2, <1>5, <2>1 DEF HEAD
<1> QED BY <1>6, <1>7

(* A row that exists keeps its task and its base.                          *)
LEMMA RowFrozen ==
  ASSUME Safe, [Next]_vars, NEW d \in Deliveries, delivery[d].status # "absent"
  PROVE  delivery'[d].task = delivery[d].task /\ delivery'[d].base = delivery[d].base
<1>1. delivery \in [Deliveries -> DeliveryRows]
  BY Typed DEF Safe
<1>2. CASE Workspace \/ UNCHANGED vars \/ \E c \in Callers : Crash(c)
  BY <1>2 DEF Workspace, WriteFile, Verify, Crash, vars
<1>3. ASSUME NEW c \in Callers, Prepare(c)
      PROVE  delivery'[d].task = delivery[d].task /\ delivery'[d].base = delivery[d].base
  <2>1. CASE LinkPreparedDeliveryApproval(c)
    <3>1. \E x : delivery' = [delivery EXCEPT ![x].linked = TRUE]
      BY <2>1 DEF LinkPreparedDeliveryApproval
    <3> QED BY <1>1, <3>1 DEF DeliveryRows
  <2>2. CASE CreateApproval(c)
    BY <2>2 DEF CreateApproval
  <2>3. CASE \E t \in Tasks, x \in Deliveries : CreatePreparedDelivery(c, t, x)
    BY <1>1, <2>3 DEF CreatePreparedDelivery
  <2> QED BY <1>3, <2>1, <2>2, <2>3 DEF Prepare
<1>4. ASSUME NEW c \in Callers, Commit(c)
      PROVE  delivery'[d].task = delivery[d].task /\ delivery'[d].base = delivery[d].base
  <2>1. \/ UNCHANGED delivery
        \/ \E x, status : delivery' = [delivery EXCEPT ![x].status = status]
        \/ \E x, status, sha :
             delivery' = [delivery EXCEPT ![x].status = status, ![x].sha = sha]
    BY <1>4 DEF Commit, OpenDelivery, RecoverCommittedDelivery, ClaimDelivery,
       RefuseDelivery, GitCommit, GitFails, CompleteDelivery, FailDelivery
  <2>2. ASSUME NEW x, NEW status,
               delivery' = [delivery EXCEPT ![x].status = status]
        PROVE  delivery'[d].task = delivery[d].task /\ delivery'[d].base = delivery[d].base
    BY <1>1, <2>2 DEF DeliveryRows
  <2>3. ASSUME NEW x, NEW status, NEW sha,
               delivery' = [delivery EXCEPT ![x].status = status, ![x].sha = sha]
        PROVE  delivery'[d].task = delivery[d].task /\ delivery'[d].base = delivery[d].base
    <3>1. delivery[d] \in DeliveryRows
      BY <1>1
    <3>2. CASE x = d
      <4>1. delivery'[d] = [delivery[d] EXCEPT !.status = status, !.sha = sha]
        BY <1>1, <2>3, <3>2
      <4> QED BY <3>1, <4>1 DEF DeliveryRows
    <3>3. CASE x # d
      <4>1. delivery'[d] = delivery[d]
        BY <1>1, <2>3, <3>3
      <4> QED BY <4>1
    <3> QED BY <3>2, <3>3
  <2> QED BY <2>1, <2>2, <2>3
<1>5. ASSUME NEW o \in Deciders, Decide(o)
      PROVE  delivery'[d].task = delivery[d].task /\ delivery'[d].base = delivery[d].base
  BY <1>1, <1>5 DEF Decide, ReadApproval, DecidePaired, DecideGeneric, DeliveryRows
<1> QED BY <1>2, <1>3, <1>4, <1>5 DEF Next

(* The history only grows.                                                 *)
LEMMA HistoryGrows ==
  ASSUME Safe, [Next]_vars
  PROVE  \A i \in DOMAIN log : i \in DOMAIN log' /\ log'[i] = log[i]
<1>1. log \in Seq(Commits)
  BY Typed DEF Safe
<1>2. CASE log' = log
  BY <1>2
<1>3. CASE log' # log
  <2>1. PICK entry : log' = Append(log, entry)
    BY <1>3 DEF Next, Workspace, WriteFile, Verify, Prepare,
       CreatePreparedDelivery, CreateApproval, LinkPreparedDeliveryApproval,
       Decide, ReadApproval, DecidePaired, DecideGeneric, Commit, OpenDelivery,
       RecoverCommittedDelivery, ClaimDelivery, RefuseDelivery, GitCommit,
       GitFails, CompleteDelivery, FailDelivery, Crash, vars
  <2> QED BY <1>1, <2>1
<1> QED BY <1>2, <1>3

(* The body of CommitRecorded for one delivery.                            *)
Recorded(d) ==
  /\ delivery[d].base + 1 \in DOMAIN log
  /\ delivery[d].sha \in {delivery[d].base + 1, NoSha}
  /\ log[delivery[d].base + 1].delivery \in
       {d} \cup {x \in Deliveries : ShareMessage(d, x)}

(* The commit on the base of a row stays what it is, and so do the task    *)
(* and the message of the delivery that made it.                           *)
LEMMA RecordedKept ==
  ASSUME Safe, [Next]_vars, NEW d \in Deliveries, delivery[d].status # "absent",
         delivery[d].base + 1 \in DOMAIN log,
         log[delivery[d].base + 1].delivery \in
           {d} \cup {x \in Deliveries : ShareMessage(d, x)},
         delivery'[d].sha \in {delivery[d].base + 1, NoSha}
  PROVE  Recorded(d)'
<1> PICK i, x : i = delivery[d].base + 1 /\ x = log[i].delivery
  OBVIOUS
<1>1. i \in DOMAIN log' /\ log'[i] = log[i] /\ delivery'[d].base + 1 = i
      /\ delivery'[d].task = delivery[d].task
  BY HistoryGrows, RowFrozen
<1>2. CASE x = d
  BY <1>1, <1>2 DEF Recorded
<1>3. CASE x \in Deliveries /\ ShareMessage(d, x)
  <2>1. delivery[x].status # "absent"
    <3>1. i \in 1 .. Len(log) /\ log[i].delivery # None
      BY <1>3, PreparedDeliveryAssumption, Typed DEF Safe
    <3> QED BY <3>1 DEF Safe, History, Made
  <2>2. delivery'[x].task = delivery[x].task
    BY <1>3, <2>1, RowFrozen
  <2>3. ShareMessage(d, x)'
    BY <1>1, <1>3, <2>2 DEF ShareMessage
  <2> QED BY <1>1, <1>3, <2>3 DEF Recorded
<1> QED BY <1>2, <1>3

LEMMA RecordedStep ==
  ASSUME Safe, CommitRecorded, [Next]_vars
  PROVE  CommitRecorded'
<1> SUFFICES ASSUME NEW d \in Deliveries, delivery'[d].status = "committed"
             PROVE  Recorded(d)'
  BY DEF CommitRecorded, Recorded
<1>2. delivery \in [Deliveries -> DeliveryRows]
  BY Typed DEF Safe
<1>3. CASE delivery[d].status = "committed" /\ delivery'[d].sha = delivery[d].sha
  BY <1>3, RecordedKept DEF CommitRecorded
<1>4. CASE \E c \in Callers : RecoverCommittedDelivery(c)
                              /\ delivery'[d] # delivery[d]
  <2> PICK c \in Callers : RecoverCommittedDelivery(c) /\ delivery'[d] # delivery[d]
    BY <1>4
  <2>1. /\ call[c].delivery = d /\ Recognized(d)
        /\ delivery[d].status = "committing" /\ delivery'[d].sha = HEAD
    BY <1>2 DEF RecoverCommittedDelivery, DeliveryRows
  <2> QED BY <2>1, RecognizedIsOwn, RecordedKept
<1>5. CASE \E c \in Callers, sha \in {HEAD, NoSha} :
             CompleteDelivery(c, sha) /\ delivery'[d] # delivery[d]
  <2> PICK c \in Callers, sha \in {HEAD, NoSha} :
             CompleteDelivery(c, sha) /\ delivery'[d] # delivery[d]
    BY <1>5
  <2>1. /\ call[c].delivery = d /\ At(c, "finishing")
        /\ delivery'[d].sha \in {HEAD, NoSha} /\ delivery[d].status = "committing"
    BY <1>2 DEF CompleteDelivery, DeliveryRows
  <2>2. log[Len(log)].delivery = d /\ Len(log) \in 1 .. Len(log)
        /\ DOMAIN log = 1 .. Len(log)
    BY <2>1, HeadTyped, Typed DEF Safe, CallsFit, Knows
  <2>3. Len(log) = delivery[d].base + 1
    BY <2>2, PreparedDeliveryAssumption DEF Safe, History, Made
  <2> QED BY <2>1, <2>2, <2>3, RecordedKept DEF HEAD
<1>6. CASE /\ ~(delivery[d].status = "committed" /\ delivery'[d].sha = delivery[d].sha)
           /\ \A c \in Callers, sha \in {HEAD, NoSha} :
                ~RecoverCommittedDelivery(c) /\ ~CompleteDelivery(c, sha)
  <2>1. \A o \in Deciders : request[o].pc = "deciding"
                              => request[o].answer \in {"approved", "rejected"}
    BY Typed DEF Safe, RequestStates
  <2>3. delivery'[d] # delivery[d]
    BY <1>6
  <2>4. ASSUME NEW c \in Callers, Prepare(c) \/ Commit(c) \/ Crash(c)
        PROVE  delivery'[d].status # "committed"
    <3>1. CASE LinkPreparedDeliveryApproval(c)
      <4>1. call[c].delivery = d /\ delivery'[d].status = delivery[d].status
        BY <1>2, <2>3, <3>1 DEF LinkPreparedDeliveryApproval, DeliveryRows
      <4> QED BY <3>1, <4>1 DEF Safe, CallsFit, Knows, LinkPreparedDeliveryApproval
    <3>2. CASE Prepare(c) /\ ~LinkPreparedDeliveryApproval(c)
      BY <1>2, <2>3, <3>2
         DEF Prepare, CreatePreparedDelivery, CreateApproval, Absent
    <3>3. CASE Commit(c) \/ Crash(c)
      BY <1>2, <1>6, <2>3, <3>3
         DEF Commit, OpenDelivery, ClaimDelivery, RefuseDelivery, GitCommit,
             GitFails, FailDelivery, Crash, DeliveryRows
    <3> QED BY <2>4, <3>1, <3>2, <3>3
  <2>5. ASSUME NEW o \in Deciders, Decide(o)
        PROVE  delivery'[d].status # "committed"
    BY <1>2, <2>1, <2>3, <2>5
       DEF Decide, ReadApproval, DecidePaired, DecideGeneric, DeliveryRows
  <2>6. ~Workspace /\ ~UNCHANGED vars
    BY <2>3 DEF Workspace, WriteFile, Verify, vars
  <2> QED BY <2>4, <2>5, <2>6 DEF Next
<1>7. delivery'[d] = delivery[d] => delivery[d].status = "committed"
  OBVIOUS
<1> QED BY <1>3, <1>4, <1>5, <1>6, <1>7

(* CommitRecorded: also when a later call finishes the work of a dead      *)
(* process, a committed delivery has its commit on its base and names no   *)
(* other; at worst it takes that of a task with the same message for its   *)
(* own.                                                                    *)
THEOREM CommitsAreRecorded == Spec => []CommitRecorded
<1>1. Init => CommitRecorded
  BY DEF Init, CommitRecorded, Absent
<1>2. Safe /\ CommitRecorded /\ [Next]_vars => CommitRecorded'
  BY RecordedStep
<1> QED BY <1>1, <1>2, SafetyInvariant, PTL DEF Spec
=============================================================================
