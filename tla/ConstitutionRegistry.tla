------------------------ MODULE ConstitutionRegistry ------------------------
(***************************************************************************)
(* The Constitution registry over Postgres (db/constitutionRepo.ts): five  *)
(* operations, each a transaction that takes a connection of the pool,     *)
(* waits for the advisory lock 74740, checks, inserts governance events    *)
(* and moves the runtime state, and an insertion without a lock for the    *)
(* payload.  Clients run at once; a transaction may lose its connection at *)
(* any step, and a call that has committed reads the state back on a       *)
(* second connection while it still holds the first.                       *)
(***************************************************************************)
EXTENDS Naturals, Sequences, FiniteSets, SequencesExt

CONSTANTS Clients,     \* processes that call the registry
          Owners,      \* those that act as the owner; the others as the system
          NoClient,    \* nobody
          Hashes,      \* the identities of payloads
          NoHash,      \* null
          Ratified,    \* payloads confirmed and ready when the run starts
          Digests,     \* distinguishable enforcement evidence
          PoolSize,    \* connections of the pool
          Uses,        \* bound: the operations each client calls
          MaxCalls,    \* bound: calls made
          MaxFaults    \* bound: connections lost

ASSUME ConstitutionAssumption ==
    /\ IsFiniteSet(Clients)
    /\ Owners \subseteq Clients
    /\ IsFiniteSet(Hashes) /\ Ratified \subseteq Hashes /\ Digests # {}
    /\ NoHash \notin Hashes /\ NoClient \notin Clients
    /\ PoolSize \in Nat \ {0}
    /\ MaxCalls \in Nat /\ MaxFaults \in Nat

VARIABLES
    versions,   \* constitution_versions: the recorded payloads
    events,     \* constitution_governance_events, in event_id order
    evidence,   \* constitution_enforcement_evidence, in the order recorded
    state,      \* the constitution_runtime_state singleton
    lock,       \* the client that holds the advisory lock, or none
    pool,       \* free connections
    call,       \* the call of each client; seen is history: the activation
                \* event behind the state the owner has read
    made,       \* calls made so far
    faults      \* connections lost so far

vars == <<versions, events, evidence, state, lock, pool, call, made, faults>>

Confirmed == "SYSTEM_RATIFICATION_CONFIRMED"
ReadyRecorded == "ENFORCEMENT_READY_RECORDED"
Superseded == "SUPERSEDED"
Revoked == "SECURITY_REVOKED"
Activations == {"ACTIVATED", "ROLLED_BACK_TO_VERSION"}
EventTypes == {Confirmed, ReadyRecorded, Superseded, Revoked} \cup Activations

(* The operations, and the actor type each insists on before it connects.  *)
OwnerOps == Activations \cup {Confirmed, Revoked}
SystemOps == {ReadyRecorded, Revoked}
Ops == OwnerOps \cup SystemOps
Permitted(c) == IF c \in Owners THEN OwnerOps ELSE SystemOps

Idle == [op |-> "none", hash |-> NoHash, digest |-> NoHash, proof |-> 0,
         expected |-> NoHash, seen |-> 0, pc |-> "idle"]

Event(type, hash, prev, next, proof, after) ==
    [type |-> type, hash |-> hash, prev |-> prev, next |-> next,
     evidence |-> proof, before |-> after[1], after |-> after[2]]

(* The payloads ratified before: all confirmed, then each ready with the    *)
(* row of evidence of its own.                                              *)
RatifiedRows == SetToSeq(Ratified)

History ==
    LET n == Len(RatifiedRows) IN
    [i \in 1 .. n + n |->
        IF i <= n THEN Event(Confirmed, RatifiedRows[i], NoHash, NoHash, 0, <<0, 0>>)
        ELSE Event(ReadyRecorded, RatifiedRows[i - n], NoHash, NoHash, i - n, <<0, 0>>)]

Init ==
    /\ versions = Ratified
    /\ events = History
    /\ evidence = [i \in DOMAIN RatifiedRows |->
                     [hash |-> RatifiedRows[i], digest |-> CHOOSE d \in Digests : TRUE]]
    /\ state = [active |-> NoHash, activation |-> 0, epoch |-> 0]
    /\ lock = NoClient
    /\ pool = PoolSize
    /\ call = [c \in Clients |-> Idle]
    /\ made = 0
    /\ faults = 0

---------------------------------------------------------------------------
(* Reads of the committed tables.                                          *)

IsConfirmed(h) == \E i \in DOMAIN events :
                     events[i].type = Confirmed /\ events[i].hash = h
IsReady(h) == \E i \in DOMAIN evidence : evidence[i].hash = h

(***************************************************************************)
(* bootstrapRecordVersion: one insertion, `on conflict do nothing', with   *)
(* neither transaction nor lock.                                           *)
(***************************************************************************)
BootstrapRecordVersion(h) ==
    /\ versions' = versions \cup {h}
    /\ UNCHANGED <<events, evidence, state, lock, pool, call, made, faults>>

Proceed(c, step) == call' = [call EXCEPT ![c].pc = step]
(* A call that has thrown keeps its arguments, for a repetition.            *)
Return(c) == call' = [call EXCEPT ![c] = Idle]
Throw(c) == Proceed(c, "threw")
Outside(c) == call[c].pc \in {"idle", "threw"}

(* pool.connect(): a free connection, or a place in the queue for one.      *)
Ask == IF pool > 0 THEN pool' = pool - 1 ELSE UNCHANGED pool
Asked == IF pool > 0 THEN "lock" ELSE "connect"

(***************************************************************************)
(* An owner reads the runtime state (getRuntimeState) and calls with what   *)
(* they saw.  An activation names a row of evidence, which may be that of   *)
(* another payload or missing.                                              *)
(***************************************************************************)
Begin(c) ==
    /\ Outside(c) /\ made < MaxCalls
    /\ \E op \in Permitted(c) \cap Uses[c], h \in Hashes, d \in Digests, n \in 0 .. Len(evidence) :
          /\ op # ReadyRecorded => d = CHOOSE x \in Digests : TRUE
          /\ op \notin Activations => n = 0
          /\ op = Revoked => h = CHOOSE x \in Hashes : TRUE
          /\ call' = [call EXCEPT ![c] =
                [op |-> op, hash |-> h, digest |-> d, proof |-> n,
                 expected |-> IF op \in Activations THEN state.active ELSE NoHash,
                 seen |-> IF op \in Activations THEN state.activation ELSE 0,
                 pc |-> Asked]]
    /\ Ask
    /\ made' = made + 1
    /\ UNCHANGED <<versions, events, evidence, state, lock, faults>>

(* The caller repeats a call that threw, with the same arguments.           *)
Retry(c) ==
    /\ call[c].pc = "threw" /\ made < MaxCalls
    /\ Proceed(c, Asked)
    /\ Ask
    /\ made' = made + 1
    /\ UNCHANGED <<versions, events, evidence, state, lock, faults>>

Connect(c) ==
    /\ call[c].pc = "connect" /\ pool > 0
    /\ pool' = pool - 1
    /\ Proceed(c, "lock")
    /\ UNCHANGED <<versions, events, evidence, state, lock, made, faults>>

(* connectionTimeoutMillis: an empty pool refuses after a while.            *)
ConnectTimesOut(c) ==
    /\ call[c].pc = "connect" /\ pool = 0
    /\ Throw(c)
    /\ UNCHANGED <<versions, events, evidence, state, lock, pool, made, faults>>

LockFree == lock = NoClient

(* Mutant: a lock of the session, which a transaction does not give back.   *)
HeldOn(c) == lock

(* rollback, release of the lock with the transaction, and of the client.   *)
Released(c) == IF lock = c THEN NoClient ELSE lock

Rollback(c) ==
    /\ lock' = Released(c)
    /\ pool' = pool + 1
    /\ UNCHANGED <<versions, events, evidence, state, made>>

---------------------------------------------------------------------------
(* The checks, in the order of the code.                                    *)

(* Mutant: the pointer is not compared.                                     *)
AnyExpected(c) == TRUE

ExpectedHolds(c) == state.active = call[c].expected

AlreadyRecorded(c) ==
    \E i \in DOMAIN evidence : /\ evidence[i].hash = call[c].hash
                               /\ evidence[i].digest = call[c].digest

BoundToEvidence(c) ==
    state.activation > 0 /\ events[state.activation].evidence = call[c].proof

(* Mutant: evidence of any payload will do.                                 *)
EvidenceOfAny(c) == IF call[c].proof = 0 THEN "no_enforcement_evidence" ELSE "pass"

EvidenceOutcome(c) ==
    CASE call[c].proof = 0 -> "no_enforcement_evidence"
      [] call[c].proof > 0 /\ evidence[call[c].proof].hash # call[c].hash ->
            "evidence_mismatch"
      [] OTHER -> "pass"

ActivationOutcome(c) ==
    CASE ~IsConfirmed(call[c].hash) -> "not_confirmed"
      [] EvidenceOutcome(c) # "pass" -> EvidenceOutcome(c)
      [] state.active = call[c].hash ->
            IF BoundToEvidence(c) THEN "already_active" ELSE "conflict"
      [] ~ExpectedHolds(c) -> "expected_active_mismatch"
      [] OTHER -> "pass"

(* Mutant: evidence is recorded for a payload nobody has confirmed.         *)
ReadyUnconfirmed(c) == IF AlreadyRecorded(c) THEN "already_recorded" ELSE "pass"

ReadyOutcome(c) ==
    CASE ~IsConfirmed(call[c].hash) -> "not_confirmed"
      [] IsConfirmed(call[c].hash) /\ AlreadyRecorded(c) -> "already_recorded"
      [] OTHER -> "pass"

Outcome(c) ==
    LET op == call[c].op h == call[c].hash IN
    CASE op = Revoked -> IF state.active = NoHash THEN "no_active_constitution"
                         ELSE "pass"
      [] op # Revoked /\ h \notin versions -> "version_not_found"
      [] op = Confirmed /\ h \in versions ->
            IF IsConfirmed(h) THEN "already_confirmed" ELSE "pass"
      [] op = ReadyRecorded /\ h \in versions -> ReadyOutcome(c)
      [] OTHER -> ActivationOutcome(c)

(***************************************************************************)
(* pg_advisory_xact_lock, then the reads under it: a refusal rolls back and *)
(* returns.  The lock excludes every other writer, so the reads are one     *)
(* step; the triggers of the migration repeat the same conditions.          *)
(***************************************************************************)
TakeLock(c) ==
    /\ call[c].pc = "lock" /\ LockFree
    /\ \/ /\ Outcome(c) = "pass"
          /\ lock' = c
          /\ Proceed(c, "write")
          /\ UNCHANGED <<versions, events, evidence, state, pool, made>>
       \/ Outcome(c) # "pass" /\ Return(c) /\ Rollback(c)
    /\ UNCHANGED faults

(* The events a call writes; those of a confirmation and of evidence carry  *)
(* the epoch 0, whatever the epoch is.                                      *)
NewEvents(c) ==
    LET op == call[c].op h == call[c].hash e == state.epoch IN
    CASE op = Confirmed ->
            <<Event(op, h, NoHash, NoHash, 0, <<0, 0>>)>>
      [] op = ReadyRecorded ->
            <<Event(op, h, NoHash, NoHash, Len(evidence) + 1, <<0, 0>>)>>
      [] op = Revoked ->
            <<Event(op, state.active, state.active, NoHash, 0, <<e, e + 1>>)>>
      [] OTHER ->
            (IF state.active = NoHash THEN <<>>
             ELSE <<Event(Superseded, h, state.active, h, 0, <<e, e>>)>>)
            \o <<Event(op, h, state.active, h, call[c].proof, <<e, e>>)>>

(* Mutant: a revocation leaves the epoch of the runtime state alone.        *)
StateWithoutEpoch(c) ==
    IF call[c].op \in Activations
    THEN [state EXCEPT !.active = call[c].hash,
                       !.activation = Len(events) + Len(NewEvents(c))]
    ELSE state

NewState(c) ==
    CASE call[c].op = Revoked -> [state EXCEPT !.epoch = @ + 1]
      [] call[c].op \in Activations ->
            [state EXCEPT !.active = call[c].hash,
                          !.activation = Len(events) + Len(NewEvents(c))]
      [] OTHER -> state

(***************************************************************************)
(* The migration: the foreign keys of each table, the constraints           *)
(* ct_event_epoch_consistency and ct_event_shape, and the triggers before   *)
(* an insertion or update.  Rows are inserted in the order evidence, event, *)
(* state, and each sees those before it.                                    *)
(***************************************************************************)

(* A reference that may be null.                                            *)
Refers(h) == h \in versions \cup {NoHash}

(* ct_evidence_require_confirmed.                                           *)
EvidenceAccepted(row, history) ==
    /\ row.hash \in versions
    /\ \E i \in DOMAIN history : /\ history[i].type = Confirmed
                                 /\ history[i].hash = row.hash

(* ct_events_validate.                                                      *)
EventAccepted(e, rows) ==
    /\ e.hash \in versions /\ Refers(e.prev) /\ Refers(e.next)
    /\ e.evidence # 0 => e.evidence \in DOMAIN rows /\ rows[e.evidence].hash = e.hash
    /\ e.type # Revoked => e.after = e.before
    /\ CASE e.type = Confirmed -> e.prev = NoHash /\ e.next = NoHash /\ e.evidence = 0
         [] e.type = ReadyRecorded -> e.next = NoHash /\ e.evidence # 0
         [] e.type \in Activations -> e.next = e.hash /\ e.evidence # 0
         [] e.type = Superseded -> /\ e.prev \notin {NoHash, e.next}
                                   /\ e.next = e.hash /\ e.evidence = 0
         [] e.type = Revoked -> /\ e.prev = e.hash /\ e.next = NoHash
                                /\ e.evidence = 0 /\ e.after = e.before + 1

(* ct_state_validate.                                                       *)
StateAccepted(new, history, rows) ==
    /\ Refers(new.active)
    /\ new.activation \in {0} \cup DOMAIN history
    /\ new.active = NoHash => state.active = NoHash /\ new.activation = 0
    /\ new.epoch >= state.epoch
    /\ new.active # NoHash =>
          /\ \E i \in DOMAIN history : /\ history[i].type = Confirmed
                                       /\ history[i].hash = new.active
          /\ \E i \in DOMAIN rows : rows[i].hash = new.active
          /\ new.activation # 0
          /\ history[new.activation].type \in Activations
          /\ history[new.activation].hash = new.active
          /\ history[new.activation].next = new.active
          /\ new.epoch > state.epoch =>
                \E i \in DOMAIN history : /\ history[i].type = Revoked
                                          /\ history[i].prev = new.active
                                          /\ history[i].after = new.epoch

(***************************************************************************)
(* The writes become visible together at the commit, which also gives the  *)
(* lock back.  A transition and a revocation then read the state back; the *)
(* other two operations release their connection and return.               *)
(***************************************************************************)
ReadsBack(c) == call[c].op \in Activations \cup {Revoked}

NewEvidence(c) ==
    IF call[c].op = ReadyRecorded
    THEN Append(evidence, [hash |-> call[c].hash, digest |-> call[c].digest])
    ELSE evidence

Commit(c) ==
    /\ call[c].pc = "write"
    /\ events' = events \o NewEvents(c)
    /\ evidence' = NewEvidence(c)
    /\ state' = NewState(c)
    /\ lock' = Released(c)
    /\ IF ReadsBack(c) THEN Proceed(c, "readback") /\ UNCHANGED pool
       ELSE Return(c) /\ pool' = pool + 1
    /\ UNCHANGED <<versions, made, faults>>

(* getRuntimeState while the client is still held: a second connection.     *)
ReadBack(c) ==
    /\ call[c].pc = "readback" /\ pool > 0
    /\ pool' = pool + 1
    /\ Return(c)
    /\ UNCHANGED <<versions, events, evidence, state, lock, made, faults>>

(* No second connection in time: the call throws after it has committed.    *)
ReadBackTimesOut(c) ==
    /\ call[c].pc = "readback" /\ pool = 0
    /\ pool' = pool + 1
    /\ Throw(c)
    /\ UNCHANGED <<versions, events, evidence, state, lock, made, faults>>

(* A connection is lost inside the transaction: nothing of it is kept.      *)
ConnectionLost(c) ==
    /\ call[c].pc \in {"lock", "write"}
    /\ faults < MaxFaults
    /\ faults' = faults + 1
    /\ Throw(c)
    /\ Rollback(c)

---------------------------------------------------------------------------
Step(c) == \/ Connect(c) \/ ConnectTimesOut(c) \/ TakeLock(c) \/ Commit(c)
           \/ ReadBack(c) \/ ReadBackTimesOut(c)

Next ==
    \/ \E h \in Hashes : BootstrapRecordVersion(h)
    \/ \E c \in Clients : \/ Begin(c) \/ Retry(c)
                          \/ Step(c) \/ ConnectionLost(c)

(* A statement sent is answered, a timer fires and the lock is granted in    *)
(* the order of its queue: each client's own steps are fair.                *)
Fairness == \A c \in Clients : WF_vars(Step(c))

Spec == Init /\ [][Next]_vars
FairSpec == Spec /\ Fairness

---------------------------------------------------------------------------
EventRecord ==
    [type : EventTypes, hash : Hashes, prev : Hashes \cup {NoHash},
     next : Hashes \cup {NoHash}, evidence : Nat, before : Nat, after : Nat]

CallRecord ==
    [op : Ops \cup {"none"}, hash : Hashes \cup {NoHash},
     digest : Digests \cup {NoHash}, proof : Nat,
     expected : Hashes \cup {NoHash}, seen : Nat,
     pc : {"idle", "threw", "connect", "lock", "write", "readback"}]

(* The values of the variables, and that the connections add up.            *)
TypeOK ==
    /\ versions \subseteq Hashes
    /\ events \in Seq(EventRecord)
    /\ evidence \in Seq([hash : Hashes, digest : Digests])
    /\ state \in [active : Hashes \cup {NoHash}, activation : Nat, epoch : Nat]
    /\ lock \in Clients \cup {NoClient}
    /\ call \in [Clients -> CallRecord]
    /\ made \in 0 .. MaxCalls /\ faults \in 0 .. MaxFaults
    /\ pool = PoolSize - Cardinality({c \in Clients :
                            call[c].pc \in {"lock", "write", "readback"}})

LatestOf(types) == LET at == {i \in DOMAIN events : events[i].type \in types}
                   IN IF at = {} THEN 0 ELSE CHOOSE i \in at : \A j \in at : j <= i

(* The runtime state is a projection of the immutable history, and the       *)
(* history a chain: the state points at the last activation recorded, its    *)
(* epoch is the number of revocations recorded (types.ts: "runtime state is  *)
(* a PROJECTION ONLY"), and every activation names the constitution that the *)
(* previous one made active, right after the SUPERSEDED event of that one.   *)
ProjectionOfHistory ==
    /\ state.activation = LatestOf(Activations)
    /\ state.active = IF LatestOf(Activations) = 0 THEN NoHash
                      ELSE events[LatestOf(Activations)].next
    /\ state.epoch = Cardinality({i \in DOMAIN events : events[i].type = Revoked})
    /\ \A i \in DOMAIN events : events[i].type \in Activations =>
           LET before == {j \in 1 .. i - 1 : events[j].type \in Activations} IN
           /\ events[i].prev =
                 IF before = {} THEN NoHash
                 ELSE events[CHOOSE j \in before : \A k \in before : k <= j].next
           /\ events[i].prev # NoHash =>
                 /\ i > 1 /\ events[i - 1].type = Superseded
                 /\ events[i - 1].prev = events[i].prev

(* No foreign key, constraint or trigger of the migration refuses a row a   *)
(* call writes once its checks under the lock have passed: whatever calls   *)
(* came before, the checks of the code are at least as strict as those of   *)
(* the schema.                                                              *)
SchemaAccepts ==
    \A c \in Clients : call[c].pc = "write" =>
        LET history == events \o NewEvents(c)
            rows == NewEvidence(c)
        IN
        /\ \A i \in Len(evidence) + 1 .. Len(rows) : EvidenceAccepted(rows[i], events)
        /\ \A i \in Len(events) + 1 .. Len(history) : EventAccepted(history[i], rows)
        /\ StateAccepted(NewState(c), history, rows)

(* The payload the owner saw was replaced since they read, and activated    *)
(* again: the history names the activation that took its place.             *)
LeftAndCameBack(c) ==
    \E i \in call[c].seen + 1 .. state.activation :
        /\ events[i].type \in Activations
        /\ events[i].prev = call[c].expected /\ events[i].next # call[c].expected

(* An owner replaces the payload they read, however long ago and whatever   *)
(* was called in between.  Payloads are compared and not activations: the   *)
(* activation that is replaced may be one the owner has never seen, but     *)
(* only of the payload they saw, and the history then shows how it went and *)
(* came back.                                                               *)
ReplacesWhatWasSeen ==
    [][\A c \in Clients :
          call[c].pc = "write" /\ call'[c].pc # "write" /\ state'.active # state.active
             => /\ call[c].expected = state.active
                /\ call[c].seen # state.activation => LeftAndCameBack(c)]_vars

(* Every call returns, with the pool exhausted, connections lost and other   *)
(* calls waiting for the same lock.                                          *)
CallsReturn == \A c \in Clients : ~Outside(c) ~> Outside(c)

(* The registry implements the ledger: no interleaving, retry or lost        *)
(* connection activates a payload without its confirmation and evidence,     *)
(* clears the pointer, or moves the epoch by anything but one.               *)
Ledger == INSTANCE ConstitutionLedger WITH
    confirmed <- {h \in Hashes : IsConfirmed(h)},
    Ratified  <- Ratified,
    ready     <- {h \in Hashes : IsReady(h)},
    active    <- state.active,
    epoch     <- state.epoch
ImplementsLedger == Ledger!Spec
=============================================================================
