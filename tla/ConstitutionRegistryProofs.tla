---------------------- MODULE ConstitutionRegistryProofs ----------------------
(***************************************************************************)
(* What holds of the Constitution registry for every number of clients,    *)
(* payloads and connections: the values of its tables, that the runtime    *)
(* state is a projection of the chain of events, that the schema of the    *)
(* migration never refuses what the code has let through, and that the     *)
(* registry implements its ledger.                                         *)
(***************************************************************************)
EXTENDS ConstitutionRegistry, FiniteSetTheorems, SequenceTheorems, TLAPS

Activation(i) == events[i].type \in Activations

Revocations == {i \in DOMAIN events : events[i].type = Revoked}

Holders == {c \in Clients : call[c].pc \in {"lock", "write", "readback"}}

(***************************************************************************)
(* The strengthening.  A call under way has the arguments of an operation; *)
(* the one that writes is the one with the lock, and what it has checked   *)
(* holds until it commits, because no other call writes meanwhile; the     *)
(* state points at the last activation, which was confirmed and has        *)
(* evidence; each activation continues from the one before it.             *)
(***************************************************************************)
Arguments ==
    \A c \in Clients :
        /\ call[c].pc # "idle" => /\ call[c].op \in Ops /\ call[c].hash \in Hashes
                                  /\ call[c].digest \in Digests
        /\ call[c].proof <= Len(evidence)

WriterHasLock == \A c \in Clients : call[c].pc = "write" <=> lock = c

ChecksHold == \A c \in Clients : call[c].pc = "write" => Outcome(c) = "pass"

PointsAtLast ==
    \/ /\ state.activation = 0 /\ state.active = NoHash
       /\ \A i \in DOMAIN events : ~Activation(i)
    \/ /\ state.activation \in DOMAIN events /\ Activation(state.activation)
       /\ state.active \in Hashes
       /\ events[state.activation].hash = state.active
       /\ events[state.activation].next = state.active
       /\ \A i \in DOMAIN events : i > state.activation => ~Activation(i)

ActiveIsRatified ==
    state.active # NoHash => IsConfirmed(state.active) /\ IsReady(state.active)

EpochCounts == state.epoch = Cardinality(Revocations)

(* Activation i continues from activation j, or is the first.              *)
Continues(i) ==
    \/ events[i].prev = NoHash /\ \A j \in 1 .. i - 1 : ~Activation(j)
    \/ \E j \in 1 .. i - 1 :
          /\ Activation(j) /\ events[i].prev = events[j].next
          /\ \A k \in 1 .. i - 1 : k > j => ~Activation(k)

FollowsSuperseded(i) ==
    events[i].prev # NoHash => /\ i > 1 /\ events[i - 1].type = Superseded
                               /\ events[i - 1].prev = events[i].prev

Chained ==
    \A i \in DOMAIN events : Activation(i) => Continues(i) /\ FollowsSuperseded(i)

(* Every event is about a payload that is recorded.                        *)
Known == \A i \in DOMAIN events : events[i].hash \in versions

(* A call that activates has seen the activation the state points at, or    *)
(* the history shows what took its place.                                   *)
SawTheState(c) ==
    call[c].seen = state.activation /\ call[c].expected = state.active

Informed ==
    \A c \in Clients : call[c].pc # "idle" /\ call[c].op \in Activations
                          => SawTheState(c) \/ LeftAndCameBack(c)

Safe == /\ TypeOK /\ Arguments /\ WriterHasLock /\ ChecksHold
        /\ PointsAtLast /\ ActiveIsRatified /\ EpochCounts /\ Chained
        /\ Cardinality(Holders) <= PoolSize

---------------------------------------------------------------------------
(* The initial state.                                                      *)

(* The rows of the payloads ratified before name each of them once.        *)
LEMMA RowsOfRatified ==
  /\ RatifiedRows \in Seq(Ratified)
  /\ \A h \in Ratified : \E i \in DOMAIN RatifiedRows : RatifiedRows[i] = h
<1>1. IsFiniteSet(Ratified)
  BY ConstitutionAssumption, FS_Subset
<1>2. Cardinality(Ratified) \in Nat
      /\ ExistsBijection(1 .. Cardinality(Ratified), Ratified)
  BY <1>1, FS_CardinalityType
<1> DEFINE D == 1 .. Cardinality(Ratified)
<1>3. PICK b : b \in Bijection(D, Ratified)
  BY <1>2 DEF ExistsBijection
<1>4. b \in [D -> Ratified] /\ IsInjective(b)
  BY <1>3 DEF Bijection, Injection, IsInjective
<1>5. RatifiedRows \in [D -> Ratified] /\ IsInjective(RatifiedRows)
  BY <1>4 DEF RatifiedRows, SetToSeq
<1>6. RatifiedRows \in Injection(D, Ratified)
  BY <1>5 DEF Injection, IsInjective
<1>7. IsFiniteSet(D) /\ Cardinality(D) = Cardinality(Ratified)
  BY <1>2, FS_Interval
<1>8. RatifiedRows \in Surjection(D, Ratified)
  BY <1>1, <1>6, <1>7, FS_Injection
<1> QED BY <1>2, <1>5, <1>8 DEF Surjection

LEMMA HistoryType ==
  /\ History \in Seq(EventRecord)
  /\ \A i \in DOMAIN History : History[i].type \in {Confirmed, ReadyRecorded}
<1> DEFINE n == Len(RatifiedRows)
           Row(i) == IF i <= n
                     THEN Event(Confirmed, RatifiedRows[i], NoHash, NoHash, 0, <<0, 0>>)
                     ELSE Event(ReadyRecorded, RatifiedRows[i - n], NoHash, NoHash,
                                i - n, <<0, 0>>)
<1>1. n \in Nat /\ \A i \in 1 .. n : RatifiedRows[i] \in Hashes
  BY RowsOfRatified, ConstitutionAssumption
<1>2. History = [i \in 1 .. n + n |-> Row(i)]
  BY DEF History
<1>3. \A i \in 1 .. n + n : /\ Row(i) \in EventRecord
                            /\ Row(i).type \in {Confirmed, ReadyRecorded}
  BY <1>1 DEF Event, EventRecord, EventTypes
<1> HIDE DEF n, Row
<1>4. History \in [1 .. n + n -> EventRecord] /\ DOMAIN History = 1 .. n + n
  BY <1>2, <1>3
<1> QED BY <1>1, <1>2, <1>3, <1>4

LEMMA InitSafe == Init => Safe
<1> SUFFICES ASSUME Init PROVE Safe
  OBVIOUS
<1>1. RatifiedRows \in Seq(Hashes)
  BY RowsOfRatified, ConstitutionAssumption
<1>2. (CHOOSE d \in Digests : TRUE) \in Digests
  BY ConstitutionAssumption
<1>3. evidence \in Seq([hash : Hashes, digest : Digests])
  <2>1. \A i \in DOMAIN RatifiedRows : RatifiedRows[i] \in Hashes
    BY <1>1
  <2> DEFINE d0 == CHOOSE d \in Digests : TRUE
  <2>2. d0 \in Digests
    BY <1>2
  <2>3. evidence = [i \in DOMAIN RatifiedRows |-> [hash |-> RatifiedRows[i], digest |-> d0]]
    BY DEF Init
  <2> HIDE DEF d0
  <2>4. \A i \in DOMAIN RatifiedRows :
           [hash |-> RatifiedRows[i], digest |-> d0] \in [hash : Hashes, digest : Digests]
    BY <2>1, <2>2
  <2>5. Len(RatifiedRows) \in Nat /\ DOMAIN RatifiedRows = 1 .. Len(RatifiedRows)
    BY <1>1
  <2> QED BY <2>3, <2>4, <2>5
<1>4. Holders = {}
  BY DEF Init, Holders, Idle
<1>5. {c \in Clients : call[c].pc \in {"lock", "write", "readback"}} = {}
  BY <1>4 DEF Holders
<1>6. TypeOK
  <2>1. Idle \in CallRecord
    BY DEF Idle, CallRecord
  <2>2. call \in [Clients -> CallRecord]
    BY <2>1 DEF Init
  <2>3. pool = PoolSize - Cardinality({c \in Clients :
                            call[c].pc \in {"lock", "write", "readback"}})
    <3> DEFINE H == {c \in Clients : call[c].pc \in {"lock", "write", "readback"}}
    <3>1. Cardinality(H) = 0
      BY <1>5, FS_EmptySet
    <3>2. pool = PoolSize /\ PoolSize \in Nat
      BY ConstitutionAssumption DEF Init
    <3> HIDE DEF H
    <3>3. pool = PoolSize - Cardinality(H)
      BY <3>1, <3>2
    <3> QED BY <3>3 DEF H
  <2> QED BY <1>3, <2>2, <2>3, HistoryType, ConstitutionAssumption DEF Init, TypeOK
<1>7. \A i \in DOMAIN events : ~Activation(i) /\ events[i].type # Revoked
  BY HistoryType DEF Init, Activation, Activations, Confirmed, ReadyRecorded, Revoked
<1>8. Revocations = {}
  BY <1>7 DEF Revocations
<1>9. Arguments /\ WriterHasLock /\ ChecksHold
  BY <1>3, ConstitutionAssumption DEF Init, Idle, Arguments, WriterHasLock, ChecksHold
<1>10. EpochCounts
  BY <1>8, FS_EmptySet DEF Init, EpochCounts
<1>11. PointsAtLast /\ ActiveIsRatified /\ Chained
  BY <1>7 DEF Init, PointsAtLast, ActiveIsRatified, Chained
<1>12. Cardinality(Holders) <= PoolSize
  BY <1>4, FS_EmptySet, ConstitutionAssumption
<1> QED BY <1>6, <1>9, <1>10, <1>11, <1>12 DEF Safe

---------------------------------------------------------------------------
(* What each step does to the call that takes it.                          *)

Inside(pc) == pc \in {"lock", "write", "readback"}

(* The call of c becomes r, and c gives back a connection, takes a free one *)
(* or neither; the lock passes from nobody to c, or from c to nobody.       *)
Becomes(c, r) ==
    /\ call' = [call EXCEPT ![c] = r]
    /\ r.pc # "idle" => r.op \in Ops /\ r.hash \in Hashes /\ r.digest \in Digests
    /\ r.proof <= Len(evidence)
    /\ ~Inside(call[c].pc) /\ Inside(r.pc) => pool > 0 /\ pool' = pool - 1
    /\ Inside(call[c].pc) /\ ~Inside(r.pc) => pool' = pool + 1
    /\ Inside(call[c].pc) = Inside(r.pc) => pool' = pool
    /\ r.pc = "write" <=> lock' = c
    /\ lock' # lock => \/ lock = NoClient /\ lock' = c
                       \/ lock = c /\ lock' = NoClient
    /\ made' \in 0 .. MaxCalls /\ faults' \in 0 .. MaxFaults
    /\ r.pc = "write" => Outcome(c) = "pass" /\ r.op = call[c].op
                          /\ r.hash = call[c].hash /\ r.digest = call[c].digest
                          /\ r.proof = call[c].proof /\ r.expected = call[c].expected
            /\ r.seen = call[c].seen
    /\ r.pc # "idle" /\ r.op \in Activations =>
          \/ r.seen = state.activation /\ r.expected = state.active
          \/ /\ call[c].pc # "idle" /\ r.op = call[c].op
             /\ r.expected = call[c].expected /\ r.seen = call[c].seen

(* The step of a call that has its arguments moves it to another place.     *)
LEMMA Moves ==
  ASSUME NEW c \in Clients, call \in [Clients -> CallRecord], NEW step, Proceed(c, step),
         step \in {"idle", "threw", "connect", "lock", "write", "readback"}
  PROVE  \E r \in CallRecord :
            /\ call' = [call EXCEPT ![c] = r]
            /\ r.op = call[c].op /\ r.hash = call[c].hash /\ r.digest = call[c].digest
            /\ r.proof = call[c].proof /\ r.expected = call[c].expected
            /\ r.seen = call[c].seen
            /\ r.pc = step
<1> DEFINE r == [call[c] EXCEPT !.pc = step]
<1>1. call[c] \in CallRecord
  OBVIOUS
<1>2. r \in CallRecord
  BY <1>1 DEF CallRecord
<1>3. call' = [call EXCEPT ![c] = r]
  BY DEF Proceed
<1>4. r.op = call[c].op /\ r.hash = call[c].hash /\ r.digest = call[c].digest
      /\ r.proof = call[c].proof /\ r.expected = call[c].expected
      /\ r.seen = call[c].seen /\ r.pc = step
  BY <1>1 DEF CallRecord
<1> QED BY <1>2, <1>3, <1>4

LEMMA IdleArguments ==
  /\ Idle \in CallRecord /\ Idle.pc = "idle" /\ Idle.proof = 0
BY DEF Idle, CallRecord

LEMMA OwnStep ==
  ASSUME Safe, NEW c \in Clients,
         Begin(c) \/ Retry(c) \/ Step(c) \/ ConnectionLost(c)
  PROVE  \E r \in CallRecord : Becomes(c, r)
<1>0. /\ call \in [Clients -> CallRecord] /\ c # NoClient /\ pool \in Int
      /\ made \in 0 .. MaxCalls /\ faults \in 0 .. MaxFaults
      /\ MaxCalls \in Nat /\ MaxFaults \in Nat
      /\ lock \in Clients \cup {NoClient} /\ Len(evidence) \in Nat
      /\ call[c].pc = "write" <=> lock = c
      /\ call[c].proof <= Len(evidence)
      /\ call[c].pc # "idle" => /\ call[c].op \in Ops /\ call[c].hash \in Hashes
                                /\ call[c].digest \in Digests
  <2>1. Cardinality({d \in Clients : call[d].pc \in {"lock", "write", "readback"}}) \in Nat
    BY FS_Subset, FS_CardinalityType, ConstitutionAssumption
  <2>2. pool \in Int
    BY <2>1, ConstitutionAssumption DEF Safe, TypeOK
  <2> QED BY <2>2, ConstitutionAssumption
             DEF Safe, TypeOK, Arguments, WriterHasLock
<1>1. CASE Begin(c)
  <2>1. PICK op \in Permitted(c), h \in Hashes, d \in Digests, n \in 0 .. Len(evidence) :
           call' = [call EXCEPT ![c] =
                [op |-> op, hash |-> h, digest |-> d, proof |-> n,
                 expected |-> IF op \in Activations THEN state.active ELSE NoHash,
                 seen |-> IF op \in Activations THEN state.activation ELSE 0,
                 pc |-> Asked]]
    BY <1>1 DEF Begin
  <2> DEFINE r == [op |-> op, hash |-> h, digest |-> d, proof |-> n,
                 expected |-> IF op \in Activations THEN state.active ELSE NoHash,
                 seen |-> IF op \in Activations THEN state.activation ELSE 0,
                 pc |-> Asked]
  <2>2. op \in Ops /\ n \in Nat /\ n <= Len(evidence)
    BY <1>0 DEF Permitted, Ops
  <2>3. state.active \in Hashes \cup {NoHash} /\ state.activation \in Nat
    BY DEF Safe, TypeOK
  <2>4. r \in CallRecord /\ r.pc \in {"lock", "connect"}
    BY <2>2, <2>3 DEF CallRecord, Asked
  <2>5. /\ call[c].pc \in {"idle", "threw"} /\ lock' = lock /\ faults' = faults
        /\ made' \in 0 .. MaxCalls
    BY <1>0, <1>1 DEF Begin, Outside
  <2>6. IF pool > 0 THEN pool' = pool - 1 /\ r.pc = "lock"
        ELSE pool' = pool /\ r.pc = "connect"
    BY <1>1 DEF Begin, Ask, Asked
  <2>7. call' = [call EXCEPT ![c] = r] /\ r.op \in Ops /\ r.hash \in Hashes
        /\ r.digest \in Digests /\ r.proof <= Len(evidence)
    BY <2>1, <2>2
  <2>8. r.op \in Activations => r.seen = state.activation /\ r.expected = state.active
    OBVIOUS
  <2> HIDE DEF r
  <2>9. r.pc # "write" /\ lock' # c
    <3>1. lock # c
      BY <1>0, <2>5
    <3> QED BY <2>4, <2>5, <3>1
  <2>10. Becomes(c, r)
    BY <1>0, <2>4, <2>5, <2>6, <2>7, <2>8, <2>9 DEF Becomes, Inside
  <2> QED BY <2>4, <2>10
<1>2. CASE Retry(c) \/ Connect(c) \/ ConnectTimesOut(c)
  <2>1. PICK r \in CallRecord :
            /\ call' = [call EXCEPT ![c] = r]
            /\ r.op = call[c].op /\ r.hash = call[c].hash /\ r.digest = call[c].digest
            /\ r.proof = call[c].proof /\ r.expected = call[c].expected
            /\ r.seen = call[c].seen
            /\ \/ Retry(c) /\ r.pc = Asked
               \/ Connect(c) /\ r.pc = "lock"
               \/ ConnectTimesOut(c) /\ r.pc = "threw"
    <3>1. Asked \in {"lock", "connect"}
      BY DEF Asked
    <3> QED BY <1>0, <1>2, <3>1, Moves DEF Retry, Connect, ConnectTimesOut, Throw
  <2>2. Becomes(c, r)
    BY <1>0, <2>1 DEF Becomes, Inside, Retry, Connect, ConnectTimesOut, Ask, Asked
  <2> QED BY <2>2
<1>3. CASE TakeLock(c)
  <2>1. CASE Proceed(c, "write")
    <3>1. PICK r \in CallRecord :
            /\ call' = [call EXCEPT ![c] = r]
            /\ r.op = call[c].op /\ r.hash = call[c].hash /\ r.digest = call[c].digest
            /\ r.proof = call[c].proof /\ r.expected = call[c].expected
            /\ r.seen = call[c].seen
            /\ r.pc = "write"
      BY <1>0, <2>1, Moves
    <3>2. ~Return(c)
      BY <1>0, <3>1, IdleArguments DEF Return
    <3>3. /\ Outcome(c) = "pass" /\ lock = NoClient /\ lock' = c /\ pool' = pool
          /\ made' = made /\ faults' = faults /\ call[c].pc = "lock"
      BY <1>3, <3>2 DEF TakeLock, LockFree
    <3>4. Becomes(c, r)
      BY <1>0, <3>1, <3>3 DEF Becomes, Inside
    <3> QED BY <3>4
  <2>2. CASE ~Proceed(c, "write")
    <3>1. Return(c) /\ Rollback(c) /\ call[c].pc = "lock" /\ faults' = faults
      BY <1>3, <2>2 DEF TakeLock
    <3>2. Becomes(c, Idle)
      BY <1>0, <3>1, IdleArguments DEF Becomes, Inside, Return, Rollback, Released
    <3> QED BY <3>2, IdleArguments
  <2> QED BY <2>1, <2>2
<1>4. CASE Commit(c)
  <2>1. CASE ReadsBack(c)
    <3>1. PICK r \in CallRecord :
            /\ call' = [call EXCEPT ![c] = r]
            /\ r.op = call[c].op /\ r.hash = call[c].hash /\ r.digest = call[c].digest
            /\ r.proof = call[c].proof /\ r.expected = call[c].expected
            /\ r.seen = call[c].seen
            /\ r.pc = "readback"
      BY <1>0, <1>4, <2>1, Moves DEF Commit
    <3>2. Becomes(c, r)
      BY <1>0, <1>4, <2>1, <3>1 DEF Becomes, Inside, Commit, Released
    <3> QED BY <3>2
  <2>2. CASE ~ReadsBack(c)
    <3>1. Becomes(c, Idle)
      BY <1>0, <1>4, <2>2, IdleArguments DEF Becomes, Inside, Return, Commit, Released
    <3> QED BY <3>1, IdleArguments
  <2> QED BY <2>1, <2>2
<1>5. CASE ReadBack(c)
  <2>1. Becomes(c, Idle)
    BY <1>0, <1>5, IdleArguments DEF Becomes, Inside, Return, ReadBack
  <2> QED BY <2>1, IdleArguments
<1>6. CASE ReadBackTimesOut(c) \/ ConnectionLost(c)
  <2>1. PICK r \in CallRecord :
            /\ call' = [call EXCEPT ![c] = r]
            /\ r.op = call[c].op /\ r.hash = call[c].hash /\ r.digest = call[c].digest
            /\ r.proof = call[c].proof /\ r.expected = call[c].expected
            /\ r.seen = call[c].seen
            /\ r.pc = "threw"
    BY <1>0, <1>6, Moves DEF ReadBackTimesOut, ConnectionLost, Throw
  <2>2. Becomes(c, r)
    BY <1>0, <1>6, <2>1 DEF Becomes, Inside, ReadBackTimesOut, ConnectionLost,
                            Rollback, Released
  <2> QED BY <2>2
<1> QED BY <1>1, <1>2, <1>3, <1>4, <1>5, <1>6 DEF Step

(* The clients inside a transaction are finite in number and those with a   *)
(* connection.                                                             *)
LEMMA HoldersFinite ==
  ASSUME TypeOK
  PROVE  /\ IsFiniteSet(Holders) /\ Cardinality(Holders) \in Nat
         /\ pool = PoolSize - Cardinality(Holders)
<1>1. IsFiniteSet(Holders) /\ Cardinality(Holders) \in Nat
  BY FS_Subset, FS_CardinalityType, ConstitutionAssumption DEF Holders
<1> QED BY <1>1 DEF TypeOK, Holders

(* The connections add up after any call's step.                           *)
LEMMA ConnectionsAddUp ==
  ASSUME TypeOK, Cardinality(Holders) <= PoolSize, NEW c \in Clients,
         NEW r \in CallRecord, Becomes(c, r)
  PROVE  pool' = PoolSize - Cardinality(Holders') /\ Cardinality(Holders') <= PoolSize
<1>1. call \in [Clients -> CallRecord] /\ PoolSize \in Nat
  BY ConstitutionAssumption DEF TypeOK
<1>2. call' = [call EXCEPT ![c] = r]
  BY DEF Becomes
<1>3. Inside(call[c].pc) <=> c \in Holders
  BY DEF Inside, Holders
<1>4. CASE Inside(r.pc)
  <2>1. Holders' = Holders \cup {c}
    BY <1>1, <1>2, <1>4 DEF Holders, Inside
  <2>2. Cardinality(Holders \cup {c}) =
            IF c \in Holders THEN Cardinality(Holders) ELSE Cardinality(Holders) + 1
    BY HoldersFinite, FS_AddElement
  <2>3. c \in Holders => pool' = pool
    BY <1>3, <1>4 DEF Becomes, Inside
  <2>4. c \notin Holders => pool > 0 /\ pool' = pool - 1
    BY <1>3, <1>4 DEF Becomes
  <2> QED BY <1>1, <2>1, <2>2, <2>3, <2>4, HoldersFinite
<1>5. CASE ~Inside(r.pc)
  <2>1. Holders' = Holders \ {c}
    BY <1>1, <1>2, <1>5 DEF Holders, Inside
  <2>2. Cardinality(Holders \ {c}) =
            IF c \in Holders THEN Cardinality(Holders) - 1 ELSE Cardinality(Holders)
    BY HoldersFinite, FS_RemoveElement
  <2>3. c \in Holders => pool' = pool + 1
    BY <1>3, <1>5 DEF Becomes
  <2>4. c \notin Holders => pool' = pool
    BY <1>3, <1>5 DEF Becomes, Inside
  <2> QED BY <1>1, <2>1, <2>2, <2>3, <2>4, HoldersFinite
<1> QED BY <1>4, <1>5

(* The table of versions and the calls, whatever step is taken.            *)
LEMMA CallsStep ==
  ASSUME Safe, [Next]_vars, Len(evidence) <= Len(evidence'), Len(evidence') \in Nat
  PROVE  /\ versions \subseteq versions' /\ versions' \subseteq Hashes
         /\ call' \in [Clients -> CallRecord] /\ lock' \in Clients \cup {NoClient}
         /\ made' \in 0 .. MaxCalls /\ faults' \in 0 .. MaxFaults
         /\ pool' = PoolSize - Cardinality(Holders') /\ Cardinality(Holders') <= PoolSize
         /\ Arguments' /\ WriterHasLock'
<1>1. CASE \E c \in Clients : Begin(c) \/ Retry(c) \/ Step(c) \/ ConnectionLost(c)
  <2> PICK c \in Clients : Begin(c) \/ Retry(c) \/ Step(c) \/ ConnectionLost(c)
    BY <1>1
  <2> PICK r \in CallRecord : Becomes(c, r)
    BY OwnStep
  <2>1. call' = [call EXCEPT ![c] = r] /\ call \in [Clients -> CallRecord]
    BY DEF Becomes, Safe, TypeOK
  <2>2. versions' = versions /\ versions \subseteq Hashes
    BY DEF Begin, Retry, Step, Connect, ConnectTimesOut, TakeLock, Commit, ReadBack,
           ReadBackTimesOut, ConnectionLost, Rollback, Safe, TypeOK
  <2>3. lock \in Clients \cup {NoClient} /\ NoClient \notin Clients
    BY ConstitutionAssumption DEF Safe, TypeOK
  <2>4. pool' = PoolSize - Cardinality(Holders') /\ Cardinality(Holders') <= PoolSize
    BY ConnectionsAddUp DEF Safe
  <2>5. Arguments'
    <3>1. \A d \in Clients : call[d].proof \in Nat
      BY <2>1 DEF CallRecord
    <3>2. r.proof \in Nat /\ Len(evidence) \in Nat
      BY DEF CallRecord, Safe, TypeOK
    <3> QED BY <2>1, <3>1, <3>2 DEF Becomes, Safe, Arguments
  <2>6. WriterHasLock'
    BY <2>1, <2>3 DEF Becomes, Safe, WriterHasLock
  <2> QED BY <2>1, <2>2, <2>3, <2>4, <2>5, <2>6 DEF Becomes
<1>2. CASE UNCHANGED vars \/ \E h \in Hashes : BootstrapRecordVersion(h)
  <2>1. /\ versions \subseteq versions' /\ versions' \subseteq Hashes
        /\ UNCHANGED <<events, evidence, state, lock, pool, call, made, faults>>
    BY <1>2 DEF vars, BootstrapRecordVersion, Safe, TypeOK
  <2>2. Holders' = Holders
    BY <2>1 DEF Holders
  <2>3. pool = PoolSize - Cardinality(Holders)
    BY HoldersFinite DEF Safe
  <2>4. Arguments' /\ WriterHasLock'
    BY <2>1 DEF Safe, Arguments, WriterHasLock
  <2> QED BY <2>1, <2>2, <2>3, <2>4 DEF Safe, TypeOK
<1> QED BY <1>1, <1>2 DEF Next

(* Only a commit changes the tables of events and evidence and the state.  *)
LEMMA OnlyCommitWrites ==
  ASSUME [Next]_vars, \A c \in Clients : ~Commit(c)
  PROVE  UNCHANGED <<events, evidence, state>>
<1>1. CASE \E c \in Clients : Begin(c) \/ Retry(c) \/ Step(c) \/ ConnectionLost(c)
  BY <1>1 DEF Begin, Retry, Step, Connect, ConnectTimesOut, TakeLock, ReadBack,
           ReadBackTimesOut, ConnectionLost, Rollback
<1> QED BY <1>1 DEF Next, vars, BootstrapRecordVersion

(* The operations and types of event differ.                                *)
LEMMA Distinct ==
  /\ Confirmed \notin Activations /\ ReadyRecorded \notin Activations
  /\ Superseded \notin Activations /\ Revoked \notin Activations
  /\ Confirmed # Revoked /\ ReadyRecorded # Revoked /\ Superseded # Revoked
  /\ Confirmed # ReadyRecorded /\ Superseded # Confirmed /\ Superseded # ReadyRecorded
BY DEF Confirmed, ReadyRecorded, Superseded, Revoked, Activations

(* A call that writes after the step checked in it, or before it.          *)
LEMMA ChecksStillHold ==
  ASSUME Safe, [Next]_vars, UNCHANGED <<events, evidence, state>>,
         versions \subseteq versions'
  PROVE  ChecksHold'
<1> SUFFICES ASSUME NEW d \in Clients, call'[d].pc = "write" PROVE Outcome(d)' = "pass"
  BY DEF ChecksHold
<1>1. Outcome(d) = "pass" /\ /\ call'[d].op = call[d].op
      /\ call'[d].hash = call[d].hash /\ call'[d].digest = call[d].digest
      /\ call'[d].proof = call[d].proof /\ call'[d].expected = call[d].expected
  <2>1. CASE \E c \in Clients : Begin(c) \/ Retry(c) \/ Step(c) \/ ConnectionLost(c)
    <3> PICK c \in Clients : Begin(c) \/ Retry(c) \/ Step(c) \/ ConnectionLost(c)
      BY <2>1
    <3> PICK r \in CallRecord : Becomes(c, r)
      BY OwnStep
    <3>1. call' = [call EXCEPT ![c] = r] /\ call \in [Clients -> CallRecord]
      BY DEF Becomes, Safe, TypeOK
    <3>2. CASE d = c
      BY <3>1, <3>2 DEF Becomes
    <3>3. CASE d # c
      BY <3>1, <3>3 DEF Safe, ChecksHold
    <3> QED BY <3>2, <3>3
  <2>2. CASE ~\E c \in Clients : Begin(c) \/ Retry(c) \/ Step(c) \/ ConnectionLost(c)
    <3>1. call' = call
      BY <2>2 DEF Next, vars, BootstrapRecordVersion
    <3> QED BY <3>1 DEF Safe, ChecksHold
  <2> QED BY <2>1, <2>2
<1>2. /\ IsConfirmed(call[d].hash)' = IsConfirmed(call[d].hash)
      /\ AlreadyRecorded(d)' = AlreadyRecorded(d)
      /\ EvidenceOutcome(d)' = EvidenceOutcome(d)
      /\ BoundToEvidence(d)' = BoundToEvidence(d)
      /\ ExpectedHolds(d)' = ExpectedHolds(d)
  BY <1>1 DEF IsConfirmed, AlreadyRecorded, EvidenceOutcome, BoundToEvidence, ExpectedHolds
<1>3. /\ ActivationOutcome(d)' = ActivationOutcome(d)
      /\ ReadyOutcome(d)' = ReadyOutcome(d)
  BY <1>1, <1>2 DEF ActivationOutcome, ReadyOutcome
<1>4. CASE call[d].op = Revoked
  <2>1. call'[d].op = Revoked /\ state' = state
    BY <1>1, <1>4
  <2>2. Outcome(d) = IF state.active = NoHash THEN "no_active_constitution" ELSE "pass"
    BY <1>4, Distinct DEF Outcome
  <2>3. state.active # NoHash
    BY <1>1, <2>2
  <2>4. Outcome(d)' = IF state'.active = NoHash THEN "no_active_constitution" ELSE "pass"
    BY <2>1, Distinct DEF Outcome
  <2> QED BY <2>1, <2>3, <2>4
<1>5. CASE call[d].op # Revoked
  <2>1. call[d].hash \in versions
    BY <1>1, <1>5 DEF Outcome
  <2>2. call'[d].op # Revoked /\ call'[d].hash \in versions'
    BY <1>1, <1>5, <2>1
  <2>3. CASE call[d].op = Confirmed
    <3>1. call[d].op # ReadyRecorded /\ call'[d].op # ReadyRecorded /\ call'[d].op = Confirmed
      BY <1>1, <2>3, Distinct
    <3>2. ~IsConfirmed(call[d].hash)
      BY <1>1, <1>5, <2>1, <2>3, <3>1 DEF Outcome
    <3>3. ~IsConfirmed(call[d].hash)'
      BY <1>2, <3>2
    <3> QED BY <2>2, <3>1, <3>3 DEF Outcome
  <2>4. CASE call[d].op = ReadyRecorded
    <3>1. call[d].op # Confirmed /\ call'[d].op # Confirmed /\ call'[d].op = ReadyRecorded
      BY <1>1, <2>4, Distinct
    <3>2. ReadyOutcome(d) = "pass"
      BY <1>1, <1>5, <2>1, <2>4, <3>1 DEF Outcome
    <3>3. ReadyOutcome(d)' = "pass"
      BY <1>3, <3>2
    <3> QED BY <2>2, <3>1, <3>3 DEF Outcome
  <2>5. CASE call[d].op \notin {Confirmed, ReadyRecorded}
    <3>1. call'[d].op \notin {Confirmed, ReadyRecorded}
      BY <1>1, <2>5
    <3>2. ActivationOutcome(d) = "pass"
      BY <1>1, <1>5, <2>1, <2>5 DEF Outcome
    <3>3. ActivationOutcome(d)' = "pass"
      BY <1>3, <3>2
    <3> QED BY <2>2, <3>1, <3>3 DEF Outcome
  <2> QED BY <2>3, <2>4, <2>5
<1> QED BY <1>4, <1>5

---------------------------------------------------------------------------
(* What a commit writes.                                                   *)

(* A call that writes has the arguments its checks have let through.       *)
LEMMA Checked ==
  ASSUME Safe, NEW c \in Clients, call[c].pc = "write"
  PROVE  /\ call[c].op \in Ops /\ call[c].hash \in Hashes
         /\ call[c].digest \in Digests /\ lock = c
         /\ call[c].op # Revoked => call[c].hash \in versions
         /\ call[c].op = Confirmed => ~IsConfirmed(call[c].hash)
         /\ call[c].op = ReadyRecorded => IsConfirmed(call[c].hash)
         /\ call[c].op = Revoked => state.active # NoHash
         /\ call[c].op \in Activations =>
               /\ IsConfirmed(call[c].hash) /\ state.active # call[c].hash
               /\ state.active = call[c].expected
               /\ call[c].proof \in 1 .. Len(evidence)
               /\ evidence[call[c].proof].hash = call[c].hash
<1>1. Outcome(c) = "pass" /\ call[c].op \in Ops /\ call[c].hash \in Hashes
      /\ call[c].digest \in Digests /\ lock = c /\ call[c].proof <= Len(evidence)
      /\ call[c].proof \in Nat /\ Len(evidence) \in Nat
  BY DEF Safe, ChecksHold, Arguments, WriterHasLock, TypeOK, CallRecord
<1>2. CASE call[c].op \in {Confirmed, ReadyRecorded, Revoked}
  <2>1. call[c].op \notin Activations
    BY <1>2 DEF Confirmed, ReadyRecorded, Revoked, Activations
  <2>2. CASE call[c].op = Confirmed
    <3>1. call[c].op # Revoked /\ call[c].op # ReadyRecorded
      BY <2>2 DEF Confirmed, ReadyRecorded, Revoked
    <3>2. call[c].hash \in versions
      BY <1>1, <3>1 DEF Outcome
    <3>3. ~IsConfirmed(call[c].hash)
      BY <1>1, <2>2, <3>1, <3>2 DEF Outcome
    <3> QED BY <1>1, <2>1, <3>1, <3>2, <3>3
  <2>3. CASE call[c].op = ReadyRecorded
    <3>4. call[c].op # Revoked /\ call[c].op # Confirmed
      BY <2>3 DEF Confirmed, ReadyRecorded, Revoked
    <3>5. call[c].hash \in versions
      BY <1>1, <3>4 DEF Outcome
    <3>6. ReadyOutcome(c) = "pass"
      BY <1>1, <2>3, <3>4, <3>5 DEF Outcome
    <3>1. call[c].hash \in versions /\ ReadyOutcome(c) = "pass"
      BY <3>5, <3>6
    <3>2. IsConfirmed(call[c].hash)
      BY <3>1 DEF ReadyOutcome
    <3> QED BY <1>1, <2>1, <2>3, <3>1, <3>2 DEF Confirmed, ReadyRecorded, Revoked
  <2>4. CASE call[c].op = Revoked
    BY <1>1, <2>1, <2>4 DEF Outcome, Confirmed, ReadyRecorded, Revoked
  <2> QED BY <1>2, <2>2, <2>3, <2>4
<1>3. CASE call[c].op \in Activations
  <2>1. call[c].op \notin {Confirmed, ReadyRecorded, Revoked}
    BY <1>3 DEF Confirmed, ReadyRecorded, Revoked, Activations
  <2>2. call[c].hash \in versions /\ ActivationOutcome(c) = "pass"
    BY <1>1, <2>1 DEF Outcome
  <2>3. /\ IsConfirmed(call[c].hash) /\ EvidenceOutcome(c) = "pass"
        /\ state.active # call[c].hash /\ ExpectedHolds(c)
    BY <2>2 DEF ActivationOutcome
  <2>4. call[c].proof # 0 /\ evidence[call[c].proof].hash = call[c].hash
    BY <1>1, <2>3 DEF EvidenceOutcome
  <2> QED BY <1>1, <2>1, <2>2, <2>3, <2>4 DEF ExpectedHolds
<1> QED BY <1>1, <1>2, <1>3 DEF Ops, OwnerOps, SystemOps

ActivationEvent(c) ==
    Event(call[c].op, call[c].hash, state.active, call[c].hash, call[c].proof,
          <<state.epoch, state.epoch>>)

SupersededEvent(c) ==
    Event(Superseded, call[c].hash, state.active, call[c].hash, 0,
          <<state.epoch, state.epoch>>)

OtherEvent(c) ==
    CASE call[c].op = Confirmed -> Event(Confirmed, call[c].hash, NoHash, NoHash, 0, <<0, 0>>)
      [] call[c].op = ReadyRecorded ->
            Event(ReadyRecorded, call[c].hash, NoHash, NoHash, Len(evidence) + 1, <<0, 0>>)
      [] OTHER -> Event(Revoked, state.active, state.active, NoHash, 0,
                        <<state.epoch, state.epoch + 1>>)

LEMMA WrittenAreEvents ==
  ASSUME Safe, NEW c \in Clients, call[c].pc = "write"
  PROVE  /\ call[c].op \in Activations =>
               /\ ActivationEvent(c) \in EventRecord
               /\ SupersededEvent(c) \in EventRecord
         /\ call[c].op \notin Activations => OtherEvent(c) \in EventRecord
<1>1. /\ call[c].op \in Ops /\ call[c].hash \in Hashes /\ call[c].proof \in Nat
      /\ state.active \in Hashes \cup {NoHash} /\ state.epoch \in Nat
      /\ Len(evidence) \in Nat
      /\ call[c].op = Revoked => state.active # NoHash
  BY Checked DEF Safe, TypeOK, CallRecord
<1>2. <<state.epoch, state.epoch>>[1] = state.epoch
      /\ <<state.epoch, state.epoch>>[2] = state.epoch
      /\ <<0, 0>>[1] = 0 /\ <<0, 0>>[2] = 0
      /\ <<state.epoch, state.epoch + 1>>[1] = state.epoch
      /\ <<state.epoch, state.epoch + 1>>[2] = state.epoch + 1
  OBVIOUS
<1>3. CASE call[c].op \in Activations
  BY <1>1, <1>2, <1>3 DEF ActivationEvent, SupersededEvent, Event, EventRecord, EventTypes
<1>4. CASE call[c].op \notin Activations
  <2>1. call[c].op \in {Confirmed, ReadyRecorded, Revoked}
    BY <1>1, <1>4 DEF Ops, OwnerOps, SystemOps
  <2>2. CASE call[c].op = Confirmed
    BY <1>1, <1>2, <1>4, <2>2 DEF OtherEvent, Event, EventRecord, EventTypes, Confirmed
  <2>3. CASE call[c].op = ReadyRecorded
    BY <1>1, <1>2, <1>4, <2>3
       DEF OtherEvent, Event, EventRecord, EventTypes, Confirmed, ReadyRecorded
  <2>4. CASE call[c].op = Revoked
    BY <1>1, <1>2, <1>4, <2>4
       DEF OtherEvent, Event, EventRecord, EventTypes, Confirmed, ReadyRecorded, Revoked
  <2> QED BY <1>4, <2>1, <2>2, <2>3, <2>4
<1> QED BY <1>3, <1>4

LEMMA Concatenation ==
  ASSUME NEW S, NEW s \in Seq(S), NEW t \in Seq(S)
  PROVE  /\ s \o t \in Seq(S) /\ Len(s \o t) = Len(s) + Len(t)
         /\ Len(s) \in Nat /\ Len(t) \in Nat
         /\ \A i \in 1 .. Len(s) : (s \o t)[i] = s[i]
         /\ \A i \in 1 .. Len(t) : (s \o t)[Len(s) + i] = t[i]
<1>1. /\ s \o t \in Seq(S) /\ Len(s \o t) = Len(s) + Len(t)
      /\ \A i \in 1 .. Len(s) + Len(t) :
            (s \o t)[i] = IF i <= Len(s) THEN s[i] ELSE t[i - Len(s)]
  BY ConcatProperties
<1>2. Len(s) \in Nat /\ Len(t) \in Nat
  OBVIOUS
<1> QED BY <1>1, <1>2

(* The history a call would leave: the events recorded, then those of the   *)
(* call, an activation last and behind the end of the one it replaces.     *)
LEMMA HistoryExtended ==
  ASSUME Safe, NEW c \in Clients, call[c].pc = "write",
         NEW history, history = events \o NewEvents(c)
  PROVE  LET n == Len(events) k == Len(NewEvents(c)) IN
         /\ n \in Nat /\ history \in Seq(EventRecord) /\ Len(history) = n + k
         /\ \A i \in 1 .. n : history[i] = events[i]
         /\ call[c].op \notin Activations => k = 1 /\ history[n + 1] = OtherEvent(c)
         /\ call[c].op \in Activations =>
               /\ history[n + k] = ActivationEvent(c)
               /\ state.active = NoHash => k = 1
               /\ state.active # NoHash =>
                     k = 2 /\ history[n + 1] = SupersededEvent(c)
<1> DEFINE n == Len(events)
           k == Len(NewEvents(c))
<1>1. events \in Seq(EventRecord) /\ n \in Nat /\ call[c].op \in Ops
  BY Checked DEF Safe, TypeOK
<1>2. CASE call[c].op \notin Activations
  <2>1. NewEvents(c) = <<OtherEvent(c)>>
    <3>1. call[c].op \in {Confirmed, ReadyRecorded, Revoked}
      BY <1>1, <1>2 DEF Ops, OwnerOps, SystemOps
    <3> QED BY <3>1 DEF NewEvents, OtherEvent, Confirmed, ReadyRecorded, Revoked
  <2>2. OtherEvent(c) \in EventRecord
    BY <1>2, WrittenAreEvents
  <2>3. NewEvents(c) \in Seq(EventRecord) /\ k = 1 /\ NewEvents(c)[1] = OtherEvent(c)
    BY <2>1, <2>2
  <2>4. /\ history \in Seq(EventRecord) /\ Len(history) = n + 1
        /\ \A i \in 1 .. n : history[i] = events[i]
        /\ history[n + 1] = OtherEvent(c)
    BY <1>1, <2>3, Concatenation
  <2> QED BY <1>1, <1>2, <2>3, <2>4
<1>3. CASE call[c].op \in Activations
  <2>1. call[c].op \notin {Confirmed, ReadyRecorded, Revoked}
    BY <1>3 DEF Confirmed, ReadyRecorded, Revoked, Activations
  <2>2. ActivationEvent(c) \in EventRecord /\ SupersededEvent(c) \in EventRecord
    BY <1>3, WrittenAreEvents
  <2>3. NewEvents(c) = (IF state.active = NoHash THEN <<>> ELSE <<SupersededEvent(c)>>)
                       \o <<ActivationEvent(c)>>
    BY <2>1 DEF NewEvents, SupersededEvent, ActivationEvent
  <2>4. CASE state.active = NoHash
    <3>1. NewEvents(c) \in Seq(EventRecord) /\ k = 1 /\ NewEvents(c)[1] = ActivationEvent(c)
      BY <2>2, <2>3, <2>4
    <3>2. /\ history \in Seq(EventRecord) /\ Len(history) = n + 1
          /\ \A i \in 1 .. n : history[i] = events[i]
          /\ history[n + 1] = ActivationEvent(c)
      BY <1>1, <3>1, Concatenation
    <3> QED BY <1>1, <1>3, <2>4, <3>1, <3>2
  <2>5. CASE state.active # NoHash
    <3>1. NewEvents(c) = <<SupersededEvent(c)>> \o <<ActivationEvent(c)>>
      BY <2>3, <2>5
    <3>2. /\ NewEvents(c) \in Seq(EventRecord) /\ k = 2
          /\ NewEvents(c)[1] = SupersededEvent(c) /\ NewEvents(c)[2] = ActivationEvent(c)
      BY <2>2, <3>1
    <3>3. /\ history \in Seq(EventRecord) /\ Len(history) = n + 2
          /\ \A i \in 1 .. n : history[i] = events[i]
          /\ history[n + 1] = SupersededEvent(c) /\ history[n + 2] = ActivationEvent(c)
      <4>1. /\ history \in Seq(EventRecord) /\ Len(history) = n + k
            /\ \A i \in 1 .. n : history[i] = events[i]
            /\ \A i \in 1 .. k : history[n + i] = NewEvents(c)[i]
        <5>1. NewEvents(c) \in Seq(EventRecord)
          BY <3>2
        <5> QED BY <1>1, <5>1, Concatenation
      <4>2. 1 \in 1 .. k /\ 2 \in 1 .. k
        BY <3>2
      <4> QED BY <3>2, <4>1, <4>2
    <3> QED BY <1>1, <1>3, <2>5, <3>2, <3>3
  <2> QED BY <2>4, <2>5
<1> QED BY <1>2, <1>3

(* The evidence and the state a call would leave.                          *)
LEMMA TablesExtended ==
  ASSUME Safe, NEW c \in Clients, call[c].pc = "write"
  PROVE  /\ NewEvidence(c) \in Seq([hash : Hashes, digest : Digests])
         /\ Len(NewEvidence(c)) \in Nat /\ Len(evidence) \in Nat
         /\ \A i \in 1 .. Len(evidence) : NewEvidence(c)[i] = evidence[i]
         /\ IF call[c].op = ReadyRecorded
            THEN /\ Len(NewEvidence(c)) = Len(evidence) + 1
                 /\ NewEvidence(c)[Len(evidence) + 1].hash = call[c].hash
            ELSE NewEvidence(c) = evidence
         /\ NewState(c) \in [active : Hashes \cup {NoHash}, activation : Nat, epoch : Nat]
         /\ NewState(c).epoch = IF call[c].op = Revoked THEN state.epoch + 1 ELSE state.epoch
         /\ IF call[c].op \in Activations
            THEN /\ NewState(c).active = call[c].hash
                 /\ NewState(c).activation = Len(events) + Len(NewEvents(c))
            ELSE /\ NewState(c).active = state.active
                 /\ NewState(c).activation = state.activation
<1> DEFINE row == [hash |-> call[c].hash, digest |-> call[c].digest]
<1>1. call[c].hash \in Hashes /\ row \in [hash : Hashes, digest : Digests]
  BY Checked
<1>2. /\ evidence \in Seq([hash : Hashes, digest : Digests])
      /\ Len(evidence) \in Nat /\ row.hash = call[c].hash
  BY DEF Safe, TypeOK
<1>3. NewEvidence(c) = IF call[c].op = ReadyRecorded THEN Append(evidence, row) ELSE evidence
  BY DEF NewEvidence
<1>4. state \in [active : Hashes \cup {NoHash}, activation : Nat, epoch : Nat]
  BY DEF Safe, TypeOK
<1>5. Len(events) + Len(NewEvents(c)) \in Nat
  BY HistoryExtended
<1> DEFINE m == Len(events) + Len(NewEvents(c))
<1>6. NewState(c) = CASE call[c].op = Revoked -> [state EXCEPT !.epoch = @ + 1]
                      [] call[c].op \in Activations ->
                            [state EXCEPT !.active = call[c].hash, !.activation = m]
                      [] OTHER -> state
  BY DEF NewState
<1>7. call[c].op \in Activations => call[c].op # Revoked
  BY DEF Activations, Revoked
<1> HIDE DEF row, m
<1>8. /\ NewState(c) \in [active : Hashes \cup {NoHash}, activation : Nat, epoch : Nat]
      /\ NewState(c).epoch = IF call[c].op = Revoked THEN state.epoch + 1 ELSE state.epoch
      /\ IF call[c].op \in Activations
         THEN NewState(c).active = call[c].hash /\ NewState(c).activation = m
         ELSE /\ NewState(c).active = state.active
              /\ NewState(c).activation = state.activation
  <2>1. CASE call[c].op = Revoked
    <3>1. NewState(c) = [state EXCEPT !.epoch = @ + 1] /\ call[c].op \notin Activations
      BY <1>6, <1>7, <2>1
    <3> QED BY <1>4, <2>1, <3>1
  <2>2. CASE call[c].op \in Activations
    <3>1. NewState(c) = [state EXCEPT !.active = call[c].hash, !.activation = m]
          /\ call[c].op # Revoked
      BY <1>6, <1>7, <2>2
    <3>2. m \in Nat
      BY <1>5 DEF m
    <3> QED BY <1>1, <1>4, <2>2, <3>1, <3>2
  <2>3. CASE call[c].op # Revoked /\ call[c].op \notin Activations
    <3>1. NewState(c) = state
      BY <1>6, <2>3
    <3> QED BY <1>4, <2>3, <3>1
  <2> QED BY <2>1, <2>2, <2>3
<1>9. /\ NewEvidence(c) \in Seq([hash : Hashes, digest : Digests])
      /\ Len(NewEvidence(c)) \in Nat
      /\ \A i \in 1 .. Len(evidence) : NewEvidence(c)[i] = evidence[i]
      /\ IF call[c].op = ReadyRecorded
         THEN /\ Len(NewEvidence(c)) = Len(evidence) + 1
              /\ NewEvidence(c)[Len(evidence) + 1].hash = call[c].hash
         ELSE NewEvidence(c) = evidence
  <2>1. CASE call[c].op = ReadyRecorded
    <3>1. NewEvidence(c) = Append(evidence, row)
      BY <1>3, <2>1
    <3>2. /\ NewEvidence(c) \in Seq([hash : Hashes, digest : Digests])
          /\ Len(NewEvidence(c)) = Len(evidence) + 1
          /\ \A i \in 1 .. Len(evidence) : NewEvidence(c)[i] = evidence[i]
          /\ NewEvidence(c)[Len(evidence) + 1] = row
      BY <1>1, <1>2, <3>1, AppendProperties
    <3> QED BY <1>2, <2>1, <3>2
  <2>2. CASE call[c].op # ReadyRecorded
    <3>1. NewEvidence(c) = evidence
      BY <1>3, <2>2
    <3> QED BY <1>2, <2>2, <3>1
  <2> QED BY <2>1, <2>2
<1> QED BY <1>2, <1>8, <1>9 DEF m

LEMMA EventFields ==
  ASSUME NEW type, NEW hash, NEW prev, NEW next, NEW proof, NEW before, NEW after
  PROVE  LET e == Event(type, hash, prev, next, proof, <<before, after>>) IN
         /\ e.type = type /\ e.hash = hash /\ e.prev = prev /\ e.next = next
         /\ e.evidence = proof /\ e.before = before /\ e.after = after
BY DEF Event

(* The fields of the events a call writes.                                 *)
LEMMA Fields ==
  ASSUME Safe, NEW c \in Clients, call[c].pc = "write"
  PROVE  /\ call[c].op \notin Activations =>
               /\ OtherEvent(c).type = call[c].op
               /\ OtherEvent(c).hash = IF call[c].op = Revoked THEN state.active
                                       ELSE call[c].hash
               /\ OtherEvent(c).prev = IF call[c].op = Revoked THEN state.active ELSE NoHash
               /\ OtherEvent(c).next = NoHash
               /\ OtherEvent(c).evidence = IF call[c].op = ReadyRecorded
                                           THEN Len(evidence) + 1 ELSE 0
               /\ call[c].op # Revoked => OtherEvent(c).before = 0 /\ OtherEvent(c).after = 0
               /\ call[c].op = Revoked => /\ OtherEvent(c).before = state.epoch
                                          /\ OtherEvent(c).after = state.epoch + 1
         /\ ActivationEvent(c).type = call[c].op /\ ActivationEvent(c).hash = call[c].hash
         /\ ActivationEvent(c).prev = state.active /\ ActivationEvent(c).next = call[c].hash
         /\ ActivationEvent(c).evidence = call[c].proof
         /\ ActivationEvent(c).before = ActivationEvent(c).after
         /\ SupersededEvent(c).type = Superseded /\ SupersededEvent(c).prev = state.active
         /\ SupersededEvent(c).next = call[c].hash /\ SupersededEvent(c).hash = call[c].hash
         /\ SupersededEvent(c).evidence = 0
         /\ SupersededEvent(c).before = SupersededEvent(c).after
<1>0. /\ ActivationEvent(c).type = call[c].op /\ ActivationEvent(c).hash = call[c].hash
      /\ ActivationEvent(c).prev = state.active /\ ActivationEvent(c).next = call[c].hash
      /\ ActivationEvent(c).evidence = call[c].proof
      /\ ActivationEvent(c).before = ActivationEvent(c).after
      /\ SupersededEvent(c).type = Superseded /\ SupersededEvent(c).prev = state.active
      /\ SupersededEvent(c).next = call[c].hash /\ SupersededEvent(c).hash = call[c].hash
      /\ SupersededEvent(c).evidence = 0
      /\ SupersededEvent(c).before = SupersededEvent(c).after
  BY EventFields DEF ActivationEvent, SupersededEvent
<1>1. call[c].op \notin Activations => call[c].op \in {Confirmed, ReadyRecorded, Revoked}
  BY Checked DEF Ops, OwnerOps, SystemOps
<1>3. CASE call[c].op = Confirmed
  <2>1. OtherEvent(c) = Event(Confirmed, call[c].hash, NoHash, NoHash, 0, <<0, 0>>)
    BY <1>3, Distinct DEF OtherEvent
  <2> QED BY <1>0, <1>3, <2>1, Distinct, EventFields
<1>4. CASE call[c].op = ReadyRecorded
  <2>1. OtherEvent(c) = Event(ReadyRecorded, call[c].hash, NoHash, NoHash,
                              Len(evidence) + 1, <<0, 0>>)
    BY <1>4, Distinct DEF OtherEvent
  <2> QED BY <1>0, <1>4, <2>1, Distinct, EventFields
<1>5. CASE call[c].op = Revoked
  <2>1. OtherEvent(c) = Event(Revoked, state.active, state.active, NoHash, 0,
                              <<state.epoch, state.epoch + 1>>)
    BY <1>5, Distinct DEF OtherEvent
  <2> QED BY <1>0, <1>5, <2>1, Distinct, EventFields
<1> QED BY <1>0, <1>1, <1>3, <1>4, <1>5

(* A commit, in the words of the tables before and after it.               *)
LEMMA Committed ==
  ASSUME Safe, NEW c \in Clients, Commit(c)
  PROVE  LET n == Len(events) last == Len(events') IN
         /\ n \in Nat /\ last \in Nat /\ n < last /\ events' \in Seq(EventRecord)
         /\ DOMAIN events = 1 .. n /\ DOMAIN events' = 1 .. last
         /\ \A i \in 1 .. n : events'[i] = events[i]
         /\ call[c].op \notin Activations =>
               /\ last = n + 1 /\ events'[last].type = call[c].op
               /\ call[c].op # Revoked => events'[last].hash = call[c].hash
               /\ state'.active = state.active /\ state'.activation = state.activation
         /\ call[c].op \in Activations =>
               /\ state'.active = call[c].hash /\ state'.activation = last
               /\ events'[last].type = call[c].op /\ events'[last].hash = call[c].hash
               /\ events'[last].next = call[c].hash /\ events'[last].prev = state.active
               /\ state.active = NoHash => last = n + 1
               /\ state.active # NoHash =>
                     /\ last = n + 2 /\ events'[n + 1].type = Superseded
                     /\ events'[n + 1].prev = state.active
         /\ evidence' = NewEvidence(c) /\ state' = NewState(c) /\ call[c].pc = "write"
<1>1. /\ call[c].pc = "write" /\ events' = events \o NewEvents(c)
      /\ evidence' = NewEvidence(c) /\ state' = NewState(c)
  BY DEF Commit
<1>2. events \in Seq(EventRecord)
  BY DEF Safe, TypeOK
<1>3. Len(NewEvents(c)) = IF call[c].op \in Activations /\ state.active # NoHash
                          THEN 2 ELSE 1
  BY <1>1, HistoryExtended
<1>4. /\ Len(events) \in Nat /\ events' \in Seq(EventRecord)
      /\ Len(events') = Len(events) + Len(NewEvents(c))
      /\ \A i \in 1 .. Len(events) : events'[i] = events[i]
  BY <1>1, HistoryExtended
<1>5. CASE call[c].op \notin Activations
  <2>1. events'[Len(events) + 1] = OtherEvent(c)
    BY <1>1, <1>5, HistoryExtended
  <2> QED BY <1>1, <1>2, <1>3, <1>4, <1>5, <2>1, Fields, TablesExtended
<1>6. CASE call[c].op \in Activations
  <2>1. /\ events'[Len(events')] = ActivationEvent(c)
        /\ state.active # NoHash => events'[Len(events) + 1] = SupersededEvent(c)
    BY <1>1, <1>4, <1>6, HistoryExtended
  <2>2. state'.active = call[c].hash /\ state'.activation = Len(events')
    BY <1>1, <1>4, <1>6, TablesExtended
  <2> QED BY <1>1, <1>2, <1>3, <1>4, <1>6, <2>1, <2>2, Fields
<1> QED BY <1>5, <1>6

LEMMA PointerKept ==
  ASSUME Safe, NEW c \in Clients, Commit(c)
  PROVE  PointsAtLast'
<1> DEFINE n == Len(events)
           last == Len(events')
<1>1. /\ n \in Nat /\ last \in Nat /\ n < last
      /\ DOMAIN events = 1 .. n /\ DOMAIN events' = 1 .. last
      /\ \A i \in 1 .. n : events'[i] = events[i]
  BY Committed
<1>2. CASE call[c].op \in Activations
  <2>1. /\ state'.activation = last /\ state'.active = call[c].hash
        /\ events'[last].type = call[c].op /\ events'[last].hash = call[c].hash
        /\ events'[last].next = call[c].hash
    BY <1>2, Committed
  <2>2. call[c].hash \in Hashes
    BY Checked, Committed
  <2> HIDE DEF n, last
  <2> QED BY <1>1, <1>2, <2>1, <2>2 DEF PointsAtLast, Activation
<1>3. CASE call[c].op \notin Activations
  <2>1. /\ last = n + 1 /\ events'[last].type = call[c].op
        /\ state'.active = state.active /\ state'.activation = state.activation
    BY <1>3, Committed
  <2>2. PointsAtLast
    BY DEF Safe
  <2> HIDE DEF n, last
  <2> QED BY <1>1, <1>3, <2>1, <2>2 DEF PointsAtLast, Activation
<1> QED BY <1>2, <1>3

(* Nothing recorded is forgotten.                                          *)
LEMMA RatificationKept ==
  ASSUME Safe, NEW c \in Clients, Commit(c), NEW h
  PROVE  /\ IsConfirmed(h) => IsConfirmed(h)'
         /\ IsReady(h) => IsReady(h)'
<1>1. /\ Len(events) \in Nat /\ Len(events') \in Nat /\ Len(events) < Len(events')
      /\ DOMAIN events = 1 .. Len(events) /\ DOMAIN events' = 1 .. Len(events')
      /\ \A i \in 1 .. Len(events) : events'[i] = events[i]
  BY Committed
<1>2. /\ evidence' \in Seq([hash : Hashes, digest : Digests])
      /\ evidence \in Seq([hash : Hashes, digest : Digests])
      /\ Len(evidence') \in Nat /\ Len(evidence) \in Nat /\ Len(evidence) <= Len(evidence')
      /\ \A i \in 1 .. Len(evidence) : evidence'[i] = evidence[i]
  <2>1. evidence' = NewEvidence(c) /\ call[c].pc = "write"
    BY Committed
  <2>2. /\ NewEvidence(c) \in Seq([hash : Hashes, digest : Digests])
        /\ Len(NewEvidence(c)) \in Nat /\ Len(evidence) \in Nat
        /\ Len(NewEvidence(c)) = Len(evidence) + 1 \/ NewEvidence(c) = evidence
        /\ \A i \in 1 .. Len(evidence) : NewEvidence(c)[i] = evidence[i]
    BY <2>1, TablesExtended
  <2>3. evidence \in Seq([hash : Hashes, digest : Digests])
    BY DEF Safe, TypeOK
  <2> QED BY <2>1, <2>2, <2>3
<1>3. DOMAIN evidence = 1 .. Len(evidence) /\ DOMAIN evidence' = 1 .. Len(evidence')
  BY <1>2
<1>4. IsConfirmed(h) => IsConfirmed(h)'
  BY <1>1 DEF IsConfirmed
<1>5. IsReady(h) => IsReady(h)'
  BY <1>2, <1>3 DEF IsReady
<1> QED BY <1>4, <1>5

LEMMA RatifiedKept ==
  ASSUME Safe, NEW c \in Clients, Commit(c)
  PROVE  ActiveIsRatified'
<1>1. call[c].pc = "write" /\ ActiveIsRatified
  BY Committed DEF Safe
<1>2. CASE call[c].op \in Activations
  <2>1. state'.active = call[c].hash /\ IsConfirmed(call[c].hash)
    BY <1>1, <1>2, Committed, Checked
  <2>2. IsReady(call[c].hash)
    <3>1. call[c].proof \in 1 .. Len(evidence) /\ evidence[call[c].proof].hash = call[c].hash
      BY <1>1, <1>2, Checked
    <3>2. DOMAIN evidence = 1 .. Len(evidence)
      BY DEF Safe, TypeOK
    <3> QED BY <3>1, <3>2 DEF IsReady
  <2> PICK h : h = call[c].hash
    OBVIOUS
  <2>3. state'.active = h /\ IsConfirmed(h) /\ IsReady(h)
    BY <2>1, <2>2
  <2>4. IsConfirmed(h)' /\ IsReady(h)'
    BY <2>3, RatificationKept
  <2> QED BY <2>3, <2>4 DEF ActiveIsRatified, IsConfirmed, IsReady
<1>3. CASE call[c].op \notin Activations
  <2>1. state'.active = state.active
    BY <1>3, Committed
  <2> PICK h : h = state.active
    OBVIOUS
  <2>2. h # NoHash => IsConfirmed(h)' /\ IsReady(h)'
    BY <1>1, RatificationKept DEF ActiveIsRatified
  <2> QED BY <2>1, <2>2 DEF ActiveIsRatified, IsConfirmed, IsReady
<1> QED BY <1>2, <1>3

LEMMA EpochKept ==
  ASSUME Safe, NEW c \in Clients, Commit(c)
  PROVE  EpochCounts'
<1> DEFINE n == Len(events)
           last == Len(events')
<1>1. /\ n \in Nat /\ last \in Nat /\ n < last /\ call[c].pc = "write"
      /\ DOMAIN events = 1 .. n /\ DOMAIN events' = 1 .. last
      /\ \A i \in 1 .. n : events'[i] = events[i]
  BY Committed
<1>2. IsFiniteSet(Revocations)
  <2>1. Revocations \subseteq 1 .. n /\ n \in Int
    BY <1>1 DEF Revocations
  <2>2. IsFiniteSet(1 .. n)
    BY <2>1, FS_Interval
  <2> QED BY <2>1, <2>2, FS_Subset
<1>3. state'.epoch = IF call[c].op = Revoked THEN state.epoch + 1 ELSE state.epoch
  BY <1>1, TablesExtended DEF Commit
<1>4. CASE call[c].op = Revoked
  <2>1. last = n + 1 /\ events'[last].type = Revoked
    BY <1>4, Committed, Distinct
  <2>2. Revocations' = Revocations \cup {last} /\ last \notin Revocations
    BY <1>1, <2>1 DEF Revocations
  <2>3. Cardinality(Revocations \cup {last}) = Cardinality(Revocations) + 1
    BY <1>2, <2>2, FS_AddElement
  <2> QED BY <1>3, <1>4, <2>2, <2>3 DEF Safe, EpochCounts
<1>5. CASE call[c].op # Revoked
  <2>1. \A i \in n + 1 .. last : events'[i].type # Revoked
    <3>1. CASE call[c].op \notin Activations
      <4>1. last = n + 1 /\ events'[last].type # Revoked
        BY <1>5, <3>1, Committed
      <4> HIDE DEF n, last
      <4> QED BY <1>1, <4>1
    <3>2. CASE call[c].op \in Activations
      <4>1. events'[last].type # Revoked
        BY <1>5, <3>2, Committed
      <4>2. last = n + 1 \/ (last = n + 2 /\ events'[n + 1].type = Superseded)
        BY <3>2, Committed
      <4> HIDE DEF n, last
      <4> QED BY <1>1, <4>1, <4>2, Distinct
    <3> QED BY <3>1, <3>2
  <2>2. Revocations' = Revocations
    BY <1>1, <2>1 DEF Revocations
  <2> QED BY <1>3, <1>5, <2>2 DEF Safe, EpochCounts
<1> QED BY <1>4, <1>5

LEMMA ChainKept ==
  ASSUME Safe, NEW c \in Clients, Commit(c)
  PROVE  Chained'
<1> DEFINE n == Len(events)
           last == Len(events')
<1>1. /\ n \in Nat /\ last \in Nat /\ n < last
      /\ DOMAIN events = 1 .. n /\ DOMAIN events' = 1 .. last
      /\ \A i \in 1 .. n : events'[i] = events[i]
  BY Committed
<1>2. /\ call[c].op \notin Activations => last = n + 1 /\ events'[last].type = call[c].op
      /\ call[c].op \in Activations =>
            /\ events'[last].prev = state.active
            /\ state.active = NoHash => last = n + 1
            /\ state.active # NoHash => /\ last = n + 2 /\ events'[n + 1].type = Superseded
                                        /\ events'[n + 1].prev = state.active
  BY Committed
<1>3. PointsAtLast /\ Chained /\ NoHash \notin Hashes
  BY ConstitutionAssumption DEF Safe
<1> HIDE DEF n, last
<1> SUFFICES ASSUME NEW i \in 1 .. last, events'[i].type \in Activations
             PROVE  Continues(i)' /\ FollowsSuperseded(i)'
  BY <1>1 DEF Chained, Activation
<1>4. CASE i <= n
  <2>1. i \in 1 .. n /\ events'[i] = events[i] /\ Activation(i)
    BY <1>1, <1>4 DEF Activation
  <2>2. Continues(i) /\ FollowsSuperseded(i)
    BY <1>1, <1>3, <2>1 DEF Chained
  <2>3. \A j \in 1 .. i - 1 : events'[j] = events[j]
    BY <1>1, <2>1
  <2>4. Continues(i)'
    BY <2>1, <2>2, <2>3 DEF Continues, Activation
  <2>5. FollowsSuperseded(i)'
    <3>1. i > 1 => i - 1 \in 1 .. i - 1
      BY <2>1
    <3> QED BY <2>1, <2>2, <2>3, <3>1 DEF FollowsSuperseded
  <2> QED BY <2>4, <2>5
<1>5. CASE i > n
  <2>1. call[c].op \in Activations
    BY <1>1, <1>2, <1>5
  <2>2. CASE state.active = NoHash
    <3>1. i = n + 1 /\ events'[i].prev = NoHash
      BY <1>1, <1>2, <1>5, <2>1, <2>2
    <3>2. \A j \in 1 .. n : ~Activation(j)
      BY <1>1, <1>3, <2>2 DEF PointsAtLast
    <3>3. \A j \in 1 .. i - 1 : events'[j].type \notin Activations
      BY <1>1, <3>1, <3>2 DEF Activation
    <3> QED BY <3>1, <3>3 DEF Continues, FollowsSuperseded, Activation
  <2>3. CASE state.active # NoHash
    <3>1. /\ i = n + 2 /\ events'[i].prev = state.active
          /\ events'[n + 1].type = Superseded /\ events'[n + 1].prev = state.active
      BY <1>1, <1>2, <1>5, <2>1, <2>3, Distinct
    <3> PICK j : j = state.activation
      OBVIOUS
    <3>2. /\ j \in 1 .. n /\ events[j].type \in Activations /\ events[j].next = state.active
          /\ \A k \in 1 .. n : k > j => events[k].type \notin Activations
      BY <1>1, <1>3, <2>3 DEF PointsAtLast, Activation
    <3>3. /\ j \in 1 .. i - 1 /\ events'[j].type \in Activations
          /\ events'[j].next = state.active
          /\ \A k \in 1 .. i - 1 : k > j => events'[k].type \notin Activations
      BY <1>1, <3>1, <3>2, Distinct
    <3>4. Continues(i)'
      BY <3>1, <3>3 DEF Continues, Activation
    <3>5. i > 1 /\ i - 1 = n + 1
      BY <1>1, <3>1
    <3> QED BY <3>1, <3>4, <3>5 DEF FollowsSuperseded
  <2> QED BY <2>2, <2>3
<1> QED BY <1>1, <1>4, <1>5

(* The strengthening is inductive.                                         *)
LEMMA SafeStep ==
  ASSUME Safe, [Next]_vars
  PROVE  Safe'
<1>1. CASE \E c \in Clients : Commit(c)
  <2> PICK c \in Clients : Commit(c)
    BY <1>1
  <2>1. call[c].pc = "write" /\ evidence' = NewEvidence(c) /\ state' = NewState(c)
        /\ events' \in Seq(EventRecord)
    BY Committed
  <2>2. /\ evidence' \in Seq([hash : Hashes, digest : Digests])
        /\ state' \in [active : Hashes \cup {NoHash}, activation : Nat, epoch : Nat]
        /\ Len(evidence) <= Len(evidence') /\ Len(evidence') \in Nat
    <3>1. /\ Len(NewEvidence(c)) = Len(evidence) + 1 \/ NewEvidence(c) = evidence
          /\ Len(evidence) \in Nat /\ Len(NewEvidence(c)) \in Nat
          /\ NewEvidence(c) \in Seq([hash : Hashes, digest : Digests])
          /\ NewState(c) \in [active : Hashes \cup {NoHash}, activation : Nat, epoch : Nat]
      BY <2>1, TablesExtended
    <3> QED BY <2>1, <3>1
  <2>3. /\ versions' \subseteq Hashes
        /\ call' \in [Clients -> CallRecord] /\ lock' \in Clients \cup {NoClient}
        /\ made' \in 0 .. MaxCalls /\ faults' \in 0 .. MaxFaults
        /\ pool' = PoolSize - Cardinality(Holders') /\ Cardinality(Holders') <= PoolSize
        /\ Arguments' /\ WriterHasLock'
    BY <2>2, CallsStep
  <2>4. TypeOK'
    BY <2>1, <2>2, <2>3 DEF TypeOK, Holders
  <2>5. ChecksHold'
    <3>1. lock = c /\ NoClient \notin Clients
      BY <2>1, Checked, ConstitutionAssumption
    <3>2. lock' = NoClient
      BY <3>1 DEF Commit, Released
    <3> QED BY <2>3, <3>1, <3>2 DEF ChecksHold, WriterHasLock
  <2> QED BY <2>3, <2>4, <2>5, PointerKept, RatifiedKept, EpochKept, ChainKept DEF Safe
<1>2. CASE \A c \in Clients : ~Commit(c)
  <2>1. UNCHANGED <<events, evidence, state>>
    BY <1>2, OnlyCommitWrites
  <2>2. Len(evidence) \in Nat /\ Len(evidence') = Len(evidence)
    BY <2>1 DEF Safe, TypeOK
  <2>3. /\ versions \subseteq versions' /\ versions' \subseteq Hashes
        /\ call' \in [Clients -> CallRecord] /\ lock' \in Clients \cup {NoClient}
        /\ made' \in 0 .. MaxCalls /\ faults' \in 0 .. MaxFaults
        /\ pool' = PoolSize - Cardinality(Holders') /\ Cardinality(Holders') <= PoolSize
        /\ Arguments' /\ WriterHasLock'
    BY <2>2, CallsStep
  <2>4. TypeOK'
    BY <2>1, <2>3 DEF TypeOK, Holders, Safe
  <2>5. ChecksHold'
    BY <2>1, <2>3, ChecksStillHold
  <2>6. PointsAtLast' /\ ActiveIsRatified' /\ EpochCounts' /\ Chained'
    BY <2>1 DEF Safe, PointsAtLast, ActiveIsRatified, EpochCounts, Chained, Activation,
                Continues, FollowsSuperseded, Revocations, IsConfirmed, IsReady
  <2> QED BY <2>3, <2>4, <2>5, <2>6 DEF Safe
<1> QED BY <1>1, <1>2

(* The tables keep their types and the connections add up, for every        *)
(* number of clients and connections, whatever is lost or repeated.        *)
THEOREM SafetyInvariant == Spec => []Safe
<1>1. Safe /\ [Next]_vars => Safe'
  BY SafeStep
<1> QED BY <1>1, InitSafe, PTL DEF Spec

---------------------------------------------------------------------------
(* What follows from it.                                                   *)

LEMMA LatestActivation ==
  ASSUME Safe
  PROVE  LatestOf(Activations) = state.activation
<1> DEFINE at == {i \in DOMAIN events : events[i].type \in Activations}
<1>1. PointsAtLast /\ DOMAIN events = 1 .. Len(events) /\ Len(events) \in Nat
  BY DEF Safe, TypeOK
<1>2. LatestOf(Activations) = IF at = {} THEN 0 ELSE CHOOSE i \in at : \A j \in at : j <= i
  BY DEF LatestOf
<1>3. CASE state.activation = 0
  <2>1. at = {}
    BY <1>1, <1>3 DEF PointsAtLast, Activation
  <2> QED BY <1>2, <1>3, <2>1
<1>4. CASE state.activation # 0
  <2> PICK a : a = state.activation
    OBVIOUS
  <2>1. a \in at /\ \A j \in at : j <= a
    BY <1>1, <1>4 DEF PointsAtLast, Activation
  <2>2. at \subseteq Nat
    BY <1>1
  <2> HIDE DEF at
  <2>3. \A i \in at : (\A j \in at : j <= i) => i = a
    BY <2>1, <2>2
  <2>4. (CHOOSE i \in at : \A j \in at : j <= i) = a
    BY <2>1, <2>3
  <2> QED BY <1>2, <2>1, <2>4
<1> QED BY <1>3, <1>4

LEMMA SafeIsProjection ==
  ASSUME Safe
  PROVE  ProjectionOfHistory
<1>1. PointsAtLast /\ EpochCounts /\ Chained /\ DOMAIN events = 1 .. Len(events)
      /\ Len(events) \in Nat /\ NoHash \notin Hashes
  BY ConstitutionAssumption DEF Safe, TypeOK
<1>2. state.activation = LatestOf(Activations)
  BY LatestActivation
<1>3. state.active = IF LatestOf(Activations) = 0 THEN NoHash
                     ELSE events[LatestOf(Activations)].next
  BY <1>1, <1>2 DEF PointsAtLast
<1>4. state.epoch = Cardinality({i \in DOMAIN events : events[i].type = Revoked})
  BY <1>1 DEF EpochCounts, Revocations
<1>5. ASSUME NEW i \in DOMAIN events, events[i].type \in Activations
      PROVE  LET before == {j \in 1 .. i - 1 : events[j].type \in Activations} IN
             /\ events[i].prev =
                   IF before = {} THEN NoHash
                   ELSE events[CHOOSE j \in before : \A k \in before : k <= j].next
             /\ events[i].prev # NoHash =>
                   /\ i > 1 /\ events[i - 1].type = Superseded
                   /\ events[i - 1].prev = events[i].prev
  <2> DEFINE before == {j \in 1 .. i - 1 : events[j].type \in Activations}
  <2>1. Continues(i) /\ FollowsSuperseded(i)
    BY <1>1, <1>5 DEF Chained, Activation
  <2>2. CASE before = {}
    <3>1. events[i].prev = NoHash
      BY <2>1, <2>2 DEF Continues, Activation
    <3> QED BY <2>1, <2>2, <3>1 DEF FollowsSuperseded
  <2>3. CASE before # {}
    <3>1. PICK j \in 1 .. i - 1 :
             /\ events[j].type \in Activations /\ events[i].prev = events[j].next
             /\ \A k \in 1 .. i - 1 : k > j => events[k].type \notin Activations
      BY <2>1, <2>3 DEF Continues, Activation
    <3>2. j \in before /\ before \subseteq Nat /\ \A k \in before : k <= j
      BY <1>1, <3>1
    <3> HIDE DEF before
    <3>3. \A m \in before : (\A k \in before : k <= m) => m = j
      BY <3>2
    <3>4. (CHOOSE m \in before : \A k \in before : k <= m) = j
      BY <3>2, <3>3
    <3>5. events[i].prev = IF before = {} THEN NoHash
             ELSE events[CHOOSE m \in before : \A k \in before : k <= m].next
      BY <2>3, <3>1, <3>4
    <3> QED BY <2>1, <3>5 DEF FollowsSuperseded, before
  <2> QED BY <2>2, <2>3
<1> QED BY <1>2, <1>3, <1>4, <1>5 DEF ProjectionOfHistory

(* The payloads the events of a call are about are recorded, and so is the  *)
(* active one.                                                             *)
LEMMA ActiveKnown ==
  ASSUME Safe, Known
  PROVE  Refers(state.active)
BY DEF Safe, PointsAtLast, Known, Refers

LEMMA WrittenKnown ==
  ASSUME Safe, Known, NEW c \in Clients, call[c].pc = "write",
         NEW history, history = events \o NewEvents(c),
         NEW i \in Len(events) + 1 .. Len(history)
  PROVE  history[i].hash \in versions
<1>1. /\ Len(events) \in Nat /\ Len(history) = Len(events) + Len(NewEvents(c))
      /\ call[c].op \notin Activations =>
            Len(NewEvents(c)) = 1 /\ history[Len(events) + 1] = OtherEvent(c)
      /\ call[c].op \in Activations =>
            /\ history[Len(events) + Len(NewEvents(c))] = ActivationEvent(c)
            /\ state.active = NoHash => Len(NewEvents(c)) = 1
            /\ state.active # NoHash =>
                  Len(NewEvents(c)) = 2 /\ history[Len(events) + 1] = SupersededEvent(c)
  BY HistoryExtended
<1>2. call[c].op \in Activations => call[c].op # Revoked
  BY Distinct
<1>3. CASE call[c].op \in Activations
  <2>1. history[i] = ActivationEvent(c) \/ history[i] = SupersededEvent(c)
    <3>1. CASE state.active = NoHash
      BY <1>1, <1>3, <3>1
    <3>2. CASE state.active # NoHash
      BY <1>1, <1>3, <3>2
    <3> QED BY <3>1, <3>2
  <2>2. ActivationEvent(c).hash = call[c].hash /\ SupersededEvent(c).hash = call[c].hash
    BY Fields
  <2> QED BY <1>2, <1>3, <2>1, <2>2, Checked
<1>4. CASE call[c].op \notin Activations
  <2>1. history[i] = OtherEvent(c)
    BY <1>1, <1>4
  <2>2. OtherEvent(c).hash = IF call[c].op = Revoked THEN state.active ELSE call[c].hash
    BY <1>4, Fields
  <2>3. CASE call[c].op = Revoked
    <3>1. state.active # NoHash
      BY <2>3, Checked
    <3> QED BY <2>1, <2>2, <2>3, <3>1, ActiveKnown DEF Refers
  <2>4. CASE call[c].op # Revoked
    BY <2>1, <2>2, <2>4, Checked
  <2> QED BY <2>3, <2>4
<1> QED BY <1>3, <1>4

LEMMA KnownInit == Init => Known
<1> SUFFICES ASSUME Init PROVE Known
  OBVIOUS
<1> DEFINE n == Len(RatifiedRows)
<1>1. n \in Nat /\ \A i \in 1 .. n : RatifiedRows[i] \in Ratified
  BY RowsOfRatified
<1>2. events = History /\ versions = Ratified
  BY DEF Init
<1>3. ASSUME NEW i \in 1 .. n + n PROVE History[i].hash \in Ratified
  <2>1. CASE i <= n
    <3>1. History[i] = Event(Confirmed, RatifiedRows[i], NoHash, NoHash, 0, <<0, 0>>)
      BY <1>1, <2>1 DEF History
    <3> QED BY <1>1, <2>1, <3>1 DEF Event
  <2>2. CASE ~(i <= n)
    <3>1. History[i] = Event(ReadyRecorded, RatifiedRows[i - n], NoHash, NoHash, i - n, <<0, 0>>)
      BY <1>1, <2>2 DEF History
    <3>2. i - n \in 1 .. n
      BY <1>1, <2>2
    <3> QED BY <1>1, <3>1, <3>2 DEF Event
  <2> QED BY <2>1, <2>2
<1>4. DOMAIN History = 1 .. n + n
  BY DEF History
<1> QED BY <1>2, <1>3, <1>4 DEF Known

LEMMA KnownStep ==
  ASSUME Safe, Known, [Next]_vars
  PROVE  Known'
<1>1. versions \subseteq versions'
  BY DEF Next, vars, BootstrapRecordVersion, Begin, Retry, Step, Connect,
         ConnectTimesOut, TakeLock, Commit, ReadBack, ReadBackTimesOut,
         ConnectionLost, Rollback
<1>2. CASE \E c \in Clients : Commit(c)
  <2> PICK c \in Clients : Commit(c)
    BY <1>2
  <2>1. /\ Len(events) \in Nat /\ Len(events') \in Nat /\ call[c].pc = "write"
        /\ DOMAIN events = 1 .. Len(events) /\ DOMAIN events' = 1 .. Len(events')
        /\ \A i \in 1 .. Len(events) : events'[i] = events[i]
        /\ events' = events \o NewEvents(c)
    BY Committed DEF Commit
  <2>2. \A i \in Len(events) + 1 .. Len(events') : events'[i].hash \in versions
    BY <2>1, WrittenKnown
  <2> QED BY <1>1, <2>1, <2>2 DEF Known
<1>3. CASE \A c \in Clients : ~Commit(c)
  BY <1>1, <1>3, OnlyCommitWrites DEF Known
<1> QED BY <1>2, <1>3

(* The foreign keys, the constraints and the trigger accept the events of a *)
(* call.                                                                   *)
LEMMA EventsAccepted ==
  ASSUME Safe, Known, NEW c \in Clients, call[c].pc = "write",
         NEW history, history = events \o NewEvents(c),
         NEW i \in Len(events) + 1 .. Len(history)
  PROVE  EventAccepted(history[i], NewEvidence(c))
<1> DEFINE n == Len(events)
<1> PICK e, rows : e = history[i] /\ rows = NewEvidence(c)
  OBVIOUS
<1>1. /\ n \in Nat /\ Len(history) = n + Len(NewEvents(c))
      /\ call[c].op \notin Activations =>
            Len(NewEvents(c)) = 1 /\ history[n + 1] = OtherEvent(c)
      /\ call[c].op \in Activations =>
            /\ history[n + Len(NewEvents(c))] = ActivationEvent(c)
            /\ state.active = NoHash => Len(NewEvents(c)) = 1
            /\ state.active # NoHash =>
                  Len(NewEvents(c)) = 2 /\ history[n + 1] = SupersededEvent(c)
  BY HistoryExtended
<1>2. e.hash \in versions /\ Refers(state.active) /\ Refers(NoHash)
  <2>1. history[i].hash \in versions
    BY WrittenKnown
  <2> QED BY <2>1, ActiveKnown DEF Refers
<1>3. /\ rows \in Seq([hash : Hashes, digest : Digests])
      /\ Len(rows) \in Nat /\ DOMAIN rows = 1 .. Len(rows) /\ Len(evidence) \in Nat
  <2>1. rows \in Seq([hash : Hashes, digest : Digests]) /\ Len(evidence) \in Nat
    BY TablesExtended
  <2> QED BY <2>1
<1>4. CASE call[c].op \in Activations
  <2>1. \/ e = ActivationEvent(c)
        \/ state.active # NoHash /\ e = SupersededEvent(c)
    BY <1>1, <1>4
  <2>2. /\ state.active # call[c].hash /\ call[c].proof \in 1 .. Len(evidence)
        /\ evidence[call[c].proof].hash = call[c].hash
    BY <1>4, Checked
  <2>3. rows = evidence
    <3>1. call[c].op # ReadyRecorded
      BY <1>4, Distinct
    <3> QED BY <3>1, TablesExtended
  <2>4. CASE e = ActivationEvent(c)
    <3>1. /\ e.type \in Activations /\ e.prev = state.active /\ e.next = e.hash
          /\ e.after = e.before /\ e.evidence = call[c].proof /\ e.hash = call[c].hash
      BY <1>4, <2>4, Fields
    <3>2. e.type \notin {Confirmed, ReadyRecorded, Superseded, Revoked}
      BY <3>1, Distinct
    <3>3. e.evidence # 0 /\ e.evidence \in DOMAIN rows /\ rows[e.evidence].hash = e.hash
      BY <1>3, <2>2, <2>3, <3>1
    <3>4. Refers(e.prev) /\ Refers(e.next)
      BY <1>2, <3>1 DEF Refers
    <3> QED BY <1>2, <3>1, <3>2, <3>3, <3>4 DEF EventAccepted
  <2>5. CASE state.active # NoHash /\ e = SupersededEvent(c)
    <3>1. /\ e.type = Superseded /\ e.prev = state.active /\ e.prev \notin {NoHash, e.next}
          /\ e.next = e.hash /\ e.evidence = 0 /\ e.after = e.before
      BY <2>2, <2>5, Fields
    <3>2. Refers(e.prev) /\ Refers(e.next)
      BY <1>2, <3>1 DEF Refers
    <3> QED BY <1>2, <3>1, <3>2, Distinct DEF EventAccepted
  <2> QED BY <2>1, <2>4, <2>5
<1>5. CASE call[c].op \notin Activations
  <2>1. e = OtherEvent(c)
    BY <1>1, <1>5
  <2>2. call[c].op \in {Confirmed, ReadyRecorded, Revoked}
    BY <1>5, Checked DEF Ops, OwnerOps, SystemOps
  <2>3. CASE call[c].op = Confirmed
    <3>1. /\ e.type = Confirmed /\ e.prev = NoHash /\ e.next = NoHash
          /\ e.evidence = 0 /\ e.after = e.before
      BY <1>5, <2>1, <2>3, Fields, Distinct
    <3> QED BY <1>2, <3>1, Distinct DEF EventAccepted
  <2>4. CASE call[c].op = ReadyRecorded
    <3>1. Len(rows) = Len(evidence) + 1 /\ rows[Len(evidence) + 1].hash = call[c].hash
      BY <2>4, TablesExtended
    <3>2. /\ e.type = ReadyRecorded /\ e.prev = NoHash /\ e.next = NoHash
          /\ e.evidence = Len(evidence) + 1
          /\ e.hash = call[c].hash /\ e.after = e.before
      BY <1>5, <2>1, <2>4, Fields, Distinct
    <3>3. e.evidence # 0 /\ e.evidence \in DOMAIN rows /\ rows[e.evidence].hash = e.hash
      BY <1>3, <3>1, <3>2
    <3> QED BY <1>2, <3>2, <3>3, Distinct DEF EventAccepted
  <2>5. CASE call[c].op = Revoked
    <3>1. /\ e.type = Revoked /\ e.prev = e.hash /\ e.next = NoHash
          /\ e.evidence = 0 /\ e.after = e.before + 1
      BY <1>5, <2>1, <2>5, Fields, Distinct
    <3>2. Refers(e.prev)
      BY <1>2, <3>1 DEF Refers
    <3> QED BY <1>2, <3>1, <3>2, Distinct DEF EventAccepted
  <2> QED BY <2>2, <2>3, <2>4, <2>5
<1> QED BY <1>4, <1>5

(* The trigger accepts the evidence of a call.                             *)
LEMMA RowsAccepted ==
  ASSUME Safe, NEW c \in Clients, call[c].pc = "write",
         NEW i \in Len(evidence) + 1 .. Len(NewEvidence(c))
  PROVE  EvidenceAccepted(NewEvidence(c)[i], events)
<1>1. call[c].op = ReadyRecorded /\ i = Len(evidence) + 1
      /\ NewEvidence(c)[i].hash = call[c].hash
  <2>1. call[c].op = ReadyRecorded
    <3> SUFFICES ASSUME call[c].op # ReadyRecorded PROVE FALSE
      OBVIOUS
    <3>1. NewEvidence(c) = evidence /\ Len(evidence) \in Nat
      BY TablesExtended
    <3>2. i \in Len(evidence) + 1 .. Len(evidence)
      BY <3>1
    <3> QED BY <3>1, <3>2
  <2>2. Len(NewEvidence(c)) = Len(evidence) + 1 /\ Len(evidence) \in Nat
        /\ NewEvidence(c)[Len(evidence) + 1].hash = call[c].hash
    BY <2>1, TablesExtended
  <2>3. i = Len(evidence) + 1
    BY <2>2
  <2> QED BY <2>1, <2>2, <2>3
<1>2. call[c].op # Revoked
  BY <1>1, Distinct
<1>3. call[c].hash \in versions /\ IsConfirmed(call[c].hash)
  BY <1>1, <1>2, Checked
<1> QED BY <1>1, <1>3 DEF EvidenceAccepted, IsConfirmed

LEMMA StateIsAccepted ==
  ASSUME Safe, Known, NEW c \in Clients, call[c].pc = "write",
         NEW history, history = events \o NewEvents(c)
  PROVE  StateAccepted(NewState(c), history, NewEvidence(c))
<1> DEFINE n == Len(events)
           k == Len(NewEvents(c))
<1> PICK new, rows : new = NewState(c) /\ rows = NewEvidence(c)
  OBVIOUS
<1>1. /\ n \in Nat /\ history \in Seq(EventRecord) /\ Len(history) = n + k
      /\ \A i \in 1 .. n : history[i] = events[i]
      /\ events \in Seq(EventRecord)
  BY HistoryExtended DEF Safe, TypeOK
<1>2. k \in {1, 2}
  BY HistoryExtended
<1>3. DOMAIN events = 1 .. n /\ DOMAIN history = 1 .. n + k
  BY <1>1
<1>4. /\ rows \in Seq([hash : Hashes, digest : Digests])
      /\ evidence \in Seq([hash : Hashes, digest : Digests])
      /\ Len(evidence) \in Nat /\ Len(rows) \in Nat
      /\ rows = evidence \/ Len(rows) = Len(evidence) + 1
      /\ \A i \in 1 .. Len(evidence) : rows[i] = evidence[i]
  BY TablesExtended DEF Safe, TypeOK
<1>5. DOMAIN evidence = 1 .. Len(evidence) /\ DOMAIN rows = 1 .. Len(rows)
      /\ Len(evidence) <= Len(rows)
  BY <1>4
<1>6. state \in [active : Hashes \cup {NoHash}, activation : Nat, epoch : Nat]
      /\ PointsAtLast /\ ActiveIsRatified /\ NoHash \notin Hashes
  BY ConstitutionAssumption DEF Safe, TypeOK
<1>7. ASSUME NEW h, IsConfirmed(h)
      PROVE  \E i \in DOMAIN history : history[i].type = Confirmed /\ history[i].hash = h
  BY <1>1, <1>2, <1>3, <1>7 DEF IsConfirmed
<1>8. ASSUME NEW h, IsReady(h)
      PROVE  \E i \in DOMAIN rows : rows[i].hash = h
  <2>1. PICK i \in DOMAIN evidence : evidence[i].hash = h
    BY <1>8 DEF IsReady
  <2>2. i \in DOMAIN rows /\ rows[i] = evidence[i]
    <3>1. /\ Len(evidence) \in Nat /\ Len(rows) \in Nat
          /\ \A j \in 1 .. Len(evidence) : rows[j] = evidence[j]
      BY <1>4
    <3> QED BY <1>5, <2>1, <3>1
  <2> QED BY <2>1, <2>2
<1>9. new.epoch = IF call[c].op = Revoked THEN state.epoch + 1 ELSE state.epoch
  BY TablesExtended
<1>10. CASE call[c].op \in Activations
  <2>1. /\ new.active = call[c].hash /\ new.activation = n + k /\ call[c].hash \in Hashes
        /\ new.epoch = state.epoch
    BY <1>9, <1>10, TablesExtended, Checked, Distinct
  <2>2. IsConfirmed(call[c].hash) /\ IsReady(call[c].hash)
    <3>1. /\ IsConfirmed(call[c].hash) /\ call[c].proof \in 1 .. Len(evidence)
          /\ evidence[call[c].proof].hash = call[c].hash
      BY <1>10, Checked
    <3> QED BY <1>5, <3>1 DEF IsReady
  <2>3. history[n + k] = ActivationEvent(c) /\ n + k \in DOMAIN history
    <3>1. n + k \in DOMAIN history
      BY <1>1, <1>2, <1>3
    <3> QED BY <1>10, <3>1, HistoryExtended
  <2>4. /\ history[new.activation].type \in Activations
        /\ history[new.activation].hash = new.active
        /\ history[new.activation].next = new.active
    BY <1>10, <2>1, <2>3, Fields
  <2>5. /\ \E i \in DOMAIN history : history[i].type = Confirmed /\ history[i].hash = new.active
        /\ \E i \in DOMAIN rows : rows[i].hash = new.active
    BY <1>7, <1>8, <2>1, <2>2
  <2>6. new.active # NoHash /\ new.epoch >= state.epoch /\ ~(new.epoch > state.epoch)
    BY <1>6, <2>1
  <2>7. Refers(new.active) /\ new.activation # 0 /\ new.activation \in DOMAIN history
    <3>1. call[c].hash \in versions
      BY <1>10, Checked, Distinct
    <3>2. n + k # 0
      BY <1>1, <1>2
    <3> QED BY <2>1, <2>3, <3>1, <3>2 DEF Refers
  <2>8. StateAccepted(new, history, rows)
    BY <2>1, <2>4, <2>5, <2>6, <2>7 DEF StateAccepted
  <2> QED BY <2>8
<1>11. CASE call[c].op \notin Activations
  <2>1. new.active = state.active /\ new.activation = state.activation
    BY <1>11, TablesExtended
  <2>2. new.epoch >= state.epoch
    BY <1>6, <1>9
  <2>3. new.active = NoHash => new.activation = 0
    BY <1>6, <2>1 DEF PointsAtLast
  <2>4. new.active # NoHash =>
          /\ new.activation # 0 /\ new.activation \in DOMAIN history
          /\ history[new.activation].type \in Activations
          /\ history[new.activation].hash = new.active
          /\ history[new.activation].next = new.active
    BY <1>1, <1>2, <1>3, <1>6, <2>1 DEF PointsAtLast, Activation
  <2>5. new.active # NoHash =>
          /\ \E i \in DOMAIN history : history[i].type = Confirmed /\ history[i].hash = new.active
          /\ \E i \in DOMAIN rows : rows[i].hash = new.active
    BY <1>6, <1>7, <1>8, <2>1 DEF ActiveIsRatified
  <2>6. new.epoch > state.epoch =>
          \E i \in DOMAIN history : /\ history[i].type = Revoked
                                    /\ history[i].prev = new.active
                                    /\ history[i].after = new.epoch
    <3> SUFFICES ASSUME new.epoch > state.epoch
                 PROVE  /\ n + 1 \in DOMAIN history /\ history[n + 1].type = Revoked
                        /\ history[n + 1].prev = new.active
                        /\ history[n + 1].after = new.epoch
      OBVIOUS
    <3>1. call[c].op = Revoked /\ new.epoch = state.epoch + 1
      BY <1>6, <1>9
    <3>2. history[n + 1] = OtherEvent(c) /\ n + 1 \in DOMAIN history
      BY <1>1, <1>2, <1>3, <1>11, HistoryExtended
    <3> QED BY <1>11, <2>1, <3>1, <3>2, Fields
  <2>7. Refers(new.active) /\ new.activation \in {0} \cup DOMAIN history
    BY <2>1, <2>3, <2>4, ActiveKnown
  <2>8. StateAccepted(new, history, rows)
    BY <2>1, <2>2, <2>3, <2>4, <2>5, <2>6, <2>7 DEF StateAccepted
  <2> QED BY <2>8
<1> QED BY <1>10, <1>11

(* Projection of the history (ProjectionOfHistory): the state points at the *)
(* last activation, counts the revocations, and the activations form one    *)
(* chain, whatever calls overlap, are lost or are repeated.                *)
THEOREM HistoryProjects == Spec => []ProjectionOfHistory
<1> QED BY SafeIsProjection, SafetyInvariant, PTL

(* Agreement of the two layers (SchemaAccepts): no foreign key, constraint  *)
(* or trigger on the three tables refuses what the checks under the lock    *)
(* have let through.                                                       *)
THEOREM LayersAgree == Spec => []SchemaAccepts
<1>1. Safe /\ Known => SchemaAccepts
  <2> SUFFICES ASSUME Safe, Known, NEW c \in Clients, call[c].pc = "write"
               PROVE  LET history == events \o NewEvents(c)
                          rows == NewEvidence(c)
                      IN
                      /\ \A i \in Len(evidence) + 1 .. Len(rows) :
                            EvidenceAccepted(rows[i], events)
                      /\ \A i \in Len(events) + 1 .. Len(history) :
                            EventAccepted(history[i], rows)
                      /\ StateAccepted(NewState(c), history, rows)
    BY DEF SchemaAccepts
  <2> QED BY RowsAccepted, EventsAccepted, StateIsAccepted
<1>2. Safe /\ Known /\ [Next]_vars => Known'
  BY KnownStep
<1> QED BY <1>1, <1>2, KnownInit, SafetyInvariant, PTL DEF Spec

(* What a call does to the arguments an activation goes by.                *)
LEMMA ArgumentsKept ==
  ASSUME Safe, [Next]_vars, NEW c \in Clients,
         call'[c].pc # "idle", call'[c].op \in Activations
  PROVE  \/ call'[c].seen = state.activation /\ call'[c].expected = state.active
            /\ \A d \in Clients : ~Commit(d)
         \/ /\ call[c].pc # "idle" /\ call[c].op \in Activations
            /\ call'[c].expected = call[c].expected /\ call'[c].seen = call[c].seen
<1>1. CASE \E d \in Clients : Begin(d) \/ Retry(d) \/ Step(d) \/ ConnectionLost(d)
  <2> PICK d \in Clients : Begin(d) \/ Retry(d) \/ Step(d) \/ ConnectionLost(d)
    BY <1>1
  <2> PICK r \in CallRecord : Becomes(d, r)
    BY OwnStep
  <2>1. call' = [call EXCEPT ![d] = r] /\ call \in [Clients -> CallRecord]
    BY DEF Becomes, Safe, TypeOK
  <2>2. CASE c # d
    BY <2>1, <2>2
  <2>3. CASE c = d
    <3>1. call'[c] = r
      BY <2>1, <2>3
    <3>2. \/ r.seen = state.activation /\ r.expected = state.active
          \/ /\ call[c].pc # "idle" /\ r.op = call[c].op
             /\ r.expected = call[c].expected /\ r.seen = call[c].seen
      BY <2>3, <3>1 DEF Becomes
    <3>3. CASE \E x \in Clients : Commit(x)
      <4> PICK x \in Clients : Commit(x)
        BY <3>3
      <4>1. call[x].pc = "write" /\ call'[x].pc \in {"readback", "idle"}
        BY <2>1 DEF Commit, Proceed, Return, Idle, CallRecord
      <4>2. x = c
        BY <2>1, <2>3, <4>1
      <4>3. call' = [call EXCEPT ![c].pc = "readback"]
        BY <3>1, <4>2 DEF Commit, Proceed, Return, Idle
      <4>4. call[c] \in CallRecord /\ call'[c] = [call[c] EXCEPT !.pc = "readback"]
        BY <2>1, <4>3
      <4>5. /\ call'[c].op = call[c].op /\ call'[c].expected = call[c].expected
            /\ call'[c].seen = call[c].seen
        BY <4>4 DEF CallRecord
      <4> QED BY <4>1, <4>2, <4>5
    <3>4. CASE \A x \in Clients : ~Commit(x)
      BY <3>1, <3>2, <3>4
    <3> QED BY <3>3, <3>4
  <2> QED BY <2>2, <2>3
<1>2. CASE ~\E d \in Clients : Begin(d) \/ Retry(d) \/ Step(d) \/ ConnectionLost(d)
  BY <1>2 DEF Next, vars, BootstrapRecordVersion
<1> QED BY <1>1, <1>2

LEMMA InformedStep ==
  ASSUME Safe, Informed, [Next]_vars
  PROVE  Informed'
<1> SUFFICES ASSUME NEW c \in Clients, call'[c].pc # "idle", call'[c].op \in Activations
             PROVE  SawTheState(c)' \/ LeftAndCameBack(c)'
  BY DEF Informed
<1>1. CASE \A d \in Clients : ~Commit(d)
  <2>1. UNCHANGED <<events, evidence, state>>
    BY <1>1, OnlyCommitWrites
  <2>2. CASE call'[c].seen = state.activation /\ call'[c].expected = state.active
    BY <2>1, <2>2 DEF SawTheState
  <2>3. CASE /\ call[c].pc # "idle" /\ call[c].op \in Activations
             /\ call'[c].expected = call[c].expected /\ call'[c].seen = call[c].seen
    BY <2>1, <2>3 DEF Informed, SawTheState, LeftAndCameBack
  <2> QED BY <2>2, <2>3, ArgumentsKept
<1>2. CASE \E d \in Clients : Commit(d)
  <2> PICK d \in Clients : Commit(d)
    BY <1>2
  <2>1. /\ call[c].pc # "idle" /\ call[c].op \in Activations
        /\ call'[c].expected = call[c].expected /\ call'[c].seen = call[c].seen
    BY ArgumentsKept
  <2> PICK n, last : n = Len(events) /\ last = Len(events')
    OBVIOUS
  <2>2. /\ n \in Nat /\ last \in Nat /\ n < last
        /\ DOMAIN events = 1 .. n /\ DOMAIN events' = 1 .. last
        /\ \A i \in 1 .. n : events'[i] = events[i]
        /\ call[d].pc = "write"
    BY Committed
  <2>3. state.activation \in 0 .. n /\ call[c].seen \in Nat
    BY <2>2 DEF Safe, PointsAtLast, TypeOK, CallRecord
  <2>4. CASE call[d].op \notin Activations
    <3>1. state'.active = state.active /\ state'.activation = state.activation
      BY <2>4, Committed
    <3>2. SawTheState(c) => SawTheState(c)'
      BY <2>1, <3>1 DEF SawTheState
    <3>3. LeftAndCameBack(c) => LeftAndCameBack(c)'
      BY <2>1, <2>2, <2>3, <3>1 DEF LeftAndCameBack
    <3> QED BY <2>1, <3>2, <3>3 DEF Informed
  <2>5. CASE call[d].op \in Activations
    <3>1. /\ state'.activation = last /\ events'[last].prev = state.active
          /\ events'[last].next = call[d].hash /\ events'[last].type \in Activations
          /\ state.active # call[d].hash
      BY <2>2, <2>5, Committed, Checked
    <3>2. ASSUME SawTheState(c) PROVE LeftAndCameBack(c)'
      <4>1. last \in call'[c].seen + 1 .. state'.activation
        BY <2>1, <2>2, <2>3, <3>1, <3>2 DEF SawTheState
      <4> QED BY <2>1, <3>1, <3>2, <4>1 DEF SawTheState, LeftAndCameBack
    <3>3. ASSUME LeftAndCameBack(c) PROVE LeftAndCameBack(c)'
      <4>1. PICK i \in call[c].seen + 1 .. state.activation :
              /\ events[i].type \in Activations
              /\ events[i].prev = call[c].expected /\ events[i].next # call[c].expected
        BY <3>3 DEF LeftAndCameBack
      <4>2. i \in call'[c].seen + 1 .. state'.activation /\ events'[i] = events[i]
        BY <2>1, <2>2, <2>3, <3>1, <4>1
      <4> QED BY <2>1, <4>1, <4>2 DEF LeftAndCameBack
    <3> QED BY <2>1, <3>2, <3>3 DEF Informed
  <2> QED BY <2>4, <2>5
<1> QED BY <1>1, <1>2

(* Replacement of what was read (ReplacesWhatWasSeen): a commit that moves  *)
(* the pointer replaces the payload its caller read before the call, and if *)
(* it replaces another activation of it, the history holds the activation   *)
(* that took its place meanwhile.                                          *)
LEMMA SeenBeforeReplaced ==
  ASSUME Safe, Informed, [Next]_vars, NEW c \in Clients, call[c].pc = "write",
         state'.active # state.active
  PROVE  /\ call[c].expected = state.active
         /\ call[c].seen # state.activation => LeftAndCameBack(c)
<1>1. PICK d \in Clients : Commit(d)
  BY OnlyCommitWrites
<1>2. call[d].pc = "write" /\ call[d].op \in Activations
  BY <1>1, Committed
<1>3. d = c
  BY <1>2 DEF Safe, WriterHasLock
<1> QED BY <1>2, <1>3, Checked DEF Informed, SawTheState

THEOREM ReplacementIsInformed == Spec => ReplacesWhatWasSeen
<1>1. Safe /\ Informed /\ [Next]_vars =>
        [\A c \in Clients :
           call[c].pc = "write" /\ call'[c].pc # "write" /\ state'.active # state.active
             => /\ call[c].expected = state.active
                /\ call[c].seen # state.activation => LeftAndCameBack(c)]_vars
  BY SeenBeforeReplaced
<1>2. Init => Informed
  BY DEF Init, Idle, Informed
<1>3. Safe /\ Informed /\ [Next]_vars => Informed'
  BY InformedStep
<1> QED BY <1>1, <1>2, <1>3, SafetyInvariant, PTL DEF Spec, ReplacesWhatWasSeen

---------------------------------------------------------------------------
(* The registry implements the ledger.                                     *)

Confirmations == {h \in Hashes : IsConfirmed(h)}

Readied == {h \in Hashes : IsReady(h)}

LedgerVars == <<Confirmations, Readied, state.active, state.epoch>>

LEMMA LedgerInit == Init => Ledger!Init
<1> SUFFICES ASSUME Init PROVE Ledger!Init
  OBVIOUS
<1> DEFINE n == Len(RatifiedRows)
<1>1. /\ n \in Nat /\ Ratified \subseteq Hashes /\ DOMAIN RatifiedRows = 1 .. n
      /\ \A i \in 1 .. n : RatifiedRows[i] \in Ratified
      /\ \A h \in Ratified : \E i \in 1 .. n : RatifiedRows[i] = h
  BY RowsOfRatified, ConstitutionAssumption
<1>2. events = [i \in 1 .. n + n |->
        IF i <= n THEN Event(Confirmed, RatifiedRows[i], NoHash, NoHash, 0, <<0, 0>>)
        ELSE Event(ReadyRecorded, RatifiedRows[i - n], NoHash, NoHash, i - n, <<0, 0>>)]
  BY DEF Init, History
<1>3. /\ DOMAIN events = 1 .. n + n
      /\ \A i \in 1 .. n : events[i].type = Confirmed /\ events[i].hash = RatifiedRows[i]
      /\ \A i \in 1 .. n + n : i > n => events[i].type = ReadyRecorded
  <2> HIDE DEF n
  <2>1. DOMAIN events = 1 .. n + n
    BY <1>2
  <2>2. ASSUME NEW i \in 1 .. n + n
        PROVE  /\ i <= n => events[i].type = Confirmed /\ events[i].hash = RatifiedRows[i]
               /\ i > n => events[i].type = ReadyRecorded
    <3>1. CASE i <= n
      <4>1. events[i] = Event(Confirmed, RatifiedRows[i], NoHash, NoHash, 0, <<0, 0>>)
        BY <1>1, <1>2, <3>1
      <4> QED BY <1>1, <3>1, <4>1, EventFields
    <3>2. CASE i > n
      <4>1. events[i] = Event(ReadyRecorded, RatifiedRows[i - n], NoHash, NoHash, i - n,
                              <<0, 0>>)
        BY <1>1, <1>2, <3>2
      <4> QED BY <1>1, <3>2, <4>1, EventFields
    <3> QED BY <1>1, <3>1, <3>2
  <2>3. \A i \in 1 .. n : i \in 1 .. n + n /\ i <= n
    BY <1>1
  <2> QED BY <2>1, <2>2, <2>3
<1>4. Confirmations = Ratified
  <2> HIDE DEF n
  <2>1. ASSUME NEW h \in Ratified PROVE IsConfirmed(h)
    <3>1. PICK i \in 1 .. n : RatifiedRows[i] = h
      BY <1>1
    <3> QED BY <1>1, <1>3, <3>1 DEF IsConfirmed
  <2>2. ASSUME NEW h, IsConfirmed(h) PROVE h \in Ratified
    BY <1>1, <1>3, <2>2, Distinct DEF IsConfirmed
  <2> QED BY <1>1, <2>1, <2>2 DEF Confirmations
<1>5. Readied = Ratified
  <2>1. /\ DOMAIN evidence = 1 .. n
        /\ \A i \in 1 .. n : evidence[i].hash = RatifiedRows[i]
    BY <1>1 DEF Init
  <2> HIDE DEF n
  <2> QED BY <1>1, <2>1 DEF Readied, IsReady
<1> QED BY <1>4, <1>5 DEF Confirmations, Readied, Init, Ledger!Init

(* The sets of confirmed and ready payloads after a commit.                *)
LEMMA RatifiedBy ==
  ASSUME Safe, NEW c \in Clients, Commit(c)
  PROVE  /\ Confirmations' = IF call[c].op = Confirmed
                             THEN Confirmations \cup {call[c].hash} ELSE Confirmations
         /\ Readied' = IF call[c].op = ReadyRecorded
                       THEN Readied \cup {call[c].hash} ELSE Readied
<1> DEFINE n == Len(events)
           last == Len(events')
<1>1. /\ n \in Nat /\ last \in Nat /\ n < last /\ call[c].pc = "write"
      /\ DOMAIN events = 1 .. n /\ DOMAIN events' = 1 .. last
      /\ \A i \in 1 .. n : events'[i] = events[i]
      /\ evidence' = NewEvidence(c)
  BY Committed
<1>2. call[c].hash \in Hashes
  BY <1>1, Checked
<1>3. \A i \in n + 1 .. last :
         events'[i].type = Confirmed =>
            call[c].op = Confirmed /\ events'[i].hash = call[c].hash
  <2>1. CASE call[c].op \notin Activations
    <3>1. /\ last = n + 1 /\ events'[last].type = call[c].op
          /\ call[c].op # Revoked => events'[last].hash = call[c].hash
      BY <2>1, Committed
    <3> HIDE DEF n, last
    <3> QED BY <1>1, <3>1, Distinct
  <2>2. CASE call[c].op \in Activations
    <3>1. events'[last].type # Confirmed
      BY <2>2, Committed, Distinct
    <3>2. last = n + 1 \/ (last = n + 2 /\ events'[n + 1].type = Superseded)
      BY <2>2, Committed
    <3> HIDE DEF n, last
    <3> QED BY <1>1, <3>1, <3>2, Distinct
  <2> QED BY <2>1, <2>2
<1>4. call[c].op = Confirmed =>
         /\ events'[last].type = Confirmed /\ events'[last].hash = call[c].hash
  BY Committed, Distinct
<1>5. Confirmations' = IF call[c].op = Confirmed
                       THEN Confirmations \cup {call[c].hash} ELSE Confirmations
  <2> HIDE DEF n, last
  <2> PICK h : h = call[c].hash
    OBVIOUS
  <2>1. ASSUME NEW g \in Hashes
        PROVE  IsConfirmed(g)' <=> IsConfirmed(g) \/ (call[c].op = Confirmed /\ g = h)
    BY <1>1, <1>3, <1>4 DEF IsConfirmed
  <2> QED BY <1>2, <2>1 DEF Confirmations
<1>6. Readied' = IF call[c].op = ReadyRecorded
                 THEN Readied \cup {call[c].hash} ELSE Readied
  <2> DEFINE m == Len(evidence)
  <2>1. /\ evidence \in Seq([hash : Hashes, digest : Digests])
        /\ evidence' \in Seq([hash : Hashes, digest : Digests])
    BY <1>1, TablesExtended DEF Safe, TypeOK
  <2>2. CASE call[c].op = ReadyRecorded
    <3>1. /\ m \in Nat /\ Len(evidence') = m + 1
          /\ \A i \in 1 .. m : evidence'[i] = evidence[i]
          /\ evidence'[m + 1].hash = call[c].hash
      BY <1>1, <2>2, TablesExtended
    <3>2. DOMAIN evidence = 1 .. m /\ DOMAIN evidence' = 1 .. m + 1
      BY <2>1, <3>1
    <3> HIDE DEF m
    <3> QED BY <1>2, <2>2, <3>1, <3>2 DEF Readied, IsReady
  <2>3. CASE call[c].op # ReadyRecorded
    <3>1. evidence' = evidence
      BY <1>1, <2>3, TablesExtended
    <3> QED BY <2>3, <3>1 DEF Readied, IsReady
  <2> QED BY <2>2, <2>3
<1> QED BY <1>5, <1>6

LEMMA LedgerStep ==
  ASSUME Safe, [Next]_vars
  PROVE  [Ledger!Next]_LedgerVars
<1>1. CASE \A c \in Clients : ~Commit(c)
  BY <1>1, OnlyCommitWrites DEF LedgerVars, Confirmations, Readied, IsConfirmed, IsReady
<1>2. CASE \E c \in Clients : Commit(c)
  <2> PICK c \in Clients : Commit(c)
    BY <1>2
  <2> PICK h \in Hashes : h = call[c].hash
    BY Committed, Checked
  <2>1. call[c].pc = "write" /\ call[c].op \in Ops
    BY Committed, Checked
  <2>2. /\ Confirmations' = IF call[c].op = Confirmed
                            THEN Confirmations \cup {h} ELSE Confirmations
        /\ Readied' = IF call[c].op = ReadyRecorded THEN Readied \cup {h} ELSE Readied
    BY RatifiedBy
  <2>3. /\ state'.active = IF call[c].op \in Activations THEN h ELSE state.active
        /\ state'.epoch = IF call[c].op = Revoked THEN state.epoch + 1 ELSE state.epoch
    BY <2>1, Committed, TablesExtended
  <2>4. CASE call[c].op = Confirmed
    <3>1. h \notin Confirmations
      BY <2>1, <2>4, Checked DEF Confirmations
    <3>2. Ledger!Confirm(h)
      BY <2>2, <2>3, <2>4, <3>1, Distinct DEF Ledger!Confirm, Confirmations, Readied
    <3> QED BY <3>2 DEF Ledger!Next
  <2>5. CASE call[c].op = ReadyRecorded
    <3>1. h \in Confirmations
      BY <2>1, <2>5, Checked DEF Confirmations
    <3>2. Ledger!MakeReady(h)
      BY <2>2, <2>3, <2>5, <3>1, Distinct DEF Ledger!MakeReady, Confirmations, Readied
    <3> QED BY <3>2 DEF Ledger!Next
  <2>6. CASE call[c].op = Revoked
    <3>1. state.active # NoHash
      BY <2>1, <2>6, Checked
    <3>2. Ledger!Revoke
      BY <2>2, <2>3, <2>6, <3>1, Distinct DEF Ledger!Revoke, Confirmations, Readied
    <3> QED BY <3>2 DEF Ledger!Next
  <2>7. CASE call[c].op \in Activations
    <3>1. /\ IsConfirmed(h) /\ state.active # h
          /\ call[c].proof \in 1 .. Len(evidence) /\ evidence[call[c].proof].hash = h
      BY <2>1, <2>7, Checked
    <3>2. DOMAIN evidence = 1 .. Len(evidence)
      BY DEF Safe, TypeOK
    <3>3. h \in Confirmations /\ h \in Readied
      BY <3>1, <3>2 DEF Confirmations, Readied, IsReady
    <3>4. Ledger!Activate(h)
      BY <2>2, <2>3, <2>7, <3>1, <3>3, Distinct DEF Ledger!Activate, Confirmations, Readied
    <3> QED BY <3>4 DEF Ledger!Next
  <2> QED BY <2>1, <2>4, <2>5, <2>6, <2>7 DEF Ops, OwnerOps, SystemOps
<1> QED BY <1>1, <1>2

(* The registry implements the ledger (ImplementsLedger): no interleaving,  *)
(* retry or lost connection activates a payload without its confirmation    *)
(* and evidence, clears the pointer, or moves the epoch by anything but     *)
(* one.                                                                    *)
THEOREM LedgerRefinement == Spec => ImplementsLedger
<1>1. Safe /\ [Next]_vars
        => [Ledger!Next]_<<{h \in Hashes : IsConfirmed(h)}, {h \in Hashes : IsReady(h)},
                           state.active, state.epoch>>
  BY LedgerStep DEF LedgerVars, Confirmations, Readied
<1> QED BY <1>1, LedgerInit, SafetyInvariant, PTL
        DEF Spec, ImplementsLedger, Ledger!Spec, Ledger!vars
=============================================================================
