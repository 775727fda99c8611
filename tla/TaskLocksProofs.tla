---------------------------- MODULE TaskLocksProofs ----------------------------
(***************************************************************************)
(* What holds of the transactions of TaskLocks for any number of calls,    *)
(* tasks, agents and connections.                                          *)
(***************************************************************************)
EXTENDS TaskLocks, TLAPS

(***************************************************************************)
(* The invariant: what each call has locked at each point, that locks      *)
(* exclude each other, and what the calls found under their locks.         *)
(***************************************************************************)

IsRequest(r) ==
  /\ r.kind \in Kinds /\ r.task \in Tasks
  /\ r.kind \in {"claim", "place"} => r.other \in Agents
  /\ r.kind = "assign" => r.other \in Agents \cup {None}
  /\ r.kind = "add" => r.other \in Tasks

Types ==
  /\ status \in [Tasks -> Statuses]
  /\ edges \subseteq Tasks \X Tasks
  /\ DOMAIN call = Callers
  /\ \A c \in Callers :
       \/ call[c] = Idle
       \/ /\ call[c] \in [pc : {"reading", "connecting", "locking", "again"},
                          kind : Kinds, task : Tasks,
                          other : Tasks \cup Agents \cup {None}, got : Nat]
          /\ IsRequest(call[c])
          /\ call[c].got <= Len(Order(call[c]))
          /\ call[c].pc \in {"reading", "connecting"} => call[c].got = 0
  /\ locks \subseteq [caller : Callers, on : Tasks \cup Agents \cup {Graph},
                      mode : {"share", "exclusive"}]

(* A call has locked the first locks of its order, in a query on a second  *)
(* connection the row of its task at most.                                 *)
Held(c, i) == [caller |-> c, on |-> Order(call[c])[i],
               mode |-> Mode(call[c], Order(call[c])[i])]

LocksOfCalls ==
  /\ \A l \in locks : LET c == l.caller IN
       \/ /\ At(c, "locking")
          /\ \E i \in 1 .. call[c].got : l = Held(c, i)
       \/ At(c, "again") /\ call[c].kind = "claim" /\ l = Held(c, 1)
  /\ \A c \in Callers : At(c, "locking") =>
       \A i \in 1 .. call[c].got : Held(c, i) \in locks

Exclusion ==
  \A l, m \in locks :
    l.on = m.on /\ l.caller # m.caller => l.mode = "share" /\ m.mode = "share"

(* What was found under a lock still holds.                                *)
Checked ==
  \A c \in Callers : At(c, "locking") =>
    /\ call[c].kind = "add" /\ call[c].got >= 1
         => ~Reaches(call[c].task, call[c].other)
    /\ call[c].kind = "claim" /\ call[c].got >= 1
         => status[call[c].task] = "queued"
    /\ call[c].kind = "claim" /\ call[c].got = 2 => Ready(call[c].task)

Inv ==
  /\ Types
  /\ LocksOfCalls
  /\ Exclusion
  /\ Checked
  /\ GraphAcyclic

(* The locks each kind of call takes.                                      *)
LEMMA OrderFacts ==
  ASSUME NEW r, IsRequest(r)
  PROVE  /\ Len(Order(r)) \in 1 .. 3
         /\ \A i \in 1 .. Len(Order(r)) :
              /\ Order(r)[i] \in Tasks \cup Agents \cup {Graph}
              /\ Mode(r, Order(r)[i]) \in {"share", "exclusive"}
         /\ r.kind = "claim" => /\ Len(Order(r)) = 2 /\ Order(r)[1] = r.task
                                /\ Order(r)[2] = Graph
         /\ r.kind = "place" => /\ Len(Order(r)) = 3 /\ Order(r)[1] = r.task
                                /\ Order(r)[2] = Graph /\ Order(r)[3] = r.other
         /\ r.kind = "assign" => /\ Order(r)[1] = r.task
                                 /\ Len(Order(r)) \in {1, 2}
                                 /\ Len(Order(r)) = 2 => Order(r)[2] = r.other
                                                         /\ r.other \in Agents
         /\ r.kind = "add" => /\ Len(Order(r)) = 3 /\ Order(r)[1] = Graph
                              /\ Order(r)[2] = r.other /\ Order(r)[3] = r.task
         /\ r.kind = "add" => Mode(r, Graph) = "exclusive"
         /\ r.kind # "add" => \A x : Mode(r, x) = "exclusive"
<1>1. \A x : Mode(r, x) \in {"share", "exclusive"}  BY DEF Mode
<1>2. CASE r.kind = "claim"
  BY <1>1, <1>2 DEF Order, Mode, IsRequest
<1>3. CASE r.kind = "place"
  BY <1>1, <1>3 DEF Order, Mode, IsRequest
<1>4. CASE r.kind = "assign" /\ r.other = None
  BY <1>1, <1>4 DEF Order, Mode, IsRequest
<1>5. CASE r.kind = "assign" /\ r.other # None
  BY <1>1, <1>5 DEF Order, Mode, IsRequest
<1>6. CASE r.kind = "add"
  BY <1>1, <1>6 DEF Order, Mode, IsRequest
<1> QED  BY <1>2, <1>3, <1>4, <1>5, <1>6 DEF IsRequest, Kinds

(* The end of a transaction: the call is over, or asks for a second         *)
(* connection.                                                             *)
LEMMA EndKeeps ==
  ASSUME Inv, NEW c \in Callers, EndTransaction(c),
         \/ call' = [call EXCEPT ![c] = Idle]
         \/ At(c, "locking") /\ Goto(c, "again"),
         /\ status' \in [Tasks -> Statuses]
         /\ edges' \subseteq Tasks \X Tasks
  PROVE  Types' /\ LocksOfCalls' /\ Exclusion'
<1> USE DEF Inv
<1>1. /\ locks' = {l \in locks : l.caller # c}
      /\ \A d \in Callers : d # c => call'[d] = call[d]
      /\ call'[c] = Idle \/ (call[c] # Idle /\ call'[c] = [call[c] EXCEPT !.pc = "again"])
      /\ DOMAIN call' = Callers
  BY DEF EndTransaction, Types, Goto, At, Idle
<1>2. Types'
  <2>1. call'[c].pc \in {"idle", "again"}  BY <1>1 DEF Types, Idle
  <2>2. \/ call'[c] = Idle
        \/ /\ call'[c] \in [pc : {"reading", "connecting", "locking", "again"},
                           kind : Kinds, task : Tasks,
                           other : Tasks \cup Agents \cup {None}, got : Nat]
           /\ IsRequest(call'[c])
           /\ call'[c].got <= Len(Order(call'[c]))
    BY <1>1 DEF Types, IsRequest, Order
  <2>3. \A q : IsRequest(q)' <=> IsRequest(q)  BY DEF IsRequest
  <2>4. \A q : Order(q)' = Order(q)  BY DEF Order
  <2> QED  BY <2>1, <2>2, <2>3, <2>4, <1>1 DEF Types
<1>3. LocksOfCalls'
  <2>1. ASSUME NEW l \in locks' PROVE l \in locks /\ call'[l.caller] = call[l.caller]
    BY <1>1, <2>1 DEF Types
  <2>2. \A d \in Callers : At(d, "locking")' => d # c  BY <1>1 DEF At, Idle, Types
  <2>3. \A d \in Callers : \A i : d # c => Held(d, i)' = Held(d, i)  BY <1>1 DEF Held, Order, Mode
  <2>4. ASSUME NEW l \in locks'
        PROVE LET d == l.caller IN
                \/ At(d, "locking")' /\ \E i \in 1 .. call'[d].got : l = Held(d, i)'
                \/ At(d, "again")' /\ call'[d].kind = "claim" /\ l = Held(d, 1)'
    BY <2>1, <2>3, <1>1 DEF LocksOfCalls, At, Types
  <2>5. ASSUME NEW d \in Callers, At(d, "locking")', NEW i \in 1 .. call'[d].got
        PROVE Held(d, i)' \in locks'
    <3>1. d # c /\ call'[d] = call[d]  BY <2>2, <2>5, <1>1
    <3>2. Held(d, i) \in locks  BY <3>1, <2>5 DEF LocksOfCalls, At
    <3> QED  BY <3>1, <3>2, <2>3, <1>1 DEF Held
  <2> QED  BY <2>4, <2>5 DEF LocksOfCalls
<1>4. Exclusion'  BY <1>1 DEF Exclusion
<1> QED  BY <1>2, <1>3, <1>4

(* A call that has ended without a write, however it did.                  *)
LEMMA ReturnKeeps ==
  ASSUME Inv, NEW c \in Callers, EndTransaction(c), UNCHANGED <<status, edges>>,
         \/ call' = [call EXCEPT ![c] = Idle]
         \/ At(c, "locking") /\ Goto(c, "again")
  PROVE  Inv'
<1>1. Types' /\ LocksOfCalls' /\ Exclusion'  BY EndKeeps DEF Inv, Types
<1>2. Checked'
  <2>1. \A d \in Callers : At(d, "locking")' => At(d, "locking") /\ call'[d] = call[d]
    BY DEF Inv, Types, At, Goto, Idle
  <2> QED  BY <2>1 DEF Inv, Checked, Reaches, Ready
<1>3. GraphAcyclic'  BY DEF Inv, GraphAcyclic
<1> QED  BY <1>1, <1>2, <1>3 DEF Inv

(* A call that has begun and has locked nothing yet.                       *)
LEMMA UnlockedKeeps ==
  ASSUME Inv, NEW c \in Callers,
         call[c].pc \in {"idle", "reading", "connecting"},
         \E r \in [pc : {"reading", "connecting", "locking"}, kind : Kinds, task : Tasks,
                   other : Tasks \cup Agents \cup {None}, got : {0}] :
           IsRequest(r) /\ call' = [call EXCEPT ![c] = r],
         UNCHANGED <<locks, rows>>
  PROVE  Inv'
<1> USE DEF Inv, rows
<1>0. PICK r \in [pc : {"reading", "connecting", "locking"}, kind : Kinds, task : Tasks,
                  other : Tasks \cup Agents \cup {None}, got : {0}] :
        IsRequest(r) /\ call' = [call EXCEPT ![c] = r]
  OBVIOUS
<1>1. /\ \A d \in Callers : d # c => call'[d] = call[d]
      /\ call'[c] = r /\ DOMAIN call' = Callers
      /\ r.got = 0
  BY <1>0 DEF Types
<1>2. \A l \in locks : l.caller # c  BY DEF LocksOfCalls, At
<1>3. Types'
  <2>1. Len(Order(r)) \in 1 .. 3  BY <1>0, OrderFacts
  <2>2. \A d \in Callers : d # c => Order(call'[d]) = Order(call[d])  BY <1>1
  <2>3. \A q : IsRequest(q)' <=> IsRequest(q)  BY DEF IsRequest
  <2>4. ASSUME NEW d \in Callers
        PROVE \/ call'[d] = Idle
              \/ /\ call'[d] \in [pc : {"reading", "connecting", "locking", "again"},
                                 kind : Kinds, task : Tasks,
                                 other : Tasks \cup Agents \cup {None}, got : Nat]
                 /\ IsRequest(call'[d])
                 /\ call'[d].got <= Len(Order(call'[d]))
                 /\ call'[d].pc \in {"reading", "connecting"} => call'[d].got = 0
    <3>1. CASE d = c  BY <3>1, <2>1, <1>0, <1>1
    <3>2. CASE d # c  BY <3>2, <1>1 DEF Types
    <3> QED  BY <3>1, <3>2
  <2> QED  BY <2>3, <2>4, <1>1 DEF Types, IsRequest, Order
<1>4. LocksOfCalls'
  <2>1. \A d \in Callers : \A i : d # c => Held(d, i)' = Held(d, i)  BY <1>1 DEF Held, Order, Mode
  <2>2. ASSUME NEW l \in locks'
        PROVE LET d == l.caller IN
                \/ At(d, "locking")' /\ \E i \in 1 .. call'[d].got : l = Held(d, i)'
                \/ At(d, "again")' /\ call'[d].kind = "claim" /\ l = Held(d, 1)'
    BY <2>1, <1>1, <1>2 DEF LocksOfCalls, At, Types
  <2>3. ASSUME NEW d \in Callers, At(d, "locking")', NEW i \in 1 .. call'[d].got
        PROVE Held(d, i)' \in locks'
    <3>1. d # c  BY <2>3, <1>0, <1>1
    <3>2. Held(d, i) \in locks  BY <3>1, <2>3, <1>1 DEF LocksOfCalls, At
    <3> QED  BY <3>1, <3>2, <2>1
  <2> QED  BY <2>2, <2>3 DEF LocksOfCalls
<1>5. Exclusion'  BY DEF Exclusion
<1>6. Checked'  BY <1>0, <1>1 DEF Checked, At, Reaches, Ready
<1>7. GraphAcyclic'  BY DEF GraphAcyclic
<1> QED  BY <1>3, <1>4, <1>5, <1>6, <1>7

LEMMA InitInv == ASSUME TaskLocksAssumption, Init PROVE Inv
<1> USE DEF Init
<1>1. Types  BY DEF Types, Addable, TaskLocksAssumption
<1>2. LocksOfCalls  BY DEF LocksOfCalls, At, Idle
<1>3. Exclusion  BY DEF Exclusion
<1>4. Checked  BY DEF Checked, At, Idle
<1>5. GraphAcyclic  BY DEF GraphAcyclic
<1> QED  BY <1>1, <1>2, <1>3, <1>4, <1>5 DEF Inv

LEMMA BeginKeeps ==
  ASSUME TaskLocksAssumption, Inv, NEW c \in Callers, NEW r \in Requests, Begin(c, r)
  PROVE  Inv'
<1> DEFINE q == [pc |-> IF r.kind = "add" THEN "reading" ELSE "connecting",
                 kind |-> r.kind, task |-> r.task, other |-> r.other, got |-> 0]
<1>1. /\ r \in [kind : Kinds, task : Tasks, other : Tasks \cup Agents \cup {None}]
      /\ r.kind \in {"claim", "place"} => r.other \in Agents
      /\ r.kind = "assign" => r.other \in Agents \cup {None}
      /\ r.kind = "add" => r.other \in Tasks
  BY DEF TaskLocksAssumption
<1>2. q \in [pc : {"reading", "connecting", "locking"}, kind : Kinds, task : Tasks,
             other : Tasks \cup Agents \cup {None}, got : {0}]
  BY <1>1
<1>3. IsRequest(q)  BY <1>1 DEF IsRequest
<1>4. call[c].pc = "idle" /\ call' = [call EXCEPT ![c] = q]
  BY DEF Begin, At
<1>5. UNCHANGED <<locks, rows>>  BY DEF Begin
<1>6. /\ call[c].pc \in {"idle", "reading", "connecting"}
      /\ \E x \in [pc : {"reading", "connecting", "locking"}, kind : Kinds, task : Tasks,
                   other : Tasks \cup Agents \cup {None}, got : {0}] :
           IsRequest(x) /\ call' = [call EXCEPT ![c] = x]
  BY <1>2, <1>3, <1>4
<1> QED  BY <1>5, <1>6, UnlockedKeeps

LEMMA ReadTasksKeeps ==
  ASSUME Inv, NEW c \in Callers, ReadTasks(c) PROVE Inv'
<1>1. CASE call' = [call EXCEPT ![c] = Idle]
  <2>1. \A l \in locks : l.caller # c  BY DEF Inv, LocksOfCalls, At, ReadTasks
  <2>2. EndTransaction(c)  BY <2>1 DEF EndTransaction, ReadTasks
  <2> QED  BY <1>1, <2>2, ReturnKeeps DEF ReadTasks, rows
<1>2. CASE Goto(c, "connecting")
  <2> DEFINE r == [call[c] EXCEPT !.pc = "connecting"]
  <2>1. /\ call[c] \in [pc : {"reading", "connecting", "locking", "again"},
                        kind : Kinds, task : Tasks,
                        other : Tasks \cup Agents \cup {None}, got : Nat]
        /\ IsRequest(call[c]) /\ call[c].got = 0 /\ call[c].pc = "reading"
    BY DEF Inv, Types, ReadTasks, At, Idle
  <2>2. r \in [pc : {"reading", "connecting", "locking"}, kind : Kinds, task : Tasks,
               other : Tasks \cup Agents \cup {None}, got : {0}]
    BY <2>1
  <2>3. IsRequest(r)  BY <2>1 DEF IsRequest
  <2>4. call' = [call EXCEPT ![c] = r]  BY <1>2 DEF Goto, Inv, Types
  <2>5. UNCHANGED <<locks, rows>>  BY DEF ReadTasks
  <2>6. /\ call[c].pc \in {"idle", "reading", "connecting"}
        /\ \E x \in [pc : {"reading", "connecting", "locking"}, kind : Kinds, task : Tasks,
                     other : Tasks \cup Agents \cup {None}, got : {0}] :
             IsRequest(x) /\ call' = [call EXCEPT ![c] = x]
    BY <2>1, <2>2, <2>3, <2>4
  <2> QED  BY <2>5, <2>6, UnlockedKeeps
<1> QED  BY <1>1, <1>2 DEF ReadTasks

LEMMA ConnectKeeps ==
  ASSUME Inv, NEW c \in Callers, Connect(c) PROVE Inv'
<1> DEFINE r == [call[c] EXCEPT !.pc = "locking"]
<1>1. /\ call[c] \in [pc : {"reading", "connecting", "locking", "again"},
                      kind : Kinds, task : Tasks,
                      other : Tasks \cup Agents \cup {None}, got : Nat]
      /\ IsRequest(call[c]) /\ call[c].got = 0 /\ call[c].pc = "connecting"
  BY DEF Inv, Types, Connect, At, Idle
<1>2. r \in [pc : {"reading", "connecting", "locking"}, kind : Kinds, task : Tasks,
             other : Tasks \cup Agents \cup {None}, got : {0}]
  BY <1>1
<1>3. IsRequest(r)  BY <1>1 DEF IsRequest
<1>4. call' = [call EXCEPT ![c] = r]  BY DEF Connect, Goto, Inv, Types
<1>5. UNCHANGED <<locks, rows>>  BY DEF Connect
<1>6. /\ call[c].pc \in {"idle", "reading", "connecting"}
      /\ \E x \in [pc : {"reading", "connecting", "locking"}, kind : Kinds, task : Tasks,
                   other : Tasks \cup Agents \cup {None}, got : {0}] :
           IsRequest(x) /\ call' = [call EXCEPT ![c] = x]
  BY <1>1, <1>2, <1>3, <1>4
<1> QED  BY <1>5, <1>6, UnlockedKeeps

(* What a call found under the lock it has just been granted.              *)
LEMMA LockFindings ==
  ASSUME Inv, NEW c \in Callers, Waiting(c), Refusals(c, Wanted(c)) = {}
  PROVE  LET r == call[c] IN
         /\ r.kind = "add" /\ r.got = 0 => ~Reaches(r.task, r.other)
         /\ r.kind = "claim" /\ r.got = 0 => status[r.task] = "queued"
         /\ r.kind = "claim" /\ r.got = 1 => Ready(r.task)
<1> DEFINE r == call[c]
           x == Wanted(c)
<1>1. IsRequest(r) /\ r.got \in Nat /\ r.got < Len(Order(r))
  BY DEF Inv, Types, Waiting, At, Idle
<1>2. x = Order(r)[r.got + 1]  BY DEF Wanted
<1>3. \A o \in {"return", "query", "rollback and query"} : o \notin Refusals(c, x)
  OBVIOUS
<1>4. CASE r.kind = "add" /\ r.got = 0
  <2>1. x = Graph  BY <1>1, <1>2, <1>4, OrderFacts
  <2> QED  BY <2>1, <1>3, <1>4 DEF Refusals
<1>5. CASE r.kind = "claim" /\ r.got = 0
  <2>1. x = r.task  BY <1>1, <1>2, <1>5, OrderFacts
  <2>2. agent[x] = r.other
    <3>1. "return" \notin Refusals(c, x)  BY <1>3
    <3> QED  BY <2>1, <1>5, <3>1 DEF Refusals
  <2>3. status[x] = "queued"
    <3>1. "query" \notin Refusals(c, x)  BY <1>3
    <3> QED  BY <2>1, <2>2, <1>5, <3>1 DEF Refusals
  <2> QED  BY <2>1, <2>3, <1>5
<1>6. CASE r.kind = "claim" /\ r.got = 1
  <2>1. x = Graph  BY <1>1, <1>2, <1>6, OrderFacts
  <2>2. Ready(r.task)
    <3>1. "rollback and query" \notin Refusals(c, x)  BY <1>3
    <3> QED  BY <2>1, <1>6, <3>1 DEF Refusals
  <2> QED  BY <2>2, <1>6
<1> QED  BY <1>4, <1>5, <1>6

(* The lock that is granted excludes every lock it has to.                 *)
LEMMA GrantKeeps ==
  ASSUME Inv, NEW c \in Callers, Waiting(c), \A d \in Callers : ~WaitsFor(c, d),
         locks' = locks \cup {Held(c, call[c].got + 1)}
  PROVE  Exclusion'
<1> DEFINE m == Held(c, call[c].got + 1)
<1>1. ASSUME NEW l \in locks, l.on = m.on, l.caller # c
      PROVE  l.mode = "share" /\ m.mode = "share"
  <2>1. l.caller \in Callers /\ l.mode \in {"share", "exclusive"}  BY <1>1 DEF Inv, Types
  <2>2. m.on = Wanted(c) /\ m.mode = Mode(call[c], Wanted(c))  BY DEF Held, Wanted
  <2>3. m.mode \in {"share", "exclusive"}  BY <2>2 DEF Mode
  <2>4. ~WaitsFor(c, l.caller)  BY <2>1
  <2> QED  BY <1>1, <2>1, <2>2, <2>3, <2>4 DEF WaitsFor
<1>2. m.caller = c  BY DEF Held
<1>3. locks' = locks \cup {m}  OBVIOUS
<1> HIDE DEF m
<1>4. ASSUME NEW l \in locks', NEW k \in locks', l.on = k.on, l.caller # k.caller
      PROVE  l.mode = "share" /\ k.mode = "share"
  BY <1>1, <1>2, <1>3, <1>4 DEF Exclusion, Inv
<1> QED  BY <1>4 DEF Exclusion

(* A query on a second connection with the transaction open is a claim's,  *)
(* which has locked its task only.                                         *)
LEMMA QueryIsOfClaim ==
  ASSUME Inv, NEW c \in Callers, Waiting(c), "query" \in Refusals(c, Wanted(c))
  PROVE  call[c].kind = "claim" /\ call[c].got = 0
<1> DEFINE r == call[c]
<1>1. IsRequest(r) /\ r.got \in Nat /\ r.got < Len(Order(r))
  BY DEF Inv, Types, Waiting, At, Idle
<1>2. r.kind = "claim" /\ Wanted(c) = r.task
  BY DEF Refusals
<1>3. Len(Order(r)) = 2 /\ Order(r)[2] = Graph  BY <1>1, <1>2, OrderFacts
<1>4. ASSUME r.got # 0 PROVE FALSE
  <2>1. Wanted(c) = Graph  BY <1>1, <1>3, <1>4 DEF Wanted
  <2> QED  BY <2>1, <1>1, <1>2, TaskLocksAssumption DEF IsRequest, TaskLocksAssumption
<1> QED  BY <1>2, <1>4

LEMMA GrantedKeeps ==
  ASSUME Inv, NEW c \in Callers, Waiting(c), \A d \in Callers : ~WaitsFor(c, d),
         locks' = locks \cup {Held(c, call[c].got + 1)}, UNCHANGED rows,
         \/ Refusals(c, Wanted(c)) = {} /\ call' = [call EXCEPT ![c].got = @ + 1]
         \/ "query" \in Refusals(c, Wanted(c)) /\ Goto(c, "again")
  PROVE  Inv'
<1> DEFINE n == call[c].got + 1
           granted == Refusals(c, Wanted(c)) = {} /\ call' = [call EXCEPT ![c].got = @ + 1]
           query == "query" \in Refusals(c, Wanted(c)) /\ Goto(c, "again")
<1>1. /\ call[c] \in [pc : {"reading", "connecting", "locking", "again"},
                      kind : Kinds, task : Tasks,
                      other : Tasks \cup Agents \cup {None}, got : Nat]
      /\ IsRequest(call[c]) /\ call[c].pc = "locking"
      /\ call[c].got < Len(Order(call[c]))
  BY DEF Inv, Types, Waiting, At, Idle
<1>2. /\ \A d \in Callers : d # c => call'[d] = call[d]
      /\ call'[c] = IF granted THEN [call[c] EXCEPT !.got = n]
                    ELSE [call[c] EXCEPT !.pc = "again"]
      /\ DOMAIN call' = Callers
      /\ granted \/ query
      /\ query => call[c].kind = "claim" /\ call[c].got = 0 /\ ~granted
  BY QueryIsOfClaim DEF Goto, Inv, Types
<1>3. \A d \in Callers : \A i : Held(d, i)' = Held(d, i)
  <2>1. \A d \in Callers : /\ call'[d].kind = call[d].kind
                           /\ call'[d].task = call[d].task
                           /\ call'[d].other = call[d].other
    BY <1>1, <1>2
  <2>2. \A d \in Callers : Order(call'[d]) = Order(call[d])  BY <2>1 DEF Order
  <2>3. \A d \in Callers : \A x : Mode(call'[d], x) = Mode(call[d], x)  BY <2>1 DEF Mode
  <2> QED  BY <2>2, <2>3 DEF Held, Order, Mode
<1>4. n \in 1 .. Len(Order(call[c]))  BY <1>1, OrderFacts
<1>5. Types'
  <2>1. IsRequest(call'[c]) /\ Order(call'[c]) = Order(call[c])
    BY <1>1, <1>2 DEF IsRequest, Order
  <2>2. call'[c].got <= Len(Order(call'[c]))  BY <2>1, <1>1, <1>2, <1>4
  <2>3. \A q : (IsRequest(q)' <=> IsRequest(q)) /\ Order(q)' = Order(q)
    BY DEF IsRequest, Order
  <2>4. Held(c, n) \in [caller : Callers, on : Tasks \cup Agents \cup {Graph},
                       mode : {"share", "exclusive"}]
    BY <1>1, <1>4, OrderFacts DEF Held
  <2>5. call'[c] \in [pc : {"reading", "connecting", "locking", "again"},
                      kind : Kinds, task : Tasks,
                      other : Tasks \cup Agents \cup {None}, got : Nat]
        /\ call'[c].pc \in {"locking", "again"}
    BY <1>1, <1>2
  <2> HIDE DEF granted, query
  <2>6. ASSUME NEW d \in Callers
        PROVE \/ call'[d] = Idle
              \/ /\ call'[d] \in [pc : {"reading", "connecting", "locking", "again"},
                                 kind : Kinds, task : Tasks,
                                 other : Tasks \cup Agents \cup {None}, got : Nat]
                 /\ IsRequest(call'[d])
                 /\ call'[d].got <= Len(Order(call'[d]))
                 /\ call'[d].pc \in {"reading", "connecting"} => call'[d].got = 0
    <3>1. CASE d = c  BY <3>1, <2>1, <2>2, <2>5
    <3>2. CASE d # c  BY <3>2, <1>2 DEF Inv, Types
    <3> QED  BY <3>1, <3>2
  <2> QED  BY <2>3, <2>4, <2>6, <1>2 DEF Inv, Types, rows
<1>6. LocksOfCalls'
  <2>1. ASSUME NEW l \in locks'
        PROVE LET d == l.caller IN
                \/ At(d, "locking")' /\ \E i \in 1 .. call'[d].got : l = Held(d, i)'
                \/ At(d, "again")' /\ call'[d].kind = "claim" /\ l = Held(d, 1)'
    <3>1. CASE l = Held(c, n)
      <4>1. l.caller = c  BY <3>1 DEF Held
      <4>2. CASE granted  BY <4>1, <4>2, <3>1, <1>1, <1>2, <1>3, <1>4 DEF At
      <4>3. CASE query  BY <4>1, <4>3, <3>1, <1>1, <1>2, <1>3 DEF At
      <4> QED  BY <4>2, <4>3, <1>2
    <3>2. CASE l \in locks /\ l.caller # c
      <4>1. l.caller \in Callers  BY <3>2 DEF Inv, Types
      <4> QED  BY <3>2, <4>1, <1>2, <1>3 DEF Inv, LocksOfCalls, At
    <3>3. CASE l \in locks /\ l.caller = c
      <4>1. PICK i \in 1 .. call[c].got : l = Held(c, i)
        BY <3>3, <1>1 DEF Inv, LocksOfCalls, At
      <4>2. granted  BY <4>1, <1>2
      <4>3. i \in 1 .. call'[c].got /\ At(c, "locking")'  BY <4>1, <4>2, <1>1, <1>2 DEF At
      <4> QED  BY <4>1, <4>3, <3>3, <1>3
    <3> QED  BY <3>1, <3>2, <3>3
  <2>2. ASSUME NEW d \in Callers, At(d, "locking")', NEW i \in 1 .. call'[d].got
        PROVE Held(d, i)' \in locks'
    <3>1. CASE d # c  BY <3>1, <2>2, <1>2, <1>3 DEF Inv, LocksOfCalls, At
    <3>2. CASE d = c
      <4>1. granted  BY <3>2, <2>2, <1>1, <1>2 DEF At
      <4>2. i \in 1 .. call[c].got \/ i = n  BY <4>1, <3>2, <2>2, <1>1, <1>2
      <4> QED  BY <4>2, <3>2, <1>1, <1>3 DEF Inv, LocksOfCalls, At
    <3> QED  BY <3>1, <3>2
  <2> QED  BY <2>1, <2>2 DEF LocksOfCalls
<1>7. Exclusion'  BY GrantKeeps
<1>8. Checked'
  <2>1. /\ \A x, y : Reaches(x, y)' <=> Reaches(x, y)
        /\ \A t : Ready(t)' <=> Ready(t)
    BY DEF rows, Reaches, Ready
  <2>2. ASSUME NEW d \in Callers, At(d, "locking")', d # c
        PROVE /\ call'[d].kind = "add" /\ call'[d].got >= 1
                   => ~Reaches(call'[d].task, call'[d].other)
              /\ call'[d].kind = "claim" /\ call'[d].got >= 1
                   => status[call'[d].task] = "queued"
              /\ call'[d].kind = "claim" /\ call'[d].got = 2 => Ready(call'[d].task)
    BY <2>2, <1>2 DEF Inv, Checked, At
  <2>3. ASSUME At(c, "locking")'
        PROVE /\ call'[c].kind = "add" /\ call'[c].got >= 1
                   => ~Reaches(call'[c].task, call'[c].other)
              /\ call'[c].kind = "claim" /\ call'[c].got >= 1
                   => status[call'[c].task] = "queued"
              /\ call'[c].kind = "claim" /\ call'[c].got = 2 => Ready(call'[c].task)
    <3>1. granted  BY <2>3, <1>1, <1>2 DEF At
    <3>2. LET r == call[c] IN
          /\ r.kind = "add" /\ r.got = 0 => ~Reaches(r.task, r.other)
          /\ r.kind = "claim" /\ r.got = 0 => status[r.task] = "queued"
          /\ r.kind = "claim" /\ r.got = 1 => Ready(r.task)
      BY <3>1, LockFindings
    <3>3. call'[c] = [call[c] EXCEPT !.got = n]  BY <3>1, <1>2
    <3>4. LET r == call[c] IN
          /\ r.kind = "add" /\ r.got >= 1 => ~Reaches(r.task, r.other)
          /\ r.kind = "claim" /\ r.got >= 1 => status[r.task] = "queued"
      BY <1>1 DEF Inv, Checked, At
    <3> HIDE DEF granted, query
    <3> QED  BY <3>2, <3>3, <3>4, <1>1
  <2> QED  BY <2>1, <2>2, <2>3 DEF Checked, rows
<1>9. GraphAcyclic'  BY DEF Inv, GraphAcyclic, rows
<1> QED  BY <1>5, <1>6, <1>7, <1>8, <1>9 DEF Inv

LEMMA LockKeeps ==
  ASSUME Inv, NEW c \in Callers, Lock(c) PROVE Inv'
<1> DEFINE x == Wanted(c)
<1>1. Waiting(c) /\ (\A d \in Callers : ~WaitsFor(c, d)) /\ UNCHANGED rows
  BY DEF Lock
<1>2. CASE Return(c)  BY <1>1, <1>2, ReturnKeeps DEF Return, rows
<1>3. CASE Goto(c, "again") /\ EndTransaction(c)
  BY <1>1, <1>3, ReturnKeeps DEF Waiting, rows
<1>4. CASE /\ \/ "query" \in Refusals(c, x) /\ Goto(c, "again")
              \/ Refusals(c, x) = {} /\ call' = [call EXCEPT ![c].got = @ + 1]
           /\ locks' = locks \cup {[caller |-> c, on |-> x, mode |-> Mode(call[c], x)]}
  <2>1. locks' = locks \cup {Held(c, call[c].got + 1)}  BY <1>4 DEF Held, Wanted
  <2> QED  BY <2>1, <1>1, <1>4, GrantedKeeps
<1> QED  BY <1>2, <1>3, <1>4 DEF Lock

(* An edge into a closed set from outside it closes no cycle.              *)
LEMMA EdgeKeepsAcyclic ==
  ASSUME NEW E \in SUBSET (Tasks \X Tasks), Acyclic(E), NEW p \in Tasks, NEW d \in Tasks,
         NEW C \in SUBSET Tasks, d \in C, Closed(C, E), p \notin C
  PROVE  Acyclic(E \cup {<<p, d>>})
<1> SUFFICES ASSUME NEW S \in (SUBSET Tasks) \ {{}}
             PROVE \E k \in S : \A e \in E \cup {<<p, d>>} : e[2] = k => e[1] \notin S
  BY DEF Acyclic
<1>1. CASE S \subseteq C
  <2>1. PICK k \in S : \A e \in E : e[2] = k => e[1] \notin S  BY DEF Acyclic
  <2> QED  BY <1>1, <2>1
<1>2. CASE ~(S \subseteq C)
  <2>1. S \ C \in (SUBSET Tasks) \ {{}}  BY <1>2
  <2>2. PICK k \in S \ C : \A e \in E : e[2] = k => e[1] \notin S \ C
    BY <2>1 DEF Acyclic
  <2>3. \A e \in E : e[2] = k => e[1] \notin C  BY <2>2 DEF Closed
  <2> QED  BY <2>2, <2>3
<1> QED  BY <1>1, <1>2

LEMMA FewerEdgesAcyclic ==
  ASSUME NEW E, NEW F \in SUBSET E, Acyclic(E) PROVE Acyclic(F)
BY DEF Acyclic

(* Two calls have locked the same thing only if both share it.             *)
LEMMA HeldApart ==
  ASSUME Inv, NEW c \in Callers, NEW d \in Callers, c # d,
         At(c, "locking"), At(d, "locking"),
         NEW i \in 1 .. call[c].got, NEW j \in 1 .. call[d].got,
         Order(call[c])[i] = Order(call[d])[j]
  PROVE  /\ Mode(call[c], Order(call[c])[i]) = "share"
         /\ Mode(call[d], Order(call[d])[j]) = "share"
<1>1. Held(c, i) \in locks /\ Held(d, j) \in locks  BY DEF Inv, LocksOfCalls
<1>2. /\ Held(c, i).on = Held(d, j).on
      /\ Held(c, i).caller # Held(d, j).caller
      /\ Held(c, i).mode = Mode(call[c], Order(call[c])[i])
      /\ Held(d, j).mode = Mode(call[d], Order(call[d])[j])
  BY DEF Held
<1> QED  BY <1>1, <1>2 DEF Inv, Exclusion

(* Only one insertion, and no claim past its check, is under the lock of   *)
(* the graph at a time.                                                    *)
LEMMA GraphHeldApart ==
  ASSUME Inv, NEW c \in Callers, NEW d \in Callers, c # d,
         At(c, "locking"), At(d, "locking"),
         call[c].kind = "add", call[c].got >= 1
  PROVE  /\ call[d].kind = "add" => call[d].got = 0
         /\ call[d].kind \in {"claim", "place"} => call[d].got <= 1
<1>1. /\ IsRequest(call[c]) /\ call[c].got \in Nat
      /\ IsRequest(call[d]) /\ call[d].got \in Nat
  BY DEF Inv, Types, At, Idle
<1>2. Order(call[c])[1] = Graph /\ Mode(call[c], Graph) = "exclusive"
  BY <1>1, OrderFacts
<1>3. ASSUME call[d].kind = "add", call[d].got # 0 PROVE FALSE
  <2>1. Order(call[d])[1] = Graph  BY <1>1, <1>3, OrderFacts
  <2>2. 1 \in 1 .. call[c].got /\ 1 \in 1 .. call[d].got  BY <1>1, <1>3
  <2> QED  BY <2>1, <2>2, <1>2, HeldApart
<1>4. ASSUME call[d].kind \in {"claim", "place"}, ~(call[d].got <= 1) PROVE FALSE
  <2>1. Order(call[d])[2] = Graph  BY <1>1, <1>4, OrderFacts
  <2>2. 1 \in 1 .. call[c].got /\ 2 \in 1 .. call[d].got  BY <1>1, <1>4
  <2> QED  BY <2>1, <2>2, <1>2, HeldApart
<1> QED  BY <1>3, <1>4

(* A call that writes has all of its locks.                                *)
LEMMA WriterHolds ==
  ASSUME Inv, NEW c \in Callers, At(c, "locking"), ~Waiting(c)
  PROVE  /\ call[c] \in [pc : {"reading", "connecting", "locking", "again"},
                         kind : Kinds, task : Tasks,
                         other : Tasks \cup Agents \cup {None}, got : Nat]
         /\ IsRequest(call[c])
         /\ call[c].kind = "claim" => call[c].got = 2
         /\ call[c].kind = "add" => call[c].got = 3
<1>1. /\ call[c] \in [pc : {"reading", "connecting", "locking", "again"},
                      kind : Kinds, task : Tasks,
                      other : Tasks \cup Agents \cup {None}, got : Nat]
      /\ IsRequest(call[c]) /\ call[c].got <= Len(Order(call[c]))
  BY DEF Inv, Types, At, Idle
<1>2. call[c].got = Len(Order(call[c]))  BY <1>1, OrderFacts DEF Waiting
<1> QED  BY <1>1, <1>2, OrderFacts

(* What was found holds as long as no edge comes, no task of a claim is    *)
(* changed and no prerequisite is lost.                                    *)
LEMMA FindingsKept ==
  ASSUME Inv, edges' \subseteq edges,
         \A d \in Callers : At(d, "locking")' => At(d, "locking") /\ call'[d] = call[d],
         \A d \in Callers : At(d, "locking")' /\ call[d].kind = "claim" /\ call[d].got >= 1
           => status'[call[d].task] = "queued",
         \A t : Ready(t) => Ready(t)'
  PROVE  Checked'
<1>1. \A x, y : ~Reaches(x, y) => ~Reaches(x, y)'
  <2>1. \A C : Closed(C, edges) => Closed(C, edges')  BY DEF Closed
  <2> QED  BY <2>1 DEF Reaches, Closed
<1>2. ASSUME NEW d \in Callers, At(d, "locking")'
      PROVE /\ call'[d] = call[d]
            /\ call[d].kind = "add" /\ call[d].got >= 1
                 => ~Reaches(call[d].task, call[d].other)
            /\ call[d].kind = "claim" /\ call[d].got >= 1
                 => status'[call[d].task] = "queued"
            /\ call[d].kind = "claim" /\ call[d].got = 2 => Ready(call[d].task)
  BY <1>2 DEF Inv, Checked
<1> QED  BY <1>1, <1>2 DEF Checked

LEMMA WriteKeeps ==
  ASSUME Inv, NEW c \in Callers, Write(c) PROVE Inv'
<1> DEFINE r == call[c]
<1>1. /\ At(c, "locking") /\ ~Waiting(c)
      /\ r \in [pc : {"reading", "connecting", "locking", "again"},
                kind : Kinds, task : Tasks,
                other : Tasks \cup Agents \cup {None}, got : Nat]
      /\ IsRequest(r)
      /\ r.kind = "claim" => r.got = 2
      /\ r.kind = "add" => r.got = 3
  BY WriterHolds DEF Write
<1>2. CASE r.kind \in {"place", "assign"}
  <2>1. EndTransaction(c) /\ call' = [call EXCEPT ![c] = Idle] /\ UNCHANGED <<status, edges>>
    BY <1>2 DEF Write, Return
  <2> QED  BY <2>1, ReturnKeeps
<1>3. CASE r.kind \in {"claim", "add"}
  <2>1. Goto(c, "again") /\ EndTransaction(c)  BY <1>3 DEF Write
  <2>2. /\ status' \in [Tasks -> Statuses]
        /\ edges' \subseteq Tasks \X Tasks
    BY <1>1, <1>3 DEF Write, Inv, Types, IsRequest, Statuses
  <2>3. Types' /\ LocksOfCalls' /\ Exclusion'  BY <1>1, <2>1, <2>2, EndKeeps
  <2>4. \A d \in Callers : At(d, "locking")' =>
           d # c /\ At(d, "locking") /\ call'[d] = call[d]
    BY <2>1 DEF Goto, At, Inv, Types
  <2>5. CASE r.kind = "claim"
    <3>1. edges' = edges /\ status' = [status EXCEPT ![r.task] = "running"]
      BY <2>5 DEF Write
    <3>2. status[r.task] = "queued"  BY <1>1, <2>5 DEF Inv, Checked
    <3>3. \A t \in Tasks : t # r.task => status'[t] = status[t]
      BY <3>1 DEF Inv, Types
    <3>4. \A t : Ready(t) => Ready(t)'
      BY <3>1, <3>2, <3>3 DEF Ready, Inv, Types
    <3>6. ASSUME NEW d \in Callers, At(d, "locking")', call[d].kind = "claim",
                 call[d].got >= 1
          PROVE  call[d].task # r.task
      <4>1. d # c /\ At(d, "locking")  BY <2>4, <3>6
      <4>2. IsRequest(call[d]) /\ call[d].got \in Nat  BY <4>1 DEF Inv, Types, At, Idle
      <4>3. /\ Order(call[d])[1] = call[d].task
            /\ Order(r)[1] = r.task /\ Mode(r, r.task) = "exclusive"
        BY <1>1, <2>5, <3>6, <4>2, OrderFacts
      <4>4. 1 \in 1 .. call[d].got /\ 1 \in 1 .. r.got  BY <1>1, <2>5, <3>6, <4>2
      <4> QED  BY <1>1, <4>1, <4>3, <4>4, HeldApart
    <3>7. \A d \in Callers : At(d, "locking")' /\ call[d].kind = "claim" /\ call[d].got >= 1
             => status'[call[d].task] = "queued"
      <4> TAKE d \in Callers
      <4> HAVE At(d, "locking")' /\ call[d].kind = "claim" /\ call[d].got >= 1
      <4>1. call[d].task # r.task /\ At(d, "locking")  BY <3>6, <2>4
      <4>2. call[d].task \in Tasks  BY <4>1 DEF Inv, Types, At, Idle
      <4>3. status[call[d].task] = "queued"  BY <4>1 DEF Inv, Checked
      <4> QED  BY <4>1, <4>2, <4>3, <3>3
    <3>8. Checked'
      <4>1. edges' \subseteq edges  BY <3>1
      <4> QED  BY <4>1, <2>4, <3>4, <3>7, FindingsKept
    <3>9. GraphAcyclic'  BY <3>1 DEF Inv, GraphAcyclic
    <3> QED  BY <2>3, <3>8, <3>9 DEF Inv
  <2>6. CASE r.kind = "add"
    <3>1. edges' = edges \cup {<<r.other, r.task>>} /\ status' = status
      BY <2>6 DEF Write
    <3>2. GraphAcyclic'
      <4>1. ~Reaches(r.task, r.other)  BY <1>1, <2>6 DEF Inv, Checked
      <4>2. PICK C \in SUBSET Tasks : r.task \in C /\ Closed(C, edges) /\ r.other \notin C
        BY <4>1 DEF Reaches
      <4>3. r.task \in Tasks /\ r.other \in Tasks  BY <1>1, <2>6 DEF IsRequest
      <4>4. edges \in SUBSET (Tasks \X Tasks) /\ Acyclic(edges)
        BY DEF Inv, Types, GraphAcyclic
      <4>5. Acyclic(edges \cup {<<r.other, r.task>>})
        BY <4>2, <4>3, <4>4, EdgeKeepsAcyclic
      <4> QED  BY <4>5, <3>1 DEF GraphAcyclic
    <3>3. \A d \in Callers : At(d, "locking")' =>
            /\ call[d].kind = "add" => call[d].got = 0
            /\ call[d].kind \in {"claim", "place"} => call[d].got <= 1
      BY <1>1, <2>4, <2>6, GraphHeldApart
    <3>4. Checked'
      <4> SUFFICES ASSUME NEW d \in Callers, At(d, "locking")'
                   PROVE /\ call'[d].kind # "add" \/ call'[d].got < 1
                         /\ call'[d].kind = "claim" /\ call'[d].got >= 1
                              => status'[call'[d].task] = "queued"
                         /\ call'[d].kind # "claim" \/ call'[d].got # 2
        <5>1. \A d \in Callers : At(d, "locking")' => call'[d].got \in Nat
          BY <2>4 DEF Inv, Types, At, Idle
        <5> QED  BY <5>1 DEF Checked
      <4>1. At(d, "locking") /\ call'[d] = call[d]  BY <2>4
      <4>2. call[d].got \in Nat  BY <4>1 DEF Inv, Types, At, Idle
      <4> QED  BY <4>1, <4>2, <3>1, <3>3 DEF Inv, Checked
    <3> QED  BY <2>3, <3>2, <3>4 DEF Inv
  <2> QED  BY <1>3, <2>5, <2>6
<1> QED  BY <1>2, <1>3, <1>1 DEF IsRequest, Kinds

(* A statement that takes no lock of a call.                               *)
LEMMA LocksKept ==
  ASSUME Inv, UNCHANGED <<call, locks>> PROVE LocksOfCalls' /\ Exclusion'
<1>1. \A d, i : Held(d, i)' = Held(d, i)  BY DEF Held, Order, Mode
<1>2. ASSUME NEW l \in locks'
      PROVE LET d == l.caller IN
              \/ At(d, "locking")' /\ \E i \in 1 .. call'[d].got : l = Held(d, i)'
              \/ At(d, "again")' /\ call'[d].kind = "claim" /\ l = Held(d, 1)'
  BY <1>1 DEF Inv, LocksOfCalls, At
<1>3. ASSUME NEW d \in Callers, At(d, "locking")', NEW i \in 1 .. call'[d].got
      PROVE Held(d, i)' \in locks'
  BY <1>1, <1>3 DEF Inv, LocksOfCalls, At
<1>4. Exclusion'  BY DEF Inv, Exclusion
<1> QED  BY <1>2, <1>3, <1>4 DEF LocksOfCalls

LEMMA FinishKeeps ==
  ASSUME Inv, NEW t \in Tasks, Finish(t) PROVE Inv'
<1>1. /\ status[t] = "running" /\ UNCHANGED <<edges, call, locks>>
      /\ status' \in [Tasks -> Statuses]
      /\ \A u \in Tasks : u # t => status'[u] = status[u]
  BY DEF Finish, Inv, Types, Statuses
<1>2. Types'  BY <1>1 DEF Inv, Types, IsRequest, Order
<1>3. LocksOfCalls' /\ Exclusion' /\ GraphAcyclic'
  BY <1>1, LocksKept DEF Inv, GraphAcyclic
<1>4. Checked'
  <2>1. \A d \in Callers : At(d, "locking")' => At(d, "locking") /\ call'[d] = call[d]
    BY <1>1 DEF At
  <2>2. \A d \in Callers : At(d, "locking")' /\ call[d].kind = "claim" /\ call[d].got >= 1
          => status'[call[d].task] = "queued"
    <3> TAKE d \in Callers
    <3> HAVE At(d, "locking")' /\ call[d].kind = "claim" /\ call[d].got >= 1
    <3>1. call[d].task \in Tasks  BY <2>1 DEF Inv, Types, At, Idle
    <3>2. status[call[d].task] = "queued"  BY <2>1 DEF Inv, Checked
    <3> QED  BY <1>1, <3>1, <3>2
  <2>3. \A u : Ready(u) => Ready(u)'  BY <1>1 DEF Ready, Inv, Types
  <2>4. edges' \subseteq edges  BY <1>1
  <2> QED  BY <2>1, <2>2, <2>3, <2>4, FindingsKept
<1> QED  BY <1>2, <1>3, <1>4 DEF Inv

LEMMA RemoveKeeps ==
  ASSUME Inv, NEW e \in edges, RemoveTaskDependency(e) PROVE Inv'
<1>1. edges' \in SUBSET edges /\ UNCHANGED <<status, call, locks>>
  BY DEF RemoveTaskDependency
<1>2. Types'  BY <1>1 DEF Inv, Types, IsRequest, Order
<1>3. LocksOfCalls' /\ Exclusion'  BY <1>1, LocksKept
<1>4. GraphAcyclic'
  <2>1. Acyclic(edges')  BY <1>1, FewerEdgesAcyclic DEF Inv, GraphAcyclic
  <2> QED  BY <2>1 DEF GraphAcyclic
<1>5. Checked'
  <2>1. \A d \in Callers : At(d, "locking")' => At(d, "locking") /\ call'[d] = call[d]
    BY <1>1 DEF At
  <2>2. \A d \in Callers : At(d, "locking")' /\ call[d].kind = "claim" /\ call[d].got >= 1
          => status'[call[d].task] = "queued"
    BY <1>1, <2>1 DEF Inv, Checked
  <2>3. \A u : Ready(u) => Ready(u)'  BY <1>1 DEF Ready
  <2> QED  BY <1>1, <2>1, <2>2, <2>3, FindingsKept
<1> QED  BY <1>2, <1>3, <1>4, <1>5 DEF Inv

LEMMA NextKeeps ==
  ASSUME TaskLocksAssumption, Inv, [Next]_vars PROVE Inv'
<1>1. ASSUME NEW c \in Callers, NEW r \in Requests, Begin(c, r) PROVE Inv'
  BY <1>1, BeginKeeps
<1>2. ASSUME NEW c \in Callers, Proceed(c) PROVE Inv'
  <2>1. CASE Again(c)  BY <2>1, ReturnKeeps DEF Again, Return, rows
  <2> QED  BY <1>2, <2>1, ReadTasksKeeps, ConnectKeeps, LockKeeps, WriteKeeps DEF Proceed
<1>3. ASSUME NEW c \in Callers, ConnectTimesOut(c) \/ Victim(c) \/ Crash(c) PROVE Inv'
  <2>1. Return(c) /\ UNCHANGED rows  BY <1>3 DEF ConnectTimesOut, Victim, Crash
  <2> QED  BY <2>1, ReturnKeeps DEF Return, rows
<1>4. ASSUME NEW t \in Tasks, Finish(t) PROVE Inv'  BY <1>4, FinishKeeps
<1>5. ASSUME NEW e \in edges, RemoveTaskDependency(e) PROVE Inv'  BY <1>5, RemoveKeeps
<1>6. CASE UNCHANGED vars
  <2>1. Types'  BY <1>6 DEF vars, Inv, Types, IsRequest, Order
  <2>2. LocksOfCalls' /\ Exclusion'  BY <1>6, LocksKept DEF vars
  <2>3. Checked'  BY <1>6 DEF vars, Inv, Checked, At, Reaches, Ready
  <2>4. GraphAcyclic'  BY <1>6 DEF vars, Inv, GraphAcyclic
  <2> QED  BY <2>1, <2>2, <2>3, <2>4 DEF Inv
<1> QED  BY <1>1, <1>2, <1>3, <1>4, <1>5, <1>6 DEF Next

(* The locks of the calls and what they found under them, always.          *)
THEOREM LocksInvariant == ASSUME TaskLocksAssumption PROVE Spec => []Inv
<1>1. Init => Inv  BY InitInv
<1>2. Inv /\ [Next]_vars => Inv'  BY NextKeeps
<1> QED  BY <1>1, <1>2, PTL DEF Spec

(* No number of concurrent insertions closes a cycle: the check of the     *)
(* trigger and the commit of the edge are one step for every other         *)
(* insertion (gate 38, repo.ts addTaskDependency).                         *)
THEOREM GraphNeverCyclic == ASSUME TaskLocksAssumption PROVE Spec => []GraphAcyclic
<1>1. Inv => GraphAcyclic  BY DEF Inv
<1> QED  BY <1>1, LocksInvariant, PTL

(* A claim writes only while every prerequisite is completed.              *)
LEMMA ClaimStepReady ==
  ASSUME TaskLocksAssumption, Inv, [Next]_vars, NEW t \in Tasks,
         status[t] = "queued", status'[t] = "running"
  PROVE  Ready(t)
<1>1. PICK c \in Callers : Write(c)
  <2>1. status' # status  OBVIOUS
  <2>2. \A u \in Tasks : ~Finish(u)
    BY DEF Finish, Inv, Types
  <2>3. \A c \in Callers, r \in Requests : ~Begin(c, r)  BY <2>1 DEF Begin, rows
  <2>4. \A c \in Callers : /\ ~ReadTasks(c) /\ ~Connect(c) /\ ~Lock(c) /\ ~Again(c)
                           /\ ~ConnectTimesOut(c) /\ ~Victim(c) /\ ~Crash(c)
    BY <2>1 DEF ReadTasks, Connect, Lock, Again, ConnectTimesOut, Victim, Crash, rows
  <2>5. \A e \in edges : ~RemoveTaskDependency(e)  BY <2>1 DEF RemoveTaskDependency
  <2> QED  BY <2>1, <2>2, <2>3, <2>4, <2>5 DEF Next, Proceed, vars
<1>2. /\ At(c, "locking") /\ ~Waiting(c) /\ call[c].kind = "claim"
      /\ call[c].task = t
  BY <1>1 DEF Write, Inv, Types
<1>3. call[c].got = 2  BY <1>2, WriterHolds
<1> QED  BY <1>2, <1>3 DEF Inv, Checked

(* However many insertions run at the same time, a task is claimed only    *)
(* when all of its prerequisites are completed (repo.ts                    *)
(* claimTaskForExecution under the lock of the graph).                     *)
THEOREM ClaimsAreReady == ASSUME TaskLocksAssumption PROVE Spec => ClaimedWhenReady
<1>1. Inv /\ [Next]_vars
        => [\A t \in Tasks : status[t] = "queued" /\ status'[t] = "running" => Ready(t)]_vars
  BY ClaimStepReady
<1> QED  BY <1>1, LocksInvariant, PTL DEF Spec, ClaimedWhenReady

(***************************************************************************)
(* Deadlocks.                                                              *)
(***************************************************************************)

(* What a waiting call waits for.                                          *)
LEMMA WhatWaits ==
  ASSUME Inv, NEW c \in Callers, Waiting(c)
  PROVE  LET r == call[c]
             x == Wanted(c)
         IN  /\ IsRequest(r) /\ r.got \in Nat /\ At(c, "locking")
             /\ r.kind = "claim" => \/ r.got = 0 /\ x = r.task
                                    \/ r.got = 1 /\ x = Graph
             /\ r.kind = "place" => \/ r.got = 0 /\ x = r.task
                                    \/ r.got = 1 /\ x = Graph
                                    \/ r.got = 2 /\ x = r.other
             /\ r.kind = "assign" => \/ r.got = 0 /\ x = r.task
                                     \/ r.got = 1 /\ x = r.other /\ r.other \in Agents
             /\ r.kind = "add" => \/ r.got = 0 /\ x = Graph
                                  \/ r.got = 1 /\ x = r.other
                                  \/ r.got = 2 /\ x = r.task
<1> DEFINE r == call[c]
<1>1. /\ IsRequest(r) /\ r.got \in Nat /\ At(c, "locking") /\ r.got < Len(Order(r))
  BY DEF Inv, Types, Waiting, At, Idle
<1>2. Wanted(c) = Order(r)[r.got + 1]  BY DEF Wanted
<1>3. r.got \in {0, 1, 2}  BY <1>1, OrderFacts
<1>4. /\ r.got = 0 => Wanted(c) = Order(r)[1]
      /\ r.got = 1 => Wanted(c) = Order(r)[2]
      /\ r.got = 2 => Wanted(c) = Order(r)[3]
  BY <1>2
<1> HIDE DEF r
<1>5. CASE r.kind = "claim"
  <2>1. Len(Order(r)) = 2 /\ Order(r)[1] = r.task /\ Order(r)[2] = Graph
    BY <1>1, <1>5, OrderFacts
  <2> QED  BY <2>1, <1>1, <1>3, <1>4, <1>5 DEF r
<1>6. CASE r.kind = "place"
  <2>1. /\ Len(Order(r)) = 3 /\ Order(r)[1] = r.task
        /\ Order(r)[2] = Graph /\ Order(r)[3] = r.other
    BY <1>1, <1>6, OrderFacts
  <2> QED  BY <2>1, <1>1, <1>3, <1>4, <1>6 DEF r
<1>7. CASE r.kind = "assign"
  <2>1. /\ Order(r)[1] = r.task /\ Len(Order(r)) \in {1, 2}
        /\ Len(Order(r)) = 2 => Order(r)[2] = r.other /\ r.other \in Agents
    BY <1>1, <1>7, OrderFacts
  <2> QED  BY <2>1, <1>1, <1>3, <1>4, <1>7 DEF r
<1>8. CASE r.kind = "add"
  <2>1. /\ Len(Order(r)) = 3 /\ Order(r)[1] = Graph
        /\ Order(r)[2] = r.other /\ Order(r)[3] = r.task
    BY <1>1, <1>8, OrderFacts
  <2> QED  BY <2>1, <1>1, <1>3, <1>4, <1>8 DEF r
<1> QED  BY <1>1, <1>5, <1>6, <1>7, <1>8 DEF r, IsRequest, Kinds

(* What a call that waits itself can keep another one from.  The agents    *)
(* are locked last: who has one waits for nothing.                         *)
LEMMA WhatBlocks ==
  ASSUME TaskLocksAssumption, Inv, NEW c \in Callers, NEW d \in Callers,
         WaitsFor(c, d), Waiting(d)
  PROVE  LET r == call[d]
             x == Wanted(c)
         IN  \/ x = Graph /\ r.kind = "add" /\ r.got >= 1
             \/ x = Graph /\ r.kind = "place" /\ r.got = 2
             \/ x = r.task /\ r.kind # "add" /\ r.got = 1
             \/ x = r.task /\ r.kind = "place" /\ r.got = 2
             \/ /\ x \in Tasks /\ r.kind = "add" /\ r.got >= 1
                /\ Mode(call[c], x) = "exclusive"
<1> DEFINE r == call[d]
           x == Wanted(c)
<1>1. /\ IsRequest(r) /\ r.got \in Nat /\ At(d, "locking") /\ r.got < Len(Order(r))
  BY DEF Inv, Types, Waiting, At, Idle
<1>2. PICK l \in locks : /\ l.caller = d /\ l.on = x
                        /\ "exclusive" \in {l.mode, Mode(call[c], x)}
  BY DEF WaitsFor
<1>3. PICK i \in 1 .. r.got : l = Held(d, i)
  BY <1>1, <1>2 DEF Inv, LocksOfCalls, At
<1>4. x = Order(r)[i] /\ l.mode = Mode(r, x)  BY <1>2, <1>3 DEF Held
<1>5. i \in {1, 2} /\ i <= r.got /\ r.got \in {1, 2}  BY <1>1, <1>3, OrderFacts
<1>6. CASE r.kind = "claim"  BY <1>1, <1>4, <1>5, <1>6, OrderFacts
<1>7. CASE r.kind = "place"  BY <1>1, <1>4, <1>5, <1>7, OrderFacts
<1>8. CASE r.kind = "assign"  BY <1>1, <1>4, <1>5, <1>8, OrderFacts
<1>9. CASE r.kind = "add"
  <2>1. CASE i = 1  BY <2>1, <1>1, <1>4, <1>5, <1>9, OrderFacts
  <2>2. CASE i = 2
    <3>1. x = r.other /\ r.other \in Tasks
      BY <2>2, <1>1, <1>4, <1>9, OrderFacts DEF IsRequest
    <3>2. x # Graph  BY <3>1 DEF TaskLocksAssumption
    <3>3. l.mode = "share"  BY <1>4, <1>9, <3>2 DEF Mode
    <3> QED  BY <1>2, <1>5, <1>9, <3>1, <3>3
  <2> QED  BY <2>1, <2>2, <1>5
<1> QED  BY <1>1, <1>6, <1>7, <1>8, <1>9 DEF IsRequest, Kinds

LEMMA DeadlockShape ==
  ASSUME TaskLocksAssumption, Inv, NEW S \in SUBSET Callers, Deadlock(S)
  PROVE  \E c, d \in S :
           /\ S = {c, d}
           /\ call[c].kind = "add" /\ call[d].kind \in {"claim", "place"}
           /\ call[d].task \in {call[c].task, call[c].other}
<1>1. \A c \in S : \E d \in S : WaitsFor(c, d)  BY DEF Deadlock, Stuck
<1>2. \A c \in S : Waiting(c) /\ c \in Callers  BY <1>1 DEF WaitsFor
<1>3. \A a \in Agents : a \notin Tasks /\ a # Graph  BY DEF TaskLocksAssumption
<1>4. ASSUME NEW c \in S PROVE Wanted(c) \notin Agents
  <2>1. PICK d \in S : WaitsFor(c, d)  BY <1>1
  <2>2. call[d].task \in Tasks  BY <1>2, WhatWaits DEF IsRequest
  <2> QED  BY <1>2, <1>3, <2>1, <2>2, WhatBlocks
<1>5. \A c \in S : /\ call[c].kind = "claim" => call[c].got <= 1
                   /\ call[c].kind = "place" => call[c].got <= 1
                   /\ call[c].kind = "assign" => call[c].got = 0
  <2> TAKE c \in S
  <2>1. Wanted(c) \notin Agents  BY <1>4
  <2>2. /\ IsRequest(call[c])
        /\ call[c].kind = "claim" => call[c].got <= 1
        /\ call[c].kind = "place" => call[c].got <= 1 \/ Wanted(c) = call[c].other
        /\ call[c].kind = "assign" => \/ call[c].got = 0
                                      \/ Wanted(c) \in Agents
    BY <1>2, WhatWaits
  <2> QED  BY <2>1, <2>2 DEF IsRequest
<1>6. ASSUME NEW c \in S, NEW d \in S, WaitsFor(c, d), Wanted(c) = Graph
      PROVE  call[d].kind = "add" /\ call[d].got >= 1
  <2>1. call[d].task \in Tasks  BY <1>2, WhatWaits DEF IsRequest
  <2>2. Graph \notin Tasks  BY DEF TaskLocksAssumption
  <2> QED  BY <1>2, <1>5, <1>6, <2>1, <2>2, WhatBlocks
<1>7. \E c \in S : call[c].kind = "add" /\ call[c].got >= 1
  <2>1. PICK b \in S : TRUE  BY DEF Deadlock, Stuck
  <2>2. PICK d \in S : WaitsFor(b, d)  BY <1>1
  <2>3. \/ call[d].kind = "add" /\ call[d].got >= 1
        \/ call[d].kind # "add" /\ call[d].got = 1
    BY <1>2, <1>5, <2>2, WhatBlocks
  <2>4. CASE call[d].kind # "add" /\ call[d].got = 1
    <3>1. call[d].kind \in {"claim", "place"}
      BY <1>2, <1>5, <2>4, WhatWaits DEF IsRequest, Kinds
    <3>2. Wanted(d) = Graph  BY <1>2, <2>4, <3>1, WhatWaits
    <3>3. PICK e \in S : WaitsFor(d, e)  BY <1>1
    <3> QED  BY <1>6, <3>2, <3>3
  <2> QED  BY <2>3, <2>4
<1>8. PICK c \in S : call[c].kind = "add" /\ call[c].got >= 1  BY <1>7
<1>9. /\ Wanted(c) \in {call[c].task, call[c].other} /\ Wanted(c) \in Tasks
      /\ Wanted(c) # Graph
  BY <1>2, <1>8, WhatWaits DEF IsRequest, TaskLocksAssumption
<1>10. PICK d \in S : WaitsFor(c, d)  BY <1>1
<1>11. call[d].kind \in {"claim", "place"} /\ call[d].got = 1 /\ call[d].task = Wanted(c)
  <2>1. Mode(call[c], Wanted(c)) = "share"  BY <1>8, <1>9 DEF Mode
  <2>2. call[d].task = Wanted(c) /\ call[d].kind # "add" /\ call[d].got \in {1, 2}
    BY <1>2, <1>9, <1>10, <2>1, WhatBlocks
  <2> QED  BY <1>2, <1>5, <2>2, WhatWaits DEF IsRequest, Kinds
<1>12. WaitsFor(d, c)
  <2>1. Wanted(d) = Graph  BY <1>2, <1>11, WhatWaits
  <2>2. PICK e \in S : WaitsFor(d, e)  BY <1>1
  <2>3. call[e].kind = "add" /\ call[e].got >= 1  BY <1>6, <2>1, <2>2
  <2>4. At(e, "locking") /\ At(c, "locking") /\ call[e].got \in Nat
    BY <1>2, WhatWaits
  <2>5. e = c  BY <1>2, <1>8, <2>3, <2>4, GraphHeldApart
  <2> QED  BY <2>2, <2>5
<1>13. Stuck({c, d}) /\ {c, d} \in SUBSET S  BY <1>10, <1>12 DEF Stuck
<1>14. S = {c, d}  BY <1>13 DEF Deadlock
<1> QED  BY <1>8, <1>9, <1>11, <1>14

(* However many calls there are, a deadlock is always an insertion and the *)
(* claim or placement of one of its tasks: claimTaskForExecution,          *)
(* assignTaskIfUnassigned and assignTask never deadlock among themselves.  *)
THEOREM DeadlocksAreInsertions ==
  ASSUME TaskLocksAssumption PROVE Spec => []DeadlockNeedsInsertion
<1>1. Inv => DeadlockNeedsInsertion  BY DeadlockShape DEF DeadlockNeedsInsertion
<1> QED  BY <1>1, LocksInvariant, PTL
================================================================================
