------------------------ MODULE CommandExecutionProofs ------------------------
(***************************************************************************)
(* What holds of the execution of commands for every number of executions, *)
(* models and providers, every registry and every history of health: the   *)
(* tools an execution runs are bounded by the models it has called, an     *)
(* abort leaves at most the response in hand, a plan is followed step by   *)
(* step, and an open circuit admits nobody.                                *)
(***************************************************************************)
EXTENDS CommandExecution, FiniteSetTheorems, SequenceTheorems, TLAPS

(***************************************************************************)
(* The strengthening speaks of one record r of an execution at a time.     *)
(* The candidates given up are those before `at', so the next one is new   *)
(* among the models called; within a candidate the tools already run are   *)
(* those of the rounds before and of the response in hand.                 *)
(***************************************************************************)
Ordered(r) ==
    /\ IsInjective(r.ranked) /\ Len(r.ranked) <= MaxCandidates
    /\ r.at <= Len(r.ranked) + 1
    /\ r.dead = {r.ranked[i] : i \in 1 .. r.at - 1}

InHand(r) ==
    /\ Ordered(r) /\ r.at <= Len(r.ranked) /\ r.model = r.ranked[r.at]
    /\ r.model \in r.called /\ r.called \subseteq r.dead \cup {r.model}
    /\ r.round >= 1

Called(r) == Cardinality(r.called)

PerModel == MaxRounds * MaxCalls

EarlierModels(r) == (Called(r) - 1) * PerModel

Candidates(r) ==
    /\ r.pc = "choosing" => Ordered(r) /\ r.called \subseteq r.dead
    /\ r.pc \in {"requesting", "acting"} => InHand(r)

Effects(r) ==
    /\ r.acts <= Called(r) * PerModel
    /\ r.pc = "requesting" => r.acts <= EarlierModels(r) + (r.round - 1) * MaxCalls
    /\ r.pc = "acting" => /\ r.left >= 1
                          /\ r.acts + r.left <= EarlierModels(r) + r.round * MaxCalls

Lateness(r) ==
    /\ r.late <= MaxCalls
    /\ ~r.aborted => r.late = 0
    /\ r.pc = "acting" => r.late + r.left <= MaxCalls

(* StepsFollowPlan, of one execution.                                      *)
Followed(r) ==
    \A i \in DOMAIN r.steps :
        /\ r.pc = "answered" /\ r.ok => r.steps[i] \in Done
        /\ r.steps[i] \in {"running", "failed"} \cup Done =>
              \A j \in r.plan[i].dependsOn : r.steps[j] \in Done
        /\ r.steps[i] \in {"failed", "skipped"} =>
              \A j \in DOMAIN r.steps : j > i => r.steps[j] = "pending"

Stepwise(r) ==
    /\ Followed(r)
    /\ r.pc \notin {"stepping", "answered"} => r.steps = <<>> /\ r.plan = <<>>
    /\ r.pc = "stepping" =>
          /\ ValidPlan(r.plan) /\ Len(r.steps) = Len(r.plan) /\ r.step \in 1 .. Len(r.plan)
          /\ \A i \in 1 .. Len(r.plan) : /\ i < r.step => r.steps[i] \in Done
                                         /\ i >= r.step => r.steps[i] = "pending"

Good(r) == Candidates(r) /\ Effects(r) /\ Lateness(r) /\ Stepwise(r)

Safe == TypeOK /\ \A e \in Executions : Good(run[e])

---------------------------------------------------------------------------
(* Numbers.                                                                *)

LEMMA Products ==
  ASSUME NEW a \in Nat, NEW b \in Nat, NEW c \in Nat
  PROVE  /\ a * b \in Nat /\ (a + 1) * b = a * b + b
         /\ a <= c => a * b <= c * b
<1>1. a * b \in Nat /\ (a + 1) * b = a * b + b
  OBVIOUS
<1>2. a <= c => a * b <= c * b
  <2> SUFFICES ASSUME a <= c PROVE a * b <= c * b
    OBVIOUS
  <2> PICK d \in Nat : c = a + d
    BY c - a \in Nat /\ c = a + (c - a)
  <2>1. (a + d) * b = a * b + d * b /\ d * b \in Nat /\ a * b \in Nat
    OBVIOUS
  <2> QED BY <2>1
<1> QED BY <1>1, <1>2

LEMMA Bounds ==
  /\ MaxRounds \in Nat \ {0} /\ MaxCalls \in Nat \ {0} /\ PerModel \in Nat
  /\ MaxAttempts \in Nat \ {0} /\ FailureStreak \in Nat \ {0}
  /\ FailureThreshold \in Nat \ {0} /\ MaxCandidates = 3
BY ExecutionAssumption, Products DEF PerModel, MaxCandidates

(* The tools of the rounds before the n-th are no more than a model's.     *)
LEMMA RoundsOfModel ==
  ASSUME NEW n \in 1 .. MaxRounds
  PROVE  /\ (n - 1) * MaxCalls \in Nat /\ n * MaxCalls \in Nat
         /\ n * MaxCalls = (n - 1) * MaxCalls + MaxCalls
         /\ n * MaxCalls <= PerModel
<1>1. n - 1 \in Nat /\ n \in Nat /\ n = (n - 1) + 1 /\ n <= MaxRounds
  BY Bounds
<1> PICK k \in Nat : k = n - 1
  BY <1>1
<1>2. (k + 1) * MaxCalls = k * MaxCalls + MaxCalls /\ k * MaxCalls \in Nat
  BY Products, Bounds
<1>3. n * MaxCalls <= MaxRounds * MaxCalls /\ n * MaxCalls \in Nat
  BY <1>1, Products, Bounds
<1> QED BY <1>1, <1>2, <1>3 DEF PerModel

LEMMA CalledIsNumber ==
  ASSUME NEW r \in RunRecord
  PROVE  Called(r) \in Nat /\ IsFiniteSet(r.called) /\ Called(r) * PerModel \in Nat
<1>1. r.called \subseteq Models
  BY DEF RunRecord
<1>2. IsFiniteSet(r.called)
  BY <1>1, FS_Subset, RoutingAssumption
<1>3. Called(r) \in Nat
  BY <1>2, FS_CardinalityType DEF Called
<1> QED BY <1>2, <1>3, Products, Bounds

(* With a model in hand one at least was called: what the earlier ones may  *)
(* have done and this one may do add up.                                   *)
LEMMA OneModelMore ==
  ASSUME NEW r \in RunRecord, r.model \in r.called
  PROVE  /\ Called(r) >= 1 /\ EarlierModels(r) \in Nat
         /\ Called(r) * PerModel = EarlierModels(r) + PerModel
<1>1. Called(r) # 0
  BY CalledIsNumber, FS_EmptySet DEF Called
<1>2. Called(r) - 1 \in Nat /\ Called(r) = (Called(r) - 1) + 1
  BY <1>1, CalledIsNumber
<1> PICK k \in Nat : k = Called(r) - 1
  BY <1>2
<1>3. (k + 1) * PerModel = k * PerModel + PerModel /\ k * PerModel \in Nat
  BY Products, Bounds
<1> QED BY <1>2, <1>3 DEF EarlierModels

---------------------------------------------------------------------------
(* Routing.                                                                *)

(* A route names each of its models once, and at most three.               *)
LEMMA RouteIsOrdered ==
  ASSUME NEW need, NEW health, NEW circuits, NEW route \in Routes(need, health, circuits)
  PROVE  /\ route \in Seq(Models) /\ IsInjective(route)
         /\ Len(route) <= MaxCandidates
<1> DEFINE S == Eligible(need, health, circuits)
           keys == [m \in S |-> Key(m, need, health, circuits)]
<1>1. PICK s \in Rankings(keys) :
         route = SubSeq(s, 1, IF Len(s) < MaxCandidates THEN Len(s) ELSE MaxCandidates)
  BY DEF Routes
<1>2. S \subseteq Models /\ IsFiniteSet(S)
  BY RoutingAssumption, FS_Subset DEF Eligible
<1>3. Cardinality(S) \in Nat
  BY <1>2, FS_CardinalityType
<1>4. DOMAIN keys = S
  OBVIOUS
<1> HIDE DEF S, keys
<1>5. s \in [1 .. Cardinality(S) -> S] /\ IsInjective(s)
  BY <1>1, <1>4 DEF Rankings
<1>6. s \in Seq(Models) /\ Len(s) \in Nat /\ DOMAIN s = 1 .. Len(s)
  BY <1>2, <1>3, <1>5
<1> DEFINE n == IF Len(s) < MaxCandidates THEN Len(s) ELSE MaxCandidates
<1>7. n \in Nat /\ n <= Len(s) /\ n <= MaxCandidates
  BY <1>6 DEF MaxCandidates
<1>8. route = SubSeq(s, 1, n)
  BY <1>1
<1> HIDE DEF n
<1>9. /\ route \in Seq(Models) /\ Len(route) = n
      /\ \A i \in 1 .. n : route[i] = s[i]
  BY <1>6, <1>7, <1>8, SubSeqProperties
<1>10. DOMAIN route = 1 .. n
  BY <1>9
<1>11. IsInjective(route)
  BY <1>5, <1>6, <1>7, <1>9, <1>10 DEF IsInjective
<1> QED BY <1>7, <1>9, <1>11

(* The candidate after those given up is the next of the ranking.          *)
LEMMA CandidateIsNext ==
  ASSUME NEW r \in RunRecord, Ordered(r), r.at <= Len(r.ranked)
  PROVE  /\ FirstNotIn(r.ranked, r.dead) = r.ranked[r.at]
         /\ r.ranked[r.at] \in Models /\ r.ranked[r.at] \notin r.dead
         /\ r.at \in DOMAIN r.ranked
<1> PICK s, n, dead : s = r.ranked /\ n = r.at /\ dead = r.dead
  OBVIOUS
<1>1. /\ s \in Seq(Models) /\ n \in 1 .. Len(s) /\ DOMAIN s = 1 .. Len(s)
      /\ Len(s) \in Nat /\ n \in Nat
      /\ dead = {s[i] : i \in 1 .. n - 1}
      /\ \A i, j \in DOMAIN s : s[i] = s[j] => i = j
  BY Bounds DEF Ordered, RunRecord, IsInjective
<1>2. s[n] \notin dead /\ \A j \in 1 .. n - 1 : s[j] \in dead
  BY <1>1
<1>3. \A i \in DOMAIN s : (s[i] \notin dead /\ \A j \in 1 .. i - 1 : s[j] \in dead) => i = n
  <2> SUFFICES ASSUME NEW i \in 1 .. Len(s), s[i] \notin dead,
                      \A j \in 1 .. i - 1 : s[j] \in dead
               PROVE  i = n
    BY <1>1
  <2>1. ~(i < n)
    <3>1. i < n => i \in 1 .. n - 1
      BY <1>1
    <3> QED BY <1>2, <3>1
  <2>2. ~(n < i)
    <3>1. n < i => n \in 1 .. i - 1
      BY <1>1
    <3> QED BY <1>2, <3>1
  <2> QED BY <1>1, <2>1, <2>2
<1>4. (CHOOSE i \in DOMAIN s : s[i] \notin dead /\ \A j \in 1 .. i - 1 : s[j] \in dead) = n
  BY <1>1, <1>2, <1>3
<1>5. FirstNotIn(s, dead) = s[n]
  BY <1>4 DEF FirstNotIn
<1>6. s[n] \in Models
  BY <1>1, ElementOfSeq
<1> QED BY <1>1, <1>2, <1>5, <1>6

---------------------------------------------------------------------------
(* The records an execution goes through.                                  *)

LEMMA NothingPlanned ==
  ASSUME NEW r \in RunRecord, r.steps = <<>>
  PROVE  Followed(r)
BY DEF Followed

LEMMA IdleGood == Idle \in RunRecord /\ Good(Idle)
<1>1. Idle \in RunRecord
  BY Bounds DEF Idle, RunRecord, Labels
<1>2. Called(Idle) = 0
  BY FS_EmptySet DEF Called, Idle
<1>3. Effects(Idle)
  BY <1>2, Bounds DEF Effects, Idle
<1>4. Stepwise(Idle)
  BY <1>1, NothingPlanned DEF Stepwise, Idle
<1> QED BY <1>1, <1>3, <1>4, Bounds DEF Good, Candidates, Lateness, Idle

(* An answer keeps what was called, what was run and the steps.            *)
LEMMA AnswerFields ==
  ASSUME NEW r \in RunRecord, NEW ok \in BOOLEAN
  PROVE  /\ Answered(r, ok) \in RunRecord /\ Answered(r, ok).pc = "answered"
         /\ Answered(r, ok).called = r.called /\ Answered(r, ok).acts = r.acts
         /\ Answered(r, ok).steps = r.steps /\ Answered(r, ok).plan = r.plan
         /\ Answered(r, ok).late = 0 /\ Answered(r, ok).ok = ok
<1>1. Idle \in RunRecord /\ "answered" \in Labels /\ Idle.late = 0
  BY IdleGood DEF Labels, Idle
<1> QED BY <1>1 DEF Answered, RunRecord

LEMMA AnswerGood ==
  ASSUME NEW r \in RunRecord, NEW ok \in BOOLEAN, r.acts <= Called(r) * PerModel,
         Followed(Answered(r, ok))
  PROVE  Answered(r, ok) \in RunRecord /\ Good(Answered(r, ok))
<1> PICK a : a = Answered(r, ok)
  OBVIOUS
<1>1. /\ a \in RunRecord /\ a.pc = "answered" /\ a.called = r.called /\ a.acts = r.acts
      /\ a.late = 0 /\ Followed(a)
  BY AnswerFields
<1>2. Effects(a)
  BY <1>1 DEF Effects, Called
<1> QED BY <1>1, <1>2, Bounds DEF Good, Candidates, Lateness, Stepwise

(* An answer without a plan.                                               *)
LEMMA PlainAnswerGood ==
  ASSUME NEW r \in RunRecord, NEW ok \in BOOLEAN, r.acts <= Called(r) * PerModel,
         r.steps = <<>>
  PROVE  Answered(r, ok) \in RunRecord /\ Good(Answered(r, ok))
<1>1. Followed(Answered(r, ok))
  BY AnswerFields, NothingPlanned
<1> QED BY <1>1, AnswerGood

(* The ranking with one candidate more given up.                           *)
LEMMA NextPosition ==
  ASSUME NEW r \in RunRecord, Ordered(r), r.at <= Len(r.ranked)
  PROVE  /\ r.at \in Nat /\ Len(r.ranked) \in Nat /\ r.at >= 1
         /\ r.at + 1 \in 1 .. MaxCandidates + 1
<1>1. r.at \in 1 .. MaxCandidates + 1 /\ r.ranked \in Seq(Models)
  BY DEF RunRecord
<1>2. r.at \in Nat /\ r.at >= 1 /\ Len(r.ranked) \in Nat /\ Len(r.ranked) <= MaxCandidates
  BY <1>1, Bounds DEF Ordered
<1> QED BY <1>2, Bounds

LEMMA OrderedNext ==
  ASSUME NEW r \in RunRecord, Ordered(r), r.at <= Len(r.ranked), NEW g,
         g.ranked = r.ranked, g.at = r.at + 1, g.dead = r.dead \cup {r.ranked[r.at]}
  PROVE  Ordered(g)
<1>1. r.at \in Nat /\ r.at >= 1 /\ Len(r.ranked) \in Nat
  BY NextPosition
<1>2. g.dead = {r.ranked[i] : i \in 1 .. r.at - 1} \cup {r.ranked[r.at]}
  BY DEF Ordered
<1>3. 1 .. g.at - 1 = (1 .. r.at - 1) \cup {r.at}
  BY <1>1
<1>4. g.dead = {g.ranked[i] : i \in 1 .. g.at - 1}
  BY <1>2, <1>3
<1>5. g.at <= Len(g.ranked) + 1 /\ g.ranked = r.ranked
  BY <1>1
<1> QED BY <1>4, <1>5 DEF Ordered

(* The next candidate is tried with what the ones given up have done.      *)
LEMMA GiveUpGood ==
  ASSUME NEW r \in RunRecord, InHand(r), r.acts <= Called(r) * PerModel,
         r.steps = <<>>, r.plan = <<>>, r.late <= MaxCalls, ~r.aborted => r.late = 0
  PROVE  GiveUp(r) \in RunRecord /\ Good(GiveUp(r))
<1>1. CASE r.at >= Len(r.ranked)
  <2>1. GiveUp(r) = Answered(r, FALSE)
    BY <1>1 DEF GiveUp
  <2> QED BY <2>1, PlainAnswerGood
<1>2. CASE ~(r.at >= Len(r.ranked))
  <2> DEFINE g == [r EXCEPT !.pc = "choosing", !.at = @ + 1, !.dead = @ \cup {r.model},
                   !.model = NoModel, !.round = 0, !.attempt = 0, !.failures = 0]
  <2>1. GiveUp(r) = g
    BY <1>2 DEF GiveUp
  <2>2. /\ r.ranked[r.at] \in Models /\ r.model = r.ranked[r.at] /\ Ordered(r)
        /\ r.at + 1 \in 1 .. MaxCandidates + 1 /\ r.at < Len(r.ranked)
    <3>1. r.at < Len(r.ranked)
      <4>1. r.at \in 1 .. MaxCandidates + 1 /\ r.ranked \in Seq(Models)
        BY DEF RunRecord
      <4> QED BY <1>2, <4>1, Bounds DEF InHand
    <3> QED BY <3>1, CandidateIsNext, NextPosition DEF InHand
  <2>3. g \in RunRecord
    <3>1. /\ r.at + 1 \in 1 .. MaxCandidates + 1 /\ r.dead \cup {r.model} \in SUBSET Models
          /\ 0 \in 0 .. MaxRounds /\ 0 \in 0 .. MaxAttempts /\ 0 \in 0 .. FailureStreak
          /\ "choosing" \in Labels /\ NoModel \in Models \cup {NoModel}
      BY <2>2, Bounds DEF RunRecord, Labels
    <3> QED BY <3>1 DEF RunRecord
  <2>4. /\ g.pc = "choosing" /\ g.ranked = r.ranked /\ g.at = r.at + 1
        /\ g.dead = r.dead \cup {r.model} /\ g.called = r.called /\ g.acts = r.acts
        /\ g.late = r.late /\ g.aborted = r.aborted /\ g.steps = <<>> /\ g.plan = <<>>
    BY DEF RunRecord
  <2> HIDE DEF g
  <2>5. Ordered(g)
    <3>1. r.at <= Len(r.ranked) /\ g.dead = r.dead \cup {r.ranked[r.at]}
      BY <2>2, <2>4 DEF InHand
    <3> QED BY <2>2, <2>4, <3>1, OrderedNext
  <2>6. g.called \subseteq g.dead
    BY <2>4 DEF InHand
  <2>7. Followed(g)
    BY <2>3, <2>4, NothingPlanned
  <2>8. Good(g)
    BY <2>4, <2>5, <2>6, <2>7 DEF Good, Candidates, Effects, Lateness, Stepwise, Called
  <2> QED BY <2>1, <2>3, <2>8
<1> QED BY <1>1, <1>2

(* The step that gives e another good record.                              *)
MovesTo(e, s) == s \in RunRecord /\ Good(s) /\ run' = [run EXCEPT ![e] = s]

(* What a record in the hands of a model keeps from step to step.          *)
Steady(r) ==
    /\ r \in RunRecord /\ InHand(r) /\ r.round \in 1 .. MaxRounds
    /\ r.late <= MaxCalls /\ (~r.aborted => r.late = 0)
    /\ r.steps = <<>> /\ r.plan = <<>>

LEMMA EnterGood ==
  ASSUME NEW e, NEW r, Steady(r), Enter(e, r),
         r.acts <= EarlierModels(r) + (r.round - 1) * MaxCalls
  PROVE  \E s : MovesTo(e, s)
<1>1. r \in RunRecord /\ r.model \in r.called /\ r.round \in 1 .. MaxRounds
  BY DEF Steady, InHand
<1>2. /\ r.acts \in Nat /\ Called(r) >= 1 /\ EarlierModels(r) \in Nat
      /\ Called(r) * PerModel = EarlierModels(r) + PerModel
  BY <1>1, OneModelMore DEF RunRecord
<1>3. /\ (r.round - 1) * MaxCalls \in Nat /\ MaxCalls \in Nat
      /\ (r.round - 1) * MaxCalls + MaxCalls <= PerModel
  BY <1>1, RoundsOfModel, Bounds
<1>4. r.acts <= Called(r) * PerModel
  BY <1>2, <1>3, Bounds
<1>5. CASE CanProceed(Registry[r.model].provider)
  <2> DEFINE s == [r EXCEPT !.pc = "requesting", !.attempt = 1]
  <2>1. run' = [run EXCEPT ![e] = s]
    BY <1>5 DEF Enter, Become
  <2>2. 1 \in 0 .. MaxAttempts /\ "requesting" \in Labels
    BY Bounds DEF Labels
  <2>3. s \in RunRecord
    BY <1>1, <2>2 DEF RunRecord
  <2>4. /\ s.pc = "requesting" /\ s.ranked = r.ranked /\ s.at = r.at /\ s.dead = r.dead
        /\ s.called = r.called /\ s.model = r.model /\ s.round = r.round
        /\ s.acts = r.acts /\ s.late = r.late /\ s.aborted = r.aborted
        /\ s.steps = <<>> /\ s.plan = <<>>
    BY <1>1 DEF RunRecord, Steady
  <2> HIDE DEF s
  <2>5. InHand(s)
    BY <2>4 DEF Steady, InHand, Ordered
  <2>6. Effects(s)
    BY <1>4, <2>4 DEF Effects, Called, EarlierModels
  <2>7. Followed(s)
    BY <2>3, <2>4, NothingPlanned
  <2>8. Good(s)
    BY <2>4, <2>5, <2>6, <2>7 DEF Good, Candidates, Lateness, Stepwise, Steady
  <2> QED BY <2>1, <2>3, <2>8 DEF MovesTo
<1>6. CASE ~CanProceed(Registry[r.model].provider)
  <2>1. run' = [run EXCEPT ![e] = GiveUp(r)]
    BY <1>6 DEF Enter, Become
  <2> QED BY <1>1, <1>4, <2>1, GiveUpGood DEF Steady, MovesTo
<1> QED BY <1>5, <1>6

(* A model is called that was not called before.                           *)
LEMMA ChooseGood ==
  ASSUME Safe, NEW e \in Executions, Choose(e)
  PROVE  \E s : MovesTo(e, s)
<1> PICK r : r = run[e]
  OBVIOUS
<1>1. r \in RunRecord /\ Good(r) /\ r.pc = "choosing" /\ r.at <= Len(r.ranked)
  BY DEF Safe, TypeOK, Choose, At
<1>2. /\ Ordered(r) /\ r.called \subseteq r.dead /\ r.steps = <<>> /\ r.plan = <<>>
      /\ r.acts <= Called(r) * PerModel /\ r.late <= MaxCalls /\ (~r.aborted => r.late = 0)
  BY <1>1 DEF Good, Candidates, Effects, Lateness, Stepwise
<1> PICK m : m = r.ranked[r.at]
  OBVIOUS
<1>3. Candidate(e) = m /\ m \in Models /\ m \notin r.dead
  BY <1>1, <1>2, CandidateIsNext DEF Candidate
<1>4. r.at + 1 \in 1 .. MaxCandidates + 1 /\ r.at \in Nat
  BY <1>1, <1>2, NextPosition
<1>5. CASE run' = [run EXCEPT ![e] = Answered(r, FALSE)]
  BY <1>1, <1>2, <1>5, PlainAnswerGood DEF MovesTo
<1>6. CASE run' = [run EXCEPT ![e] = [r EXCEPT !.at = @ + 1, !.dead = @ \cup {m}]]
  <2> DEFINE s == [r EXCEPT !.at = @ + 1, !.dead = @ \cup {m}]
  <2>1. r.dead \cup {m} \in SUBSET Models
    BY <1>1, <1>3 DEF RunRecord
  <2>2. s \in RunRecord
    BY <1>1, <1>4, <2>1 DEF RunRecord
  <2>3. /\ s.pc = "choosing" /\ s.ranked = r.ranked /\ s.at = r.at + 1
        /\ s.dead = r.dead \cup {m} /\ s.called = r.called /\ s.acts = r.acts
        /\ s.late = r.late /\ s.aborted = r.aborted /\ s.steps = <<>> /\ s.plan = <<>>
    BY <1>1, <1>2 DEF RunRecord
  <2>4. run' = [run EXCEPT ![e] = s]
    BY <1>6
  <2> HIDE DEF s
  <2>5. Ordered(s)
    BY <1>1, <1>2, <2>3, OrderedNext
  <2>6. Followed(s)
    BY <2>2, <2>3, NothingPlanned
  <2>7. Good(s)
    BY <1>2, <2>3, <2>5, <2>6 DEF Good, Candidates, Effects, Lateness, Stepwise, Called
  <2> QED BY <2>2, <2>4, <2>7 DEF MovesTo
<1>7. CASE Enter(e, [r EXCEPT !.model = m, !.round = 1, !.called = @ \cup {m}])
  <2> DEFINE s == [r EXCEPT !.model = m, !.round = 1, !.called = @ \cup {m}]
  <2>1. r.called \cup {m} \in SUBSET Models /\ 1 \in 1 .. MaxRounds
    BY <1>1, <1>3, Bounds DEF RunRecord
  <2>2. s \in RunRecord
    <3>1. m \in Models \cup {NoModel} /\ 1 \in 0 .. MaxRounds
      BY <1>3, Bounds
    <3> QED BY <1>1, <2>1, <3>1 DEF RunRecord
  <2>3. /\ s.ranked = r.ranked /\ s.at = r.at /\ s.dead = r.dead /\ s.model = m
        /\ s.called = r.called \cup {m} /\ s.acts = r.acts /\ s.round = 1
        /\ s.late = r.late /\ s.aborted = r.aborted /\ s.steps = <<>> /\ s.plan = <<>>
    BY <1>1, <1>2 DEF RunRecord
  <2>4. Enter(e, s)
    BY <1>7
  <2> HIDE DEF s
  <2>5. Steady(s)
    <3>1. Ordered(s)
      BY <1>2, <2>3 DEF Ordered
    <3>2. InHand(s)
      BY <1>1, <1>2, <2>3, <3>1 DEF InHand
    <3> QED BY <1>2, <2>1, <2>2, <2>3, <3>2 DEF Steady
  <2>6. s.acts <= EarlierModels(s) + (s.round - 1) * MaxCalls
    <3>1. Called(s) = Called(r) + 1
      <4>1. IsFiniteSet(r.called) /\ m \notin r.called
        BY <1>1, <1>2, <1>3, CalledIsNumber
      <4>2. Cardinality(r.called \cup {m}) = Cardinality(r.called) + 1
        BY <4>1, FS_AddElement
      <4> QED BY <2>3, <4>2 DEF Called
    <3>2. EarlierModels(s) = Called(r) * PerModel
      BY <1>1, <3>1, CalledIsNumber DEF EarlierModels
    <3>3. (s.round - 1) * MaxCalls = 0
      BY <2>3, Bounds
    <3> QED BY <1>1, <1>2, <2>3, <3>2, <3>3, CalledIsNumber
  <2> QED BY <2>4, <2>5, <2>6, EnterGood
<1> QED BY <1>3, <1>5, <1>6, <1>7 DEF Choose, Fail, Become

LEMMA RequestingIsSteady ==
  ASSUME NEW r \in RunRecord, Good(r), r.pc \in {"requesting", "acting"}
  PROVE  /\ Steady(r) /\ r.acts <= Called(r) * PerModel
         /\ r.round \in Nat /\ r.round * MaxCalls = (r.round - 1) * MaxCalls + MaxCalls
         /\ (r.round - 1) * MaxCalls \in Nat /\ r.acts \in Nat
         /\ EarlierModels(r) \in Nat
<1>1. InHand(r) /\ r.round \in 1 .. MaxRounds
  <2>1. InHand(r) /\ r.round \in 0 .. MaxRounds
    BY DEF Good, Candidates, RunRecord
  <2> QED BY <2>1, Bounds DEF InHand
<1>2. Steady(r) /\ r.acts <= Called(r) * PerModel
  BY <1>1 DEF Steady, Good, Effects, Lateness, Stepwise
<1>3. r.acts \in Nat /\ EarlierModels(r) \in Nat
  BY <1>1, OneModelMore DEF InHand, RunRecord
<1> QED BY <1>1, <1>2, <1>3, RoundsOfModel

(* A response asks for tools: none of its round has run yet.               *)
LEMMA ToolsAskedGood ==
  ASSUME NEW e, NEW r \in RunRecord, Good(r), r.pc = "requesting", ~r.aborted,
         NEW n \in 1 .. MaxCalls,
         run' = [run EXCEPT ![e] = [r EXCEPT !.pc = "acting", !.left = n]]
  PROVE  \E s : MovesTo(e, s)
<1> DEFINE s == [r EXCEPT !.pc = "acting", !.left = n]
<1>1. "acting" \in Labels /\ n \in 0 .. MaxCalls
  BY Bounds DEF Labels
<1>2. s \in RunRecord
  BY <1>1 DEF RunRecord
<1>3. /\ s.pc = "acting" /\ s.left = n /\ s.ranked = r.ranked /\ s.at = r.at
      /\ s.dead = r.dead /\ s.called = r.called /\ s.model = r.model /\ s.round = r.round
      /\ s.acts = r.acts /\ s.late = r.late /\ s.aborted = r.aborted
      /\ s.steps = r.steps /\ s.plan = r.plan
  BY DEF RunRecord
<1>4. /\ Steady(r) /\ r.acts <= Called(r) * PerModel /\ r.acts \in Nat
      /\ EarlierModels(r) \in Nat /\ (r.round - 1) * MaxCalls \in Nat
      /\ r.round * MaxCalls = (r.round - 1) * MaxCalls + MaxCalls
      /\ r.acts <= EarlierModels(r) + (r.round - 1) * MaxCalls
  BY RequestingIsSteady DEF Good, Effects
<1>5. run' = [run EXCEPT ![e] = s]
  OBVIOUS
<1> HIDE DEF s
<1>6. InHand(s)
  BY <1>3, <1>4 DEF Steady, InHand, Ordered
<1>7. Effects(s)
  <2>1. r.acts + n <= EarlierModels(r) + r.round * MaxCalls
    <3> PICK x, y, z, w : /\ x = r.acts /\ y = EarlierModels(r)
                          /\ z = (r.round - 1) * MaxCalls /\ w = r.round * MaxCalls
      OBVIOUS
    <3>1. x \in Nat /\ y \in Nat /\ z \in Nat /\ w = z + MaxCalls /\ x <= y + z
      BY <1>4
    <3>2. x + n <= y + w
      BY <3>1, Bounds
    <3> QED BY <3>2
  <2> QED BY <1>3, <1>4, <2>1 DEF Effects, Called, EarlierModels
<1>8. Lateness(s) /\ Stepwise(s)
  <2>1. Followed(s)
    BY <1>2, <1>3, <1>4, NothingPlanned DEF Steady
  <2>2. s.late = 0
    BY <1>3, <1>4 DEF Steady
  <2> QED BY <1>3, <1>4, <2>1, <2>2, Bounds DEF Steady, Lateness, Stepwise
<1>9. Good(s)
  BY <1>3, <1>6, <1>7, <1>8 DEF Good, Candidates
<1> QED BY <1>2, <1>5, <1>9 DEF MovesTo

(* Another request of the same logical call.                               *)
LEMMA AnotherAttemptGood ==
  ASSUME NEW e, NEW r \in RunRecord, Good(r), r.attempt < MaxAttempts,
         r.pc = "requesting", run' = [run EXCEPT ![e] = [r EXCEPT !.attempt = @ + 1]]
  PROVE  \E s : MovesTo(e, s)
<1> DEFINE s == [r EXCEPT !.attempt = @ + 1]
<1>1. r.attempt + 1 \in 0 .. MaxAttempts
  BY Bounds DEF RunRecord
<1>2. s \in RunRecord
  BY <1>1 DEF RunRecord
<1>3. /\ s.pc = r.pc /\ s.left = r.left /\ s.ranked = r.ranked /\ s.at = r.at
      /\ s.dead = r.dead /\ s.called = r.called /\ s.model = r.model /\ s.round = r.round
      /\ s.acts = r.acts /\ s.late = r.late /\ s.aborted = r.aborted
      /\ s.steps = r.steps /\ s.plan = r.plan /\ s.step = r.step /\ s.ok = r.ok
  BY DEF RunRecord
<1>4. run' = [run EXCEPT ![e] = s]
  OBVIOUS
<1> HIDE DEF s
<1>5. Good(s)
  BY <1>3 DEF Good, Candidates, Effects, Lateness, Stepwise, Followed, InHand, Ordered,
              Called, EarlierModels
<1> QED BY <1>2, <1>4, <1>5 DEF MovesTo

(* A plan that is valid has a step.                                        *)
LEMMA PlanLength ==
  ASSUME NEW plan \in Plans, ValidPlan(plan)
  PROVE  Len(plan) \in Nat /\ DOMAIN plan = 1 .. Len(plan) /\ Len(plan) >= 1
<1> PICK T : T = [tool : {"known", "unknown", "no args"},
                  dependsOn : SUBSET Nat, refs : SUBSET Nat]
  OBVIOUS
<1>1. plan \in Seq(T) /\ plan # <<>>
  BY ExecutionAssumption DEF ValidPlan
<1>2. Len(plan) \in Nat /\ DOMAIN plan = 1 .. Len(plan)
  BY <1>1, LenProperties
<1>3. Len(plan) # 0
  BY <1>1, EmptySeq
<1> QED BY ONLY <1>2, <1>3

(* The steps of a plan that was accepted are all pending.                  *)
LEMMA PlannedGood ==
  ASSUME NEW plan \in Plans
  PROVE  Planned(plan) \in RunRecord /\ Good(Planned(plan))
<1>1. Idle \in RunRecord /\ Good(Idle) /\ Idle.steps = <<>> /\ Idle.plan = <<>>
      /\ Idle.acts = 0 /\ Idle.called = {} /\ Idle.late = 0 /\ Idle.aborted = FALSE
  BY IdleGood DEF Idle
<1>2. CASE ~ValidPlan(plan)
  <2>1. Planned(plan) = Answered(Idle, FALSE) /\ Idle.acts <= Called(Idle) * PerModel
    BY <1>1, <1>2 DEF Planned, Good, Effects
  <2> QED BY <1>1, <2>1, PlainAnswerGood
<1>3. CASE ValidPlan(plan)
  <2> DEFINE steps == [i \in DOMAIN plan |-> "pending"]
             s == [Idle EXCEPT !.pc = "stepping", !.plan = plan, !.step = 1,
                               !.steps = steps]
  <2>1. Planned(plan) = s
    BY <1>3 DEF Planned
  <2>2. /\ Len(plan) \in Nat /\ DOMAIN plan = 1 .. Len(plan) /\ Len(plan) >= 1
    BY <1>3, PlanLength
  <2>3. /\ steps \in Seq(StepStatuses) /\ Len(steps) = Len(plan)
        /\ DOMAIN steps = DOMAIN plan /\ \A i \in DOMAIN plan : steps[i] = "pending"
    BY <2>2 DEF StepStatuses
  <2> HIDE DEF steps
  <2>4. s \in RunRecord
    BY <1>1, <2>3 DEF RunRecord, Labels
  <2>5. /\ s.pc = "stepping" /\ s.plan = plan /\ s.step = 1 /\ s.steps = steps
        /\ s.acts = 0 /\ s.called = {} /\ s.late = 0 /\ s.aborted = FALSE
    BY <1>1 DEF RunRecord
  <2> HIDE DEF s
  <2>6. Effects(s)
    <3>1. Called(s) * PerModel \in Nat
      BY <2>4, CalledIsNumber
    <3> QED BY <2>5, <3>1 DEF Effects
  <2>7. Followed(s)
    BY <2>3, <2>5 DEF Followed, Done
  <2>8. Stepwise(s)
    BY <1>3, <2>2, <2>3, <2>5, <2>7 DEF Stepwise
  <2>9. Good(s)
    BY <2>5, <2>6, <2>8, Bounds DEF Good, Candidates, Lateness
  <2> QED BY <2>1, <2>4, <2>9
<1> QED BY <1>2, <1>3

LEMMA CallGood ==
  ASSUME Safe, NEW e \in Executions, Call(e)
  PROVE  \E s : MovesTo(e, s)
<1> PICK r : r = run[e]
  OBVIOUS
<1>1. r \in RunRecord /\ Good(r) /\ r.pc = "requesting"
  BY DEF Safe, TypeOK, Call, RespondsWithText, RespondsWithTools, RespondsWithPlan,
         FailsTransiently, FailsForGood, Aborts, Answers, At
<1>2. Steady(r) /\ r.acts <= Called(r) * PerModel
  BY <1>1, RequestingIsSteady
<1>3. InHand(r) /\ r.steps = <<>> /\ r.plan = <<>> /\ r.late <= MaxCalls
      /\ (~r.aborted => r.late = 0)
  BY <1>2 DEF Steady
<1>4. CASE \E ok \in BOOLEAN : run' = [run EXCEPT ![e] = Answered(r, ok)]
  BY <1>1, <1>2, <1>3, <1>4, PlainAnswerGood DEF MovesTo
<1>5. CASE run' = [run EXCEPT ![e] = GiveUp(r)]
  BY <1>1, <1>2, <1>3, <1>5, GiveUpGood DEF MovesTo
<1>6. CASE RespondsWithTools(e)
  BY <1>1, <1>6, ToolsAskedGood DEF RespondsWithTools, Answers, CutOff, Become
<1>7. CASE \E plan \in Plans : run' = [run EXCEPT ![e] = Planned(plan)]
  BY <1>7, PlannedGood DEF MovesTo
<1>8. CASE FailsTransiently(e)
  BY <1>1, <1>5, <1>8, AnotherAttemptGood DEF FailsTransiently, Become
<1> QED BY <1>4, <1>5, <1>6, <1>7, <1>8
       DEF Call, RespondsWithText, RespondsWithPlan, FailsForGood, Aborts, Succeed, Fail,
           Become

(* After a tool: the response goes on, another round begins, or the rounds  *)
(* are over.                                                               *)
LEMMA AfterToolGood ==
  ASSUME NEW e, NEW r, Steady(r), r.pc = "acting", r.left >= 1, AfterTool(e, r),
         r.acts + r.left - 1 <= EarlierModels(r) + r.round * MaxCalls,
         r.late + r.left - 1 <= MaxCalls
  PROVE  \E s : MovesTo(e, s)
<1>1. /\ r \in RunRecord /\ r.round \in 1 .. MaxRounds /\ r.model \in r.called
      /\ r.steps = <<>> /\ r.plan = <<>> /\ r.late <= MaxCalls
      /\ (~r.aborted => r.late = 0)
  BY DEF Steady, InHand
<1>2. /\ r.acts \in Nat /\ r.left \in 0 .. MaxCalls /\ r.late \in Nat
      /\ r.round \in Nat /\ MaxCalls \in Nat
  BY <1>1, Bounds DEF RunRecord
<1>3. r.acts <= Called(r) * PerModel
  <2>1. /\ EarlierModels(r) \in Nat /\ r.round * MaxCalls \in Nat
        /\ Called(r) * PerModel = EarlierModels(r) + PerModel
        /\ r.round * MaxCalls <= PerModel /\ PerModel \in Nat
    BY <1>1, OneModelMore, RoundsOfModel, Bounds
  <2> PICK x, y, z : x = EarlierModels(r) /\ y = r.round * MaxCalls /\ z = Called(r) * PerModel
    OBVIOUS
  <2>2. /\ x \in Nat /\ y \in Nat /\ z = x + PerModel /\ y <= PerModel /\ PerModel \in Nat
        /\ r.acts + r.left - 1 <= x + y
    BY <2>1
  <2>3. r.acts <= z
    BY <1>2, <2>2
  <2> QED BY <2>3
<1>4. CASE r.left > 1
  <2> DEFINE s == [r EXCEPT !.left = @ - 1]
  <2>1. run' = [run EXCEPT ![e] = s]
    BY <1>4 DEF AfterTool, Become
  <2>2. r.left - 1 \in 0 .. MaxCalls /\ r.left - 1 >= 1
    BY <1>2, <1>4
  <2>3. s \in RunRecord
    BY <1>1, <2>2 DEF RunRecord
  <2>4. /\ s.pc = "acting" /\ s.left = r.left - 1 /\ s.ranked = r.ranked /\ s.at = r.at
        /\ s.dead = r.dead /\ s.called = r.called /\ s.model = r.model /\ s.round = r.round
        /\ s.acts = r.acts /\ s.late = r.late /\ s.aborted = r.aborted
        /\ s.steps = <<>> /\ s.plan = <<>>
    BY <1>1 DEF RunRecord
  <2> HIDE DEF s
  <2>5. InHand(s)
    BY <2>4 DEF Steady, InHand, Ordered
  <2>6. Effects(s)
    <3>1. Called(s) = Called(r) /\ EarlierModels(s) = EarlierModels(r)
      BY <2>4 DEF Called, EarlierModels
    <3>2. s.acts + s.left = r.acts + r.left - 1
      BY <1>2, <2>4
    <3> QED BY <1>3, <2>2, <2>4, <3>1, <3>2 DEF Effects
  <2>7. Lateness(s)
    <3>1. s.late + s.left = r.late + r.left - 1
      BY <1>2, <2>4
    <3> QED BY <1>1, <2>4, <3>1 DEF Lateness
  <2>8. Followed(s)
    BY <2>3, <2>4, NothingPlanned
  <2>9. Good(s)
    BY <2>4, <2>5, <2>6, <2>7, <2>8 DEF Good, Candidates, Stepwise
  <2> QED BY <2>1, <2>3, <2>9 DEF MovesTo
<1>5. CASE ~(r.left > 1)
  <2> DEFINE t == [r EXCEPT !.left = 0]
             u == [t EXCEPT !.round = @ + 1]
  <2>1. NextRound(e, t)
    BY <1>5 DEF AfterTool
  <2>2. t \in RunRecord
    <3>1. 0 \in 0 .. MaxCalls
      BY Bounds
    <3> QED BY <1>1, <3>1 DEF RunRecord
  <2>3. t.acts = r.acts /\ t.called = r.called /\ t.round = r.round /\ t.steps = <<>>
    BY <1>1 DEF RunRecord
  <2>4. CASE t.round < MaxRounds
    <3>1. Enter(e, u)
      BY <2>1, <2>4 DEF NextRound
    <3>2. r.round + 1 \in 1 .. MaxRounds /\ r.round + 1 \in 0 .. MaxRounds
      <4>1. r.round < MaxRounds
        BY <2>3, <2>4
      <4> HIDE DEF t, u
      <4> QED BY <1>2, <4>1, Bounds
    <3>3. u \in RunRecord
      BY <2>2, <2>3, <3>2 DEF RunRecord
    <3>4. /\ u.ranked = r.ranked /\ u.at = r.at
          /\ u.dead = r.dead /\ u.called = r.called /\ u.model = r.model
          /\ u.round = r.round + 1
          /\ u.acts = r.acts /\ u.late = r.late /\ u.aborted = r.aborted
          /\ u.steps = <<>> /\ u.plan = <<>>
      BY <1>1 DEF RunRecord
    <3> HIDE DEF t, u
    <3>5. InHand(u)
      BY <3>2, <3>4 DEF Steady, InHand, Ordered
    <3>6. Steady(u)
      BY <1>1, <3>2, <3>3, <3>4, <3>5 DEF Steady
    <3>7. u.acts <= EarlierModels(u) + (u.round - 1) * MaxCalls
      <4>1. EarlierModels(u) = EarlierModels(r) /\ u.round - 1 = r.round
        BY <1>2, <3>4 DEF EarlierModels, Called
      <4> PICK x, y : x = EarlierModels(r) /\ y = r.round * MaxCalls
        OBVIOUS
      <4>2. x \in Nat /\ y \in Nat /\ r.acts + r.left - 1 <= x + y
        BY <1>1, OneModelMore, RoundsOfModel
      <4>3. r.acts <= x + y
        BY <1>2, <4>2
      <4> QED BY <3>4, <4>1, <4>3
    <3> QED BY <3>1, <3>6, <3>7, EnterGood
  <2>5. CASE ~(t.round < MaxRounds)
    <3>1. run' = [run EXCEPT ![e] = Answered(t, TRUE)]
      BY <2>1, <2>5 DEF NextRound, Become
    <3>2. t.acts <= Called(t) * PerModel
      BY <1>3, <2>3 DEF Called
    <3> HIDE DEF t
    <3> QED BY <2>2, <2>3, <3>1, <3>2, PlainAnswerGood DEF MovesTo
  <2> QED BY <2>4, <2>5
<1> QED BY <1>4, <1>5

(* What a tool that was run, refused or unknown leaves: s, after r.        *)
Counted(r, s) ==
    /\ s.pc = "acting" /\ s.left = r.left /\ s.ranked = r.ranked /\ s.at = r.at
    /\ s.dead = r.dead /\ s.called = r.called /\ s.model = r.model /\ s.round = r.round
    /\ s.aborted = r.aborted /\ s.steps = r.steps /\ s.plan = r.plan
    /\ s.acts \in {r.acts, r.acts + 1} /\ s.late \in {r.late, r.late + 1}
    /\ ~r.aborted => s.late = r.late

LEMMA CountedGood ==
  ASSUME NEW e, NEW r \in RunRecord, Good(r), r.pc = "acting",
         NEW s \in RunRecord, Counted(r, s), AfterTool(e, s)
  PROVE  \E t : MovesTo(e, t)
<1>1. /\ r.acts \in Nat /\ r.late \in Nat /\ r.left \in Nat /\ r.aborted \in BOOLEAN
      /\ MaxCalls \in Nat
  BY Bounds DEF RunRecord
<1>2. /\ s.pc = "acting" /\ s.left = r.left /\ s.round = r.round
      /\ s.acts <= r.acts + 1 /\ s.acts \in Nat /\ s.late <= r.late + 1 /\ s.late \in Nat
      /\ s.aborted = r.aborted /\ (~r.aborted => s.late = r.late)
  BY <1>1 DEF Counted
<1>3. Steady(r)
  BY RequestingIsSteady
<1>4. /\ r.left >= 1 /\ r.acts + r.left <= EarlierModels(r) + r.round * MaxCalls
      /\ r.late + r.left <= MaxCalls /\ (~r.aborted => r.late = 0)
  BY DEF Good, Effects, Lateness
<1>5. s.late + s.left - 1 <= MaxCalls /\ s.late <= MaxCalls /\ (~s.aborted => s.late = 0)
  BY <1>1, <1>2, <1>4
<1>6. Steady(s)
  <2>1. InHand(s)
    BY <1>3 DEF Counted, Steady, InHand, Ordered
  <2> QED BY <1>3, <1>5, <2>1 DEF Counted, Steady
<1>7. s.acts + s.left - 1 <= EarlierModels(s) + s.round * MaxCalls
  <2>1. EarlierModels(s) = EarlierModels(r) /\ s.round = r.round
    BY DEF Counted, EarlierModels, Called
  <2> PICK x : x = EarlierModels(r) + r.round * MaxCalls
    OBVIOUS
  <2>2. x \in Nat /\ r.acts + r.left <= x
    <3>1. EarlierModels(r) \in Nat /\ r.round * MaxCalls \in Nat
      BY <1>3, OneModelMore, RoundsOfModel DEF Steady, InHand
    <3> QED BY <1>4, <3>1
  <2>3. s.acts + s.left - 1 <= x
    BY <1>1, <1>2, <2>2
  <2> QED BY <2>1, <2>3
<1> QED BY <1>2, <1>4, <1>5, <1>6, <1>7, AfterToolGood

LEMMA ToolsGood ==
  ASSUME Safe, NEW e \in Executions, Tools(e)
  PROVE  \E s : MovesTo(e, s)
<1> PICK r : r = run[e]
  OBVIOUS
<1>1. r \in RunRecord /\ Good(r) /\ r.pc = "acting"
  BY DEF Safe, TypeOK, Tools, UnknownTool, RefuseTool, RunTool, At
<1>2. /\ Streak(r) \in 0 .. FailureStreak /\ 0 \in 0 .. FailureStreak
      /\ 1 \in 0 .. FailureStreak
  BY <1>1, Bounds DEF Streak, RunRecord
<1>3. r.acts \in Nat /\ r.late \in Nat
  BY <1>1 DEF RunRecord
<1>4. CASE AfterTool(e, [r EXCEPT !.failures = Streak(r)])
  <2> DEFINE s == [r EXCEPT !.failures = Streak(r)]
  <2>1. s \in RunRecord /\ Counted(r, s)
    BY <1>1, <1>2 DEF RunRecord, Counted
  <2> HIDE DEF s
  <2> QED BY <1>1, <1>4, <2>1, CountedGood DEF s
<1>5. CASE RunTool(e)
  <2>1. PICK failures \in {0, 1} :
          AfterTool(e, [r EXCEPT !.failures = failures, !.acts = @ + 1,
                          !.late = IF r.aborted THEN @ + 1 ELSE @])
    BY <1>5 DEF RunTool
  <2> DEFINE s == [r EXCEPT !.failures = failures, !.acts = @ + 1,
                            !.late = IF r.aborted THEN @ + 1 ELSE @]
  <2>2. s \in RunRecord
    <3>1. /\ failures \in 0 .. FailureStreak /\ r.acts + 1 \in Nat
          /\ (IF r.aborted THEN r.late + 1 ELSE r.late) \in Nat
      BY <1>2, <1>3
    <3> QED BY <1>1, <3>1 DEF RunRecord
  <2>3. Counted(r, s)
    BY <1>1 DEF RunRecord, Counted
  <2>4. AfterTool(e, s)
    BY <2>1
  <2> HIDE DEF s
  <2> QED BY <1>1, <2>2, <2>3, <2>4, CountedGood
<1>6. CASE run' = [run EXCEPT ![e] = Answered(r, FALSE)]
  BY <1>1, <1>6, PlainAnswerGood DEF MovesTo, Good, Effects, Stepwise
<1> QED BY <1>1, <1>4, <1>5, <1>6 DEF Tools, UnknownTool, RefuseTool, Fail, Become

---------------------------------------------------------------------------
(* The steps of a plan.                                                    *)

(* A plan being executed: done before its step, pending from there on.     *)
LEMMA PlanInHand ==
  ASSUME NEW r \in RunRecord, Good(r), r.pc = "stepping"
  PROVE  /\ Len(r.plan) \in Nat /\ DOMAIN r.plan = 1 .. Len(r.plan)
         /\ r.steps \in Seq(StepStatuses) /\ Len(r.steps) = Len(r.plan)
         /\ DOMAIN r.steps = 1 .. Len(r.plan)
         /\ r.step \in 1 .. Len(r.plan) /\ r.step \in Nat
         /\ \A i \in 1 .. Len(r.plan) : /\ r.plan[i].dependsOn \subseteq 1 .. Len(r.plan) \ {i}
                                        /\ i < r.step => r.steps[i] \in Done
                                        /\ i >= r.step => r.steps[i] = "pending"
<1>1. /\ ValidPlan(r.plan) /\ Len(r.steps) = Len(r.plan) /\ r.step \in 1 .. Len(r.plan)
      /\ \A i \in 1 .. Len(r.plan) : /\ i < r.step => r.steps[i] \in Done
                                     /\ i >= r.step => r.steps[i] = "pending"
  BY DEF Good, Stepwise
<1>2. r.plan \in Plans /\ r.steps \in Seq(StepStatuses) /\ r.step \in Nat
  BY <1>1 DEF RunRecord, ValidPlan
<1>3. Len(r.plan) \in Nat /\ DOMAIN r.plan = 1 .. Len(r.plan)
  BY <1>1, <1>2, PlanLength
<1>4. DOMAIN r.steps = 1 .. Len(r.steps)
  BY <1>2, LenProperties
<1>5. \A i \in DOMAIN r.plan : r.plan[i].dependsOn \subseteq DOMAIN r.plan \ {i}
  BY <1>1 DEF ValidPlan
<1> QED BY <1>1, <1>2, <1>3, <1>4, <1>5

LEMMA Marked ==
  ASSUME NEW r \in RunRecord, Good(r), r.pc = "stepping", NEW status \in StepStatuses
  PROVE  LET m == Mark(r, status) IN
         /\ m \in RunRecord /\ m.pc = "stepping" /\ m.plan = r.plan /\ m.step = r.step
         /\ m.called = r.called /\ m.acts = r.acts /\ m.late = r.late
         /\ m.aborted = r.aborted
         /\ Len(m.steps) = Len(r.plan) /\ DOMAIN m.steps = 1 .. Len(r.plan)
         /\ \A j \in 1 .. Len(r.plan) :
               m.steps[j] = IF j = r.step THEN status ELSE r.steps[j]
<1> DEFINE m == Mark(r, status)
           steps == [r.steps EXCEPT ![r.step] = status]
<1>1. /\ r.steps \in Seq(StepStatuses) /\ Len(r.steps) = Len(r.plan)
      /\ r.step \in 1 .. Len(r.steps)
  BY PlanInHand
<1>2. /\ steps \in Seq(StepStatuses) /\ Len(steps) = Len(r.steps)
      /\ \A j \in 1 .. Len(r.steps) : steps[j] = IF j = r.step THEN status ELSE r.steps[j]
  BY <1>1, ExceptSeq
<1>3. DOMAIN steps = 1 .. Len(steps)
  BY <1>2, LenProperties
<1>4. m = [r EXCEPT !.steps = steps]
  BY DEF Mark, RunRecord
<1> HIDE DEF steps
<1>5. /\ m \in RunRecord /\ m.pc = "stepping" /\ m.plan = r.plan /\ m.step = r.step
      /\ m.called = r.called /\ m.acts = r.acts /\ m.late = r.late
      /\ m.aborted = r.aborted /\ m.steps = steps
  BY <1>2, <1>4 DEF RunRecord
<1> HIDE DEF m
<1>6. /\ Len(m.steps) = Len(r.plan) /\ DOMAIN m.steps = 1 .. Len(r.plan)
      /\ \A j \in 1 .. Len(r.plan) :
            m.steps[j] = IF j = r.step THEN status ELSE r.steps[j]
  BY <1>1, <1>2, <1>3, <1>5
<1> QED BY <1>5, <1>6 DEF m

(* Whatever becomes of the step in hand, the plan is followed.             *)
LEMMA MarkedIsFollowed ==
  ASSUME NEW r \in RunRecord, Good(r), r.pc = "stepping", NEW status \in StepStatuses,
         NEW x, x.steps = Mark(r, status).steps, x.plan = r.plan,
         status \in {"running", "failed"} \cup Done => Met(r),
         x.pc = "answered" /\ x.ok => status \in Done /\ r.step = Len(r.plan)
  PROVE  Followed(x)
<1> PICK n, k, p, old, new : /\ n = Len(r.plan) /\ k = r.step /\ p = r.plan
                             /\ old = r.steps /\ new = x.steps
  OBVIOUS
<1>1. /\ n \in Nat /\ k \in 1 .. n /\ k \in Nat /\ x.plan = p
      /\ DOMAIN new = 1 .. n /\ DOMAIN old = 1 .. n
      /\ \A j \in 1 .. n : new[j] = IF j = k THEN status ELSE old[j]
      /\ \A i \in 1 .. n : p[i].dependsOn \subseteq 1 .. n \ {i}
      /\ \A i \in 1 .. n : i < k => old[i] \in Done
      /\ \A i \in 1 .. n : i >= k => old[i] = "pending"
  BY PlanInHand, Marked
<1>2. \A i \in 1 .. n : old[i] \in {"running", "failed"} \cup Done =>
         \A j \in p[i].dependsOn : old[j] \in Done
  BY <1>1 DEF Good, Stepwise, Followed
<1>3. status \in {"running", "failed"} \cup Done => \A j \in p[k].dependsOn : old[j] \in Done
  BY DEF Met
<1>4. "pending" \notin Done /\ "pending" \notin {"running", "failed", "skipped"}
      /\ "failed" \notin Done /\ "skipped" \notin Done
  BY DEF Done
<1>5. \A i, j \in 1 .. n : i # k /\ old[j] \in Done => new[j] \in Done
  BY <1>1, <1>4
<1> SUFFICES ASSUME NEW i \in DOMAIN new
             PROVE  /\ x.pc = "answered" /\ x.ok => new[i] \in Done
                    /\ new[i] \in {"running", "failed"} \cup Done =>
                          \A j \in p[i].dependsOn : new[j] \in Done
                    /\ new[i] \in {"failed", "skipped"} =>
                          \A j \in DOMAIN new : j > i => new[j] = "pending"
  BY <1>1 DEF Followed
<1>6. x.pc = "answered" /\ x.ok => new[i] \in Done
  <2> SUFFICES ASSUME x.pc = "answered", x.ok PROVE new[i] \in Done
    OBVIOUS
  <2>1. status \in Done /\ k = n
    OBVIOUS
  <2>2. i = k \/ i < k
    BY <1>1, <2>1
  <2> QED BY <1>1, <2>1, <2>2
<1>7. ASSUME new[i] \in {"running", "failed"} \cup Done, NEW j \in p[i].dependsOn
      PROVE  new[j] \in Done
  <2>1. j \in 1 .. n /\ j # i
    BY <1>1
  <2>2. old[j] \in Done
    BY <1>1, <1>2, <1>3, <1>7
  <2>3. j # k
    BY <1>1, <1>4, <2>2
  <2> QED BY <1>1, <2>1, <2>2, <2>3
<1>8. ASSUME new[i] \in {"failed", "skipped"}, NEW j \in DOMAIN new, j > i
      PROVE  new[j] = "pending"
  <2>1. i = k
    <3>1. i < k => new[i] \in Done
      BY <1>1
    <3>2. i > k => new[i] = "pending"
      BY <1>1
    <3> QED BY <1>1, <1>4, <1>8, <3>1, <3>2
  <2> QED BY <1>1, <1>8, <2>1
<1> QED BY <1>6, <1>7, <1>8

(* A plan that ends with its step.                                         *)
LEMMA PlanEndsGood ==
  ASSUME NEW e, NEW r \in RunRecord, Good(r), r.pc = "stepping",
         NEW status \in StepStatuses, NEW ok \in BOOLEAN,
         status \in {"running", "failed"} \cup Done => Met(r),
         ok => status \in Done /\ r.step = Len(r.plan),
         run' = [run EXCEPT ![e] = Answered(Mark(r, status), ok)]
  PROVE  \E s : MovesTo(e, s)
<1> PICK m : m = Mark(r, status)
  OBVIOUS
<1>1. m \in RunRecord /\ m.plan = r.plan /\ m.called = r.called /\ m.acts = r.acts
  BY Marked
<1>2. m.acts <= Called(m) * PerModel
  BY <1>1 DEF Good, Effects, Called
<1>3. Followed(Answered(m, ok))
  <2> PICK a : a = Answered(m, ok)
    OBVIOUS
  <2>1. a.steps = m.steps /\ a.plan = r.plan /\ a.ok = ok
    BY <1>1, AnswerFields
  <2>2. Followed(a)
    BY <2>1, MarkedIsFollowed
  <2> QED BY <2>2
<1>4. Answered(m, ok) \in RunRecord /\ Good(Answered(m, ok))
  BY <1>1, <1>2, <1>3, AnswerGood
<1> QED BY <1>4 DEF MovesTo

(* A plan that goes on to its next step.                                   *)
LEMMA PlanGoesOnGood ==
  ASSUME NEW e, NEW r \in RunRecord, Good(r), r.pc = "stepping",
         NEW status \in Done, Met(r), r.step # Len(r.plan),
         run' = [run EXCEPT ![e] = [Mark(r, status) EXCEPT !.step = @ + 1]]
  PROVE  \E s : MovesTo(e, s)
<1> PICK m : m = Mark(r, status)
  OBVIOUS
<1>1. status \in StepStatuses
  BY DEF StepStatuses
<1>2. /\ m \in RunRecord /\ m.pc = "stepping" /\ m.plan = r.plan /\ m.step = r.step
      /\ m.called = r.called /\ m.acts = r.acts /\ m.late = r.late
      /\ m.aborted = r.aborted
      /\ Len(m.steps) = Len(r.plan) /\ DOMAIN m.steps = 1 .. Len(r.plan)
      /\ \A j \in 1 .. Len(r.plan) :
            m.steps[j] = IF j = r.step THEN status ELSE r.steps[j]
  BY <1>1, Marked
<1> DEFINE s == [m EXCEPT !.step = @ + 1]
<1>3. /\ Len(r.plan) \in Nat /\ r.step \in 1 .. Len(r.plan) /\ r.step \in Nat
      /\ r.step + 1 \in 1 .. Len(r.plan)
      /\ \A i \in 1 .. Len(r.plan) : /\ i < r.step => r.steps[i] \in Done
                                     /\ i >= r.step => r.steps[i] = "pending"
  BY PlanInHand
<1>4. s \in RunRecord
  <2>1. m.step + 1 \in Nat
    BY <1>2, <1>3
  <2> QED BY <1>2, <2>1 DEF RunRecord
<1>5. /\ s.pc = "stepping" /\ s.plan = r.plan /\ s.step = r.step + 1 /\ s.steps = m.steps
      /\ s.called = r.called /\ s.acts = r.acts /\ s.late = r.late
      /\ s.aborted = r.aborted
  BY <1>2 DEF RunRecord
<1>6. run' = [run EXCEPT ![e] = s]
  OBVIOUS
<1> HIDE DEF s
<1>7. Followed(s)
  BY <1>1, <1>5, MarkedIsFollowed
<1>8. \A i \in 1 .. Len(r.plan) : /\ i < r.step + 1 => m.steps[i] \in Done
                                  /\ i >= r.step + 1 => m.steps[i] = "pending"
  BY <1>2, <1>3
<1>9. ValidPlan(r.plan)
  BY DEF Good, Stepwise
<1>10. Stepwise(s)
  BY <1>2, <1>3, <1>5, <1>7, <1>8, <1>9 DEF Stepwise
<1>11. Good(s)
  BY <1>5, <1>10 DEF Good, Candidates, Effects, Lateness, Called
<1> QED BY <1>4, <1>6, <1>11 DEF MovesTo

LEMMA StepsGood ==
  ASSUME Safe, NEW e \in Executions, Steps(e)
  PROVE  \E s : MovesTo(e, s)
<1> PICK r : r = run[e]
  OBVIOUS
<1>1. r \in RunRecord /\ Good(r) /\ r.pc = "stepping"
  BY DEF Safe, TypeOK, Steps, SkipStep, FailStep, CompleteStep, StepTimesOut, Ready, At
<1>2. {"skipped", "failed", "running"} \cup Done \subseteq StepStatuses
  BY DEF StepStatuses
<1>3. CASE SkipStep(e)
  <2>1. "skipped" \notin {"running", "failed"} \cup Done
    BY DEF Done
  <2>2. run' = [run EXCEPT ![e] = Answered(Mark(r, "skipped"), FALSE)]
    BY <1>3 DEF SkipStep, AfterSkip, Become
  <2> QED BY <1>1, <1>2, <2>1, <2>2, PlanEndsGood
<1>4. CASE FailStep(e)
  <2>1. Met(r) /\ run' = [run EXCEPT ![e] = Answered(Mark(r, "failed"), FALSE)]
    BY <1>4 DEF FailStep, Ready, Become
  <2> QED BY <1>1, <1>2, <2>1, PlanEndsGood
<1>5. CASE StepTimesOut(e)
  <2>1. Met(r) /\ run' = [run EXCEPT ![e] = Answered(Mark(r, "running"), FALSE)]
    BY <1>5 DEF StepTimesOut, Ready, Become
  <2> QED BY <1>1, <1>2, <2>1, PlanEndsGood
<1>6. CASE CompleteStep(e)
  <2>1. PICK status \in Done :
          LET m == Mark(r, status) IN
          run' = [run EXCEPT ![e] = IF m.step = Len(m.plan) THEN Answered(m, TRUE)
                                    ELSE [m EXCEPT !.step = @ + 1]]
    BY <1>6 DEF CompleteStep, Become
  <2> PICK m : m = Mark(r, status)
    OBVIOUS
  <2>2. Met(r) /\ m.step = r.step /\ m.plan = r.plan
    BY <1>1, <1>2, <1>6, Marked DEF CompleteStep, Ready
  <2>3. CASE r.step = Len(r.plan)
    <3>1. run' = [run EXCEPT ![e] = Answered(m, TRUE)]
      BY <2>1, <2>2, <2>3
    <3> QED BY <1>1, <1>2, <2>2, <2>3, <3>1, PlanEndsGood
  <2>4. CASE r.step # Len(r.plan)
    <3>1. run' = [run EXCEPT ![e] = [m EXCEPT !.step = @ + 1]]
      BY <2>1, <2>2, <2>4
    <3> QED BY <1>1, <2>2, <2>4, <3>1, PlanGoesOnGood
  <2> QED BY <2>3, <2>4
<1> QED BY <1>3, <1>4, <1>5, <1>6 DEF Steps

---------------------------------------------------------------------------
(* The other steps of an execution.                                        *)

LEMMA ReceiveGood ==
  ASSUME Safe, NEW e \in Executions, Receive(e)
  PROVE  \E s : MovesTo(e, s)
<1>1. PICK need \in Needs, health \in HealthTables :
        \E route \in Routes(need, health, circuit) :
          LET ranked == IF e \in MultiStep /\ route # <<>> THEN <<Head(route)>> ELSE route IN
          Become(e, IF ranked = <<>> /\ e \in MultiStep THEN Answered(Idle, FALSE)
                    ELSE [Idle EXCEPT !.ranked = ranked, !.planning = e \in MultiStep,
                            !.pc = IF ranked = <<>> THEN "runtime" ELSE "choosing"])
  BY DEF Receive
<1>2. PICK route \in Routes(need, health, circuit) :
        LET ranked == IF e \in MultiStep /\ route # <<>> THEN <<Head(route)>> ELSE route IN
        Become(e, IF ranked = <<>> /\ e \in MultiStep THEN Answered(Idle, FALSE)
                  ELSE [Idle EXCEPT !.ranked = ranked, !.planning = e \in MultiStep,
                          !.pc = IF ranked = <<>> THEN "runtime" ELSE "choosing"])
  BY <1>1
<1>3. route \in Seq(Models) /\ IsInjective(route) /\ Len(route) <= MaxCandidates
  BY <1>2, RouteIsOrdered
<1> DEFINE ranked == IF e \in MultiStep /\ route # <<>> THEN <<Head(route)>> ELSE route
<1>4. ranked \in Seq(Models) /\ IsInjective(ranked) /\ Len(ranked) <= MaxCandidates
  <2>1. CASE e \in MultiStep /\ route # <<>>
    <3>1. Head(route) \in Models
      BY <1>3, <2>1
    <3> PICK h : h = Head(route)
      OBVIOUS
    <3>2. <<h>> \in Seq(Models) /\ Len(<<h>>) = 1 /\ DOMAIN <<h>> = 1 .. 1
      BY <3>1
    <3>3. IsInjective(<<h>>)
      BY <3>2 DEF IsInjective
    <3> QED BY <2>1, <3>2, <3>3, Bounds
  <2> QED BY <1>3, <2>1
<1>5. CASE ranked = <<>> /\ e \in MultiStep
  <2>1. run' = [run EXCEPT ![e] = Answered(Idle, FALSE)]
    BY <1>2, <1>5 DEF Become
  <2>2. Idle.steps = <<>> /\ Idle.acts <= Called(Idle) * PerModel
    BY IdleGood DEF Idle, Good, Effects
  <2> QED BY <2>1, <2>2, IdleGood, PlainAnswerGood DEF MovesTo
<1>6. CASE ~(ranked = <<>> /\ e \in MultiStep)
  <2> DEFINE s == [Idle EXCEPT !.ranked = ranked, !.planning = e \in MultiStep,
                     !.pc = IF ranked = <<>> THEN "runtime" ELSE "choosing"]
  <2>1. run' = [run EXCEPT ![e] = s]
    BY <1>2, <1>6 DEF Become
  <2> HIDE DEF ranked
  <2>2. (IF ranked = <<>> THEN "runtime" ELSE "choosing") \in Labels
        /\ (e \in MultiStep) \in BOOLEAN
    BY DEF Labels
  <2>3. s \in RunRecord
    BY <1>4, <2>2, IdleGood DEF RunRecord
  <2>4. /\ s.pc \in {"runtime", "choosing"} /\ s.ranked = ranked /\ s.at = 1 /\ s.dead = {}
        /\ s.called = {} /\ s.acts = 0 /\ s.late = 0 /\ s.steps = <<>> /\ s.plan = <<>>
    BY DEF Idle
  <2> HIDE DEF s
  <2>5. Ordered(s)
    <3>1. Len(ranked) \in Nat
      BY <1>4
    <3>2. 1 .. 1 - 1 = {}
      OBVIOUS
    <3> QED BY <1>4, <2>4, <3>1, <3>2 DEF Ordered
  <2>6. Effects(s)
    BY <2>3, <2>4, CalledIsNumber DEF Effects
  <2>7. Followed(s)
    BY <2>3, <2>4, NothingPlanned
  <2>8. Good(s)
    BY <2>4, <2>5, <2>6, <2>7, Bounds DEF Good, Candidates, Lateness, Stepwise
  <2> QED BY <2>1, <2>3, <2>8 DEF MovesTo
<1> QED BY <1>5, <1>6

(* The minute is over while a model or a tool of it is at work.            *)
LEMMA TimeOutGood ==
  ASSUME Safe, NEW e \in Executions, TimeOut(e)
  PROVE  \E s : MovesTo(e, s)
<1> PICK r : r = run[e]
  OBVIOUS
<1> DEFINE s == [r EXCEPT !.aborted = TRUE]
<1>1. /\ r \in RunRecord /\ Good(r) /\ r.pc \in {"requesting", "acting"} /\ ~r.aborted
      /\ run' = [run EXCEPT ![e] = s]
  BY DEF Safe, TypeOK, TimeOut, Become
<1>2. s \in RunRecord
  BY <1>1 DEF RunRecord
<1>3. /\ s.pc = r.pc /\ s.left = r.left /\ s.ranked = r.ranked /\ s.at = r.at
      /\ s.dead = r.dead /\ s.called = r.called /\ s.model = r.model /\ s.round = r.round
      /\ s.acts = r.acts /\ s.late = r.late /\ s.aborted = TRUE
      /\ s.steps = r.steps /\ s.plan = r.plan /\ s.step = r.step /\ s.ok = r.ok
  BY <1>1 DEF RunRecord
<1> HIDE DEF s
<1>4. Good(s)
  BY <1>1, <1>3 DEF Good, Candidates, Effects, Lateness, Stepwise, Followed, InHand,
                    Ordered, Called, EarlierModels
<1> QED BY <1>1, <1>2, <1>4 DEF MovesTo

LEMMA OtherGood ==
  ASSUME Safe, NEW e \in Executions,
         Inform(e) \/ Exhaust(e) \/ RunOnRuntime(e) \/ Forget(e)
  PROVE  \E s : MovesTo(e, s)
<1> PICK r : r = run[e]
  OBVIOUS
<1>1. r \in RunRecord /\ Good(r)
  BY DEF Safe, TypeOK
<1>2. CASE Inform(e)
  <2>1. run' = [run EXCEPT ![e] = Answered(Idle, TRUE)]
    BY <1>2 DEF Inform, Become
  <2>2. Idle.steps = <<>> /\ Idle.acts <= Called(Idle) * PerModel
    BY IdleGood DEF Idle, Good, Effects
  <2> QED BY <2>1, <2>2, IdleGood, PlainAnswerGood DEF MovesTo
<1>3. CASE Exhaust(e)
  <2> DEFINE s == [r EXCEPT !.pc = "runtime"]
  <2>1. r.pc = "choosing" /\ run' = [run EXCEPT ![e] = s]
    BY <1>3 DEF Exhaust, Goto, Become, At
  <2>2. s \in RunRecord
    BY <1>1 DEF RunRecord, Labels
  <2>3. /\ s.pc = "runtime" /\ s.called = r.called /\ s.acts = r.acts /\ s.late = r.late
        /\ s.aborted = r.aborted /\ s.steps = r.steps /\ s.plan = r.plan
    BY <1>1 DEF RunRecord
  <2> HIDE DEF s
  <2>4. s.steps = <<>> /\ s.plan = <<>>
    BY <1>1, <2>1, <2>3 DEF Good, Stepwise
  <2>5. Followed(s)
    BY <2>2, <2>4, NothingPlanned
  <2>6. Good(s)
    BY <1>1, <2>3, <2>4, <2>5 DEF Good, Candidates, Effects, Lateness, Stepwise, Called
  <2> QED BY <2>1, <2>2, <2>6 DEF MovesTo
<1>4. CASE RunOnRuntime(e)
  <2>1. r.steps = <<>> /\ r.acts <= Called(r) * PerModel
    BY <1>1, <1>4 DEF Good, Stepwise, Effects, RunOnRuntime, At
  <2>2. PICK ok \in BOOLEAN : run' = [run EXCEPT ![e] = Answered(r, ok)]
    BY <1>4 DEF RunOnRuntime, Succeed, Fail, Become
  <2> QED BY <1>1, <2>1, <2>2, PlainAnswerGood DEF MovesTo
<1>5. CASE Forget(e)
  BY <1>5, IdleGood DEF Forget, Become, MovesTo
<1> QED BY <1>2, <1>3, <1>4, <1>5

---------------------------------------------------------------------------
(* The circuits.                                                           *)

CircuitsTyped ==
    /\ circuit \in [Providers -> {"closed", "open", "half_open"}]
    /\ streak \in [Providers -> 0 .. FailureThreshold]
    /\ cooled \subseteq {p \in Providers : circuit[p] = "open"}

(* A success closes what was half open.                                    *)
LEMMA SuccessTyped ==
  ASSUME CircuitsTyped, NEW p, RecordSuccess(p)
  PROVE  CircuitsTyped'
<1>1. streak' \in [Providers -> 0 .. FailureThreshold]
  <2>1. 0 \in 0 .. FailureThreshold
    BY Bounds
  <2> QED BY <2>1 DEF CircuitsTyped, RecordSuccess
<1>2. /\ circuit' \in [Providers -> {"closed", "open", "half_open"}]
      /\ cooled' \subseteq {q \in Providers : circuit'[q] = "open"}
  BY DEF CircuitsTyped, RecordSuccess
<1> QED BY <1>1, <1>2 DEF CircuitsTyped

(* The failure that opens a circuit starts its time anew.                  *)
LEMMA FailureTyped ==
  ASSUME CircuitsTyped, NEW p, RecordFailure(p)
  PROVE  CircuitsTyped'
<1> PICK count, opens :
      /\ count = IF streak[p] < FailureThreshold THEN streak[p] + 1 ELSE streak[p]
      /\ opens = (circuit[p] = "half_open" \/ count = FailureThreshold)
  OBVIOUS
<1>1. /\ streak' = [streak EXCEPT ![p] = count]
      /\ circuit' = [circuit EXCEPT ![p] = IF opens THEN "open" ELSE @]
      /\ cooled' = IF opens THEN cooled \ {p} ELSE cooled
  BY DEF RecordFailure
<1>2. p \in Providers => count \in 0 .. FailureThreshold
  <2> PICK n : n = streak[p]
    OBVIOUS
  <2>1. p \in Providers => n \in 0 .. FailureThreshold
    BY DEF CircuitsTyped
  <2>2. count = IF n < FailureThreshold THEN n + 1 ELSE n
    OBVIOUS
  <2> QED BY <2>1, <2>2, Bounds
<1>3. streak' \in [Providers -> 0 .. FailureThreshold]
  BY <1>1, <1>2 DEF CircuitsTyped
<1>4. /\ circuit' \in [Providers -> {"closed", "open", "half_open"}]
      /\ cooled' \subseteq {q \in Providers : circuit'[q] = "open"}
  BY <1>1 DEF CircuitsTyped
<1> QED BY <1>3, <1>4 DEF CircuitsTyped

(* The circuit asked before a call is half open once its time is over.     *)
LEMMA EnterTyped ==
  ASSUME CircuitsTyped, NEW e, NEW r, Enter(e, r)
  PROVE  CircuitsTyped'
BY DEF CircuitsTyped, Enter

LEMMA AfterToolTyped ==
  ASSUME CircuitsTyped, NEW e, NEW r, AfterTool(e, r)
  PROVE  CircuitsTyped'
<1>1. CASE UNCHANGED breakers
  BY <1>1 DEF CircuitsTyped, breakers
<1> QED BY <1>1, EnterTyped DEF AfterTool, NextRound

(* What an execution may do to the circuits.                               *)
LEMMA ProceedTyped ==
  ASSUME CircuitsTyped, NEW e,
         Receive(e) \/ Inform(e) \/ Proceed(e) \/ TimeOut(e)
  PROVE  CircuitsTyped'
<1>1. CASE UNCHANGED breakers
  BY <1>1 DEF CircuitsTyped, breakers
<1>2. CASE Call(e)
  BY <1>1, <1>2, SuccessTyped, FailureTyped
     DEF Call, RespondsWithText, RespondsWithTools, RespondsWithPlan, FailsTransiently,
         FailsForGood, Aborts
<1>3. CASE Tools(e)
  BY <1>1, <1>3, AfterToolTyped DEF Tools, UnknownTool, RefuseTool, RunTool
<1>4. CASE Choose(e)
  BY <1>1, <1>4, EnterTyped DEF Choose
<1> QED BY <1>1, <1>2, <1>3, <1>4
       DEF Receive, Inform, Proceed, TimeOut, Exhaust, RunOnRuntime, Steps, SkipStep,
           FailStep, CompleteStep, StepTimesOut, Forget

---------------------------------------------------------------------------
(* The invariant.                                                          *)

LEMMA MovedIsSafe ==
  ASSUME Safe, NEW e \in Executions, NEW s, MovesTo(e, s), CircuitsTyped'
  PROVE  Safe'
<1>1. run \in [Executions -> RunRecord] /\ \A d \in Executions : Good(run[d])
  BY DEF Safe, TypeOK
<1>2. s \in RunRecord /\ Good(s) /\ run' = [run EXCEPT ![e] = s]
  BY DEF MovesTo
<1>3. run' \in [Executions -> RunRecord]
  BY <1>1, <1>2
<1>4. ASSUME NEW d \in Executions PROVE Good(run'[d])
  <2>1. run'[d] = IF d = e THEN s ELSE run[d]
    BY <1>1, <1>2
  <2> QED BY <1>1, <1>2, <2>1
<1>5. (\A d \in Executions : Good(run[d]))'
  BY <1>4 DEF Good, Candidates, Effects, Lateness, Stepwise, Followed, InHand, Ordered,
              Called, EarlierModels
<1> QED BY <1>3, <1>5 DEF Safe, TypeOK, CircuitsTyped

LEMMA InitSafe ==
  ASSUME Init
  PROVE  Safe
<1>1. 0 \in 0 .. FailureThreshold
  BY Bounds
<1>2. /\ run \in [Executions -> RunRecord]
      /\ circuit \in [Providers -> {"closed", "open", "half_open"}]
      /\ streak \in [Providers -> 0 .. FailureThreshold] /\ cooled = {}
  BY <1>1, IdleGood DEF Init
<1>3. \A e \in Executions : Good(run[e])
  BY IdleGood DEF Init
<1> QED BY <1>2, <1>3 DEF Safe, TypeOK

LEMMA SafeStep ==
  ASSUME Safe, [Next]_vars
  PROVE  Safe'
<1>1. CircuitsTyped
  BY DEF Safe, TypeOK, CircuitsTyped
<1>2. ASSUME NEW e \in Executions, Receive(e) \/ Inform(e) \/ Proceed(e) \/ TimeOut(e)
      PROVE  Safe'
  <2>1. CircuitsTyped'
    BY <1>1, <1>2, ProceedTyped
  <2>2. \E s : MovesTo(e, s)
    BY <1>2, ReceiveGood, OtherGood, ChooseGood, CallGood, ToolsGood, StepsGood, TimeOutGood
       DEF Proceed
  <2> QED BY <2>1, <2>2, MovedIsSafe
<1>3. ASSUME NEW p \in Providers, Cool(p)
      PROVE  Safe'
  <2>1. CircuitsTyped'
    BY <1>1, <1>3 DEF Cool, CircuitsTyped
  <2>2. run' = run
    BY <1>3 DEF Cool
  <2> QED BY <2>1, <2>2
       DEF Safe, TypeOK, CircuitsTyped, Good, Candidates, Effects, Lateness, Stepwise,
           Followed, InHand, Ordered, Called, EarlierModels
<1>4. CASE UNCHANGED vars
  BY <1>4
     DEF vars, Safe, TypeOK, Good, Candidates, Effects, Lateness, Stepwise, Followed,
         InHand, Ordered, Called, EarlierModels
<1> QED BY <1>2, <1>3, <1>4 DEF Next

(* The candidates given up are those before the position of an execution,  *)
(* the model in hand was not called before, the tools run are those of the *)
(* models and rounds left behind and of the response in hand, what was     *)
(* started late is of one response, a plan in hand is done before its step *)
(* and pending from there on, and the circuits that cool are open.         *)
THEOREM SafetyInvariant == Spec => []Safe
<1>1. Init => Safe
  BY InitSafe
<1>2. Safe /\ [Next]_vars => Safe'
  BY SafeStep
<1> QED BY <1>1, <1>2, PTL DEF Spec

(* EffectsBounded: fallback starts the loop of tools anew with the next    *)
(* candidate, and never with one that was called, so the tools an          *)
(* execution runs are bounded by the rounds of the models it has called.   *)
THEOREM ToolsAreBounded == Spec => []EffectsBounded
<1>1. Safe => EffectsBounded
  <2> SUFFICES ASSUME Safe, NEW e \in Executions
               PROVE  run[e].acts <= Cardinality(run[e].called) * MaxRounds * MaxCalls
    BY DEF EffectsBounded
  <2>1. run[e].acts <= Called(run[e]) * PerModel /\ run[e] \in RunRecord
    BY DEF Safe, TypeOK, Good, Effects
  <2> PICK n : n = Called(run[e])
    OBVIOUS
  <2>2. n \in Nat /\ n = Cardinality(run[e].called)
    BY <2>1, CalledIsNumber DEF Called
  <2>3. n * (MaxRounds * MaxCalls) = n * MaxRounds * MaxCalls
    BY <2>2, Bounds
  <2> QED BY <2>1, <2>2, <2>3 DEF PerModel
<1> QED BY <1>1, SafetyInvariant, PTL

(* AbortStopsTools: once the minute of EXECUTION_TIMEOUT_MS is over no     *)
(* tool is started but those of the response that is being worked off.     *)
THEOREM AbortStops == Spec => []AbortStopsTools
<1>1. Safe => AbortStopsTools
  BY DEF Safe, Good, Lateness, AbortStopsTools
<1> QED BY <1>1, SafetyInvariant, PTL

(* StepsFollowPlan: a step of a plan is taken up after what it depends on, *)
(* nothing after a step that failed or was skipped, and what is reported   *)
(* as executed is done in every step.                                      *)
THEOREM PlansAreFollowed == Spec => []StepsFollowPlan
<1>1. Safe => StepsFollowPlan
  BY DEF Safe, Good, Stepwise, Followed, StepsFollowPlan, At
<1> QED BY <1>1, SafetyInvariant, PTL

---------------------------------------------------------------------------
(* The circuit before a call.                                              *)

(* An execution is in a call because it was before, or because the circuit *)
(* of its provider let it in.                                              *)
Admitted(e) ==
    run'[e].pc = "requesting" =>
       \/ circuit'[Registry[run'[e].model].provider] # "open"
       \/ run[e].pc = "requesting" /\ run'[e].model = run[e].model

LEMMA EnterAdmits ==
  ASSUME Safe, NEW e \in Executions, NEW r, {"pc", "model", "attempt"} \subseteq DOMAIN r,
         Enter(e, r)
  PROVE  Admitted(e)
<1>1. run \in [Executions -> RunRecord] /\ CircuitsTyped
  BY DEF Safe, TypeOK, CircuitsTyped
<1> PICK p : p = Registry[r.model].provider
  OBVIOUS
<1>2. CASE CanProceed(p)
  <2> DEFINE s == [r EXCEPT !.pc = "requesting", !.attempt = 1]
  <2>1. run' = [run EXCEPT ![e] = s]
    BY <1>2 DEF Enter, Become
  <2>2. circuit' = [circuit EXCEPT ![p] = IF p \in cooled THEN "half_open" ELSE @]
    BY <1>2 DEF Enter
  <2>3. s.model = r.model
    OBVIOUS
  <2> HIDE DEF s
  <2>4. run'[e].model = r.model
    BY <1>1, <2>1, <2>3
  <2>5. circuit'[p] # "open"
    BY <1>1, <1>2, <2>2 DEF CanProceed, CircuitsTyped
  <2> QED BY <2>4, <2>5 DEF Admitted
<1>3. CASE ~CanProceed(p)
  <2>1. run' = [run EXCEPT ![e] = GiveUp(r)]
    BY <1>3 DEF Enter, Become
  <2>2. GiveUp(r).pc \in {"answered", "choosing"}
    BY DEF GiveUp, Answered, Idle
  <2>3. run'[e].pc # "requesting"
    BY <1>1, <2>1, <2>2
  <2> QED BY <2>3 DEF Admitted
<1> QED BY <1>2, <1>3

LEMMA AfterToolAdmits ==
  ASSUME Safe, NEW e \in Executions, NEW r, r.pc = "acting", AfterTool(e, r),
         {"pc", "model", "attempt", "left", "round"} \subseteq DOMAIN r
  PROVE  Admitted(e)
<1>1. run \in [Executions -> RunRecord]
  BY DEF Safe, TypeOK
<1> DEFINE t == [r EXCEPT !.left = 0]
<1>2. CASE run' = [run EXCEPT ![e] = [r EXCEPT !.left = @ - 1]]
  BY <1>1, <1>2 DEF Admitted
<1>3. CASE Enter(e, [t EXCEPT !.round = @ + 1])
  BY <1>3, EnterAdmits
<1>4. CASE run' = [run EXCEPT ![e] = Answered(t, TRUE)]
  BY <1>1, <1>4 DEF Admitted, Answered, Idle
<1> QED BY <1>2, <1>3, <1>4 DEF AfterTool, NextRound, Become

LEMMA ProceedAdmits ==
  ASSUME Safe, NEW e \in Executions,
         Receive(e) \/ Inform(e) \/ Proceed(e) \/ TimeOut(e)
  PROVE  Admitted(e)
<1> PICK r : r = run[e]
  OBVIOUS
<1>1. run \in [Executions -> RunRecord] /\ r \in RunRecord
  BY DEF Safe, TypeOK
<1>2. {"pc", "model", "attempt", "left", "round", "steps", "step"} \subseteq DOMAIN r
  BY <1>1 DEF RunRecord
<1>3. CASE \E x, ok : run' = [run EXCEPT ![e] = Answered(x, ok)]
  BY <1>1, <1>3 DEF Admitted, Answered, Idle
<1>4. CASE run' = [run EXCEPT ![e] = GiveUp(r)]
  BY <1>1, <1>2, <1>4 DEF Admitted, GiveUp, Answered, Idle
<1>5. CASE Receive(e)
  <2>1. PICK ranked :
          Become(e, IF ranked = <<>> /\ e \in MultiStep THEN Answered(Idle, FALSE)
                    ELSE [Idle EXCEPT !.ranked = ranked, !.planning = e \in MultiStep,
                            !.pc = IF ranked = <<>> THEN "runtime" ELSE "choosing"])
    BY <1>5 DEF Receive
  <2> DEFINE s == [Idle EXCEPT !.ranked = ranked, !.planning = e \in MultiStep,
                     !.pc = IF ranked = <<>> THEN "runtime" ELSE "choosing"]
  <2>2. s.pc # "requesting"
    BY DEF Idle
  <2>3. CASE run' = [run EXCEPT ![e] = s]
    BY <1>1, <2>2, <2>3 DEF Admitted
  <2> QED BY <1>3, <2>1, <2>3 DEF Become
<1>6. CASE Choose(e)
  <2>1. CASE run' = [run EXCEPT ![e] = [r EXCEPT !.at = @ + 1, !.dead = @ \cup {Candidate(e)}]]
    BY <1>1, <1>2, <1>6, <2>1 DEF Admitted, Choose, At
  <2>2. CASE Enter(e, [r EXCEPT !.model = Candidate(e), !.round = 1,
                                !.called = @ \cup {Candidate(e)}])
    BY <1>2, <2>2, EnterAdmits
  <2> QED BY <1>3, <1>6, <2>1, <2>2 DEF Choose, Become, Fail
<1>7. CASE Tools(e)
  <2>1. r.pc = "acting"
    BY <1>7 DEF Tools, UnknownTool, RefuseTool, RunTool, At
  <2>2. CASE AfterTool(e, [r EXCEPT !.failures = Streak(r)])
    BY <1>2, <2>1, <2>2, AfterToolAdmits
  <2>3. CASE RunTool(e)
    <3>1. PICK failures \in {0, 1} :
            AfterTool(e, [r EXCEPT !.failures = failures, !.acts = @ + 1,
                            !.late = IF r.aborted THEN @ + 1 ELSE @])
      BY <2>3 DEF RunTool
    <3> QED BY <1>2, <2>1, <3>1, AfterToolAdmits
  <2> QED BY <1>3, <1>7, <2>2, <2>3 DEF Tools, UnknownTool, RefuseTool, Fail, Become
<1>8. CASE Call(e)
  <2>1. CASE RespondsWithTools(e)
    BY <1>1, <1>2, <2>1 DEF RespondsWithTools, Become, Admitted
  <2>2. CASE RespondsWithPlan(e)
    <3>1. CASE \E plan \in Plans : run' = [run EXCEPT ![e] = Planned(plan)]
      BY <1>1, <3>1 DEF Planned, Answered, Idle, Admitted
    <3> QED BY <1>3, <2>2, <3>1 DEF RespondsWithPlan, Fail, Become
  <2>3. CASE FailsTransiently(e)
    <3>1. CASE run' = [run EXCEPT ![e] = [r EXCEPT !.attempt = @ + 1]]
      BY <1>1, <1>2, <2>3, <3>1 DEF Admitted
    <3> QED BY <1>4, <2>3, <3>1 DEF FailsTransiently, Become
  <2> QED BY <1>3, <1>4, <1>8, <2>1, <2>2, <2>3
         DEF Call, RespondsWithText, FailsForGood, Aborts, Succeed, Fail, Become
<1>9. CASE Steps(e)
  <2>1. CASE CompleteStep(e)
    <3>1. PICK status \in Done :
            LET m == Mark(r, status) IN
            run' = [run EXCEPT ![e] = IF m.step = Len(m.plan) THEN Answered(m, TRUE)
                                      ELSE [m EXCEPT !.step = @ + 1]]
      BY <2>1 DEF CompleteStep, Become
    <3> PICK m : m = Mark(r, status)
      OBVIOUS
    <3>2. m.pc = "stepping" /\ "step" \in DOMAIN m /\ "pc" \in DOMAIN m
      BY <1>1, <2>1 DEF CompleteStep, Ready, At, Mark, RunRecord
    <3>3. CASE run' = [run EXCEPT ![e] = [m EXCEPT !.step = @ + 1]]
      BY <1>1, <3>2, <3>3 DEF Admitted
    <3> QED BY <1>3, <3>1, <3>3
  <2> QED BY <1>3, <1>9, <2>1
         DEF Steps, SkipStep, FailStep, StepTimesOut, AfterSkip, Become
<1>10. CASE TimeOut(e)
  BY <1>1, <1>2, <1>10 DEF TimeOut, Become, Admitted
<1>11. CASE Exhaust(e)
  BY <1>1, <1>2, <1>11 DEF Exhaust, Goto, Become, Admitted
<1>12. CASE Forget(e)
  BY <1>1, <1>12 DEF Forget, Become, Idle, Admitted
<1> QED BY <1>3, <1>5, <1>6, <1>7, <1>8, <1>9, <1>10, <1>11, <1>12
       DEF Inform, Proceed, RunOnRuntime, Succeed, Fail, Become

(* OpenAdmitsNobody: while the circuit of a provider is open no execution  *)
(* begins a call to it, not even one that was routed before it opened.     *)
THEOREM OpenCircuitHolds == Spec => OpenAdmitsNobody
<1>1. ASSUME Safe, [Next]_vars, NEW p \in Providers, circuit[p] = "open", circuit'[p] = "open"
      PROVE  InCall(p)' \subseteq InCall(p)
  <2> SUFFICES ASSUME NEW e \in Executions, run'[e].pc = "requesting",
                      Registry[run'[e].model].provider = p
               PROVE  run[e].pc = "requesting" /\ Registry[run[e].model].provider = p
    BY DEF InCall, At, ProviderOf
  <2>1. CASE run'[e] = run[e]
    BY <2>1
  <2>2. CASE Receive(e) \/ Inform(e) \/ Proceed(e) \/ TimeOut(e)
    BY <1>1, <2>2, ProceedAdmits DEF Admitted
  <2>3. ASSUME NEW d \in Executions, d # e,
               Receive(d) \/ Inform(d) \/ Proceed(d) \/ TimeOut(d)
        PROVE  run'[e] = run[e]
    <3>1. \E s : MovesTo(d, s)
      BY <1>1, <2>3, ReceiveGood, OtherGood, ChooseGood, CallGood, ToolsGood, StepsGood,
         TimeOutGood DEF Proceed
    <3> QED BY <1>1, <2>3, <3>1 DEF MovesTo, Safe, TypeOK
  <2>4. ASSUME NEW q \in Providers, Cool(q)
        PROVE  run'[e] = run[e]
    BY <2>4 DEF Cool
  <2> QED BY <1>1, <2>1, <2>2, <2>3, <2>4 DEF Next, vars
<1>2. Safe /\ [Next]_vars =>
        [\A p \in Providers :
            circuit[p] = "open" /\ circuit'[p] = "open" => InCall(p)' \subseteq InCall(p)]_vars
  BY <1>1
<1> QED BY <1>2, SafetyInvariant, PTL DEF Spec, OpenAdmitsNobody
=============================================================================
