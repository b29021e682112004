-------------------------- MODULE CollectorProofs --------------------------
(***************************************************************************)
(* Proofs about Collector, for every set of names and sizes and every      *)
(* bound.  TypeOK is inductive; each other invariant is inductive given    *)
(* TypeOK, and only the methods that write the state it speaks of matter.  *)
(* The sums over jobs need lemmas about sums first, at the end.            *)
(***************************************************************************)
EXTENDS Collector, TLAPS, FiniteSetTheorems, WellFoundedInduction

(* Counting an operation keeps a job a job. *)
LEMMA CountOperationKeepsJob ==
  ASSUME NEW job \in Job, NEW kind, NEW ok \in BOOLEAN
  PROVE  CountOperation(job, kind, ok) \in Job
<1> DEFINE counted == [job EXCEPT !.operations = @ + 1]
           failed == IF ok THEN counted ELSE [counted EXCEPT !.failedOperations = @ + 1]
<1>1. counted \in Job
  BY DEF Job
<1>2. failed \in Job
  <2> HIDE DEF counted
  <2>1. [counted EXCEPT !.failedOperations = @ + 1] \in Job
    BY <1>1 DEF Job
  <2>2. QED BY <1>1, <2>1
<1>3. [failed EXCEPT !.maintenanceOperations = @ + 1] \in Job
  <2> HIDE DEF failed
  <2>1. QED BY <1>2 DEF Job
<1>4. QED
  <2> HIDE DEF failed
  <2>1. CountOperation(job, kind, ok) = IF kind = "maintenance" THEN [failed EXCEPT !.maintenanceOperations = @ + 1] ELSE failed
    BY DEF CountOperation, failed
  <2>2. QED
  BY <1>2, <1>3, <2>1

(* So does counting a message. *)
LEMMA CountMessageKeepsJob ==
  ASSUME NEW job \in Job, NEW req \in Nat, NEW resp \in Nat
  PROVE  CountMessage(job, req, resp) \in Job
<1> DEFINE counted == [job EXCEPT !.traffic = AddMessage(@, req, resp)]
<1>0. EstimateTokens(req) \in Nat /\ EstimateTokens(resp) \in Nat
  BY DEF EstimateTokens
<1>1. AddMessage(job.traffic, req, resp) \in Traffic
  BY DEF Job, AddMessage, Traffic
<1>2. counted \in Job
  BY <1>1 DEF Job
<1>3. [counted EXCEPT !.estimatedTokens = @ + EstimateTokens(req) + EstimateTokens(resp)] \in Job
  <2> HIDE DEF counted
  <2>1. QED BY <1>2, <1>0 DEF Job
<1>4. QED
  BY <1>3 DEF CountMessage

(* Replacing one element of a sequence of jobs leaves a sequence of jobs. *)
LEMMA ReplaceJob ==
  ASSUME NEW s \in Seq(Job), NEW k \in 1..Len(s), NEW job \in Job
  PROVE  /\ [s EXCEPT ![k] = job] \in Seq(Job)
         /\ Len([s EXCEPT ![k] = job]) = Len(s)
OBVIOUS

-----------------------------------------------------------------------------
(* One lemma per part of TypeOK: what a step does to the variables it      *)
(* speaks of, and why the part survives.                                   *)

LEMMA JobsKept == JobsOK /\ [Next]_vars => JobsOK'
<1> SUFFICES ASSUME JobsOK, [Next]_vars PROVE JobsOK'
  OBVIOUS
<1>1. ASSUME NEW name \in JobNames, BeginAgentJob(name) PROVE JobsOK'
  <2>1. NewJob(name) \in Job
    BY DEF NewJob, NoTraffic, Traffic, Job
  <2>2. QED
    BY <1>1, <2>1 DEF BeginAgentJob, JobsOK
<1>2. ASSUME NEW passed \in BOOLEAN, EndAgentJob(passed) PROVE JobsOK'
  <2>1. CASE activeJob = 0
    BY <1>2, <2>1 DEF EndAgentJob, JobsOK
  <2>2. CASE activeJob # 0
    <3>1. activeJob \in 1..Len(jobs) /\ jobs \in Seq(Job) /\ jobs[activeJob] \in Job
      BY <2>2 DEF JobsOK
    <3>2. [jobs[activeJob] EXCEPT !.passed = passed] \in Job
      BY <3>1 DEF Job
    <3>3. jobs' = [jobs EXCEPT ![activeJob] = [jobs[activeJob] EXCEPT !.passed = passed]]
      BY <1>2, <2>2 DEF EndAgentJob
    <3>4. jobs' \in Seq(Job)
      BY <3>1, <3>2, <3>3, ReplaceJob
    <3>5. QED
      BY <1>2, <3>4 DEF EndAgentJob, JobsOK
  <2>3. QED
    BY <2>1, <2>2
<1>3. ASSUME NEW name \in JobNames, FailAgentJob(name) PROVE JobsOK'
  <2>1. \A job \in Job : [job EXCEPT !.passed = FALSE] \in Job
    BY DEF Job
  <2>2. jobs' \in [1..Len(jobs) -> Job]
    BY <1>3, <2>1 DEF FailAgentJob, JobsOK
  <2>3. jobs' \in Seq(Job) /\ Len(jobs') = Len(jobs)
    BY <2>2 DEF JobsOK
  <2>4. QED
    BY <1>3, <2>3 DEF FailAgentJob, JobsOK
<1>4. ASSUME NEW kind \in OperationKinds, NEW ok \in BOOLEAN, Observe(kind, ok) PROVE JobsOK'
  <2>1. CASE activeJob = 0
    BY <1>4, <2>1 DEF Observe, JobsOK
  <2>2. CASE activeJob # 0
    <3>1. activeJob \in 1..Len(jobs) /\ jobs \in Seq(Job) /\ jobs[activeJob] \in Job
      BY <2>2 DEF JobsOK
    <3>2. CountOperation(jobs[activeJob], kind, ok) \in Job
      BY <3>1, CountOperationKeepsJob
    <3>3. jobs' = [jobs EXCEPT ![activeJob] = CountOperation(jobs[activeJob], kind, ok)]
      BY <1>4, <2>2 DEF Observe
    <3>4. jobs' \in Seq(Job) /\ Len(jobs') = Len(jobs)
      BY <3>1, <3>2, <3>3, ReplaceJob
    <3>5. QED
      BY <1>4, <3>4 DEF Observe, JobsOK
  <2>3. QED
    BY <2>1, <2>2
<1>5. ASSUME NEW req \in Sizes, NEW resp \in Sizes, NEW plaintext \in BOOLEAN,
             ObserveWire(req, resp, plaintext)
      PROVE  JobsOK'
  <2>1. CASE activeJob = 0
    BY <1>5, <2>1 DEF ObserveWire, JobsOK
  <2>2. CASE activeJob # 0
    <3>1. activeJob \in 1..Len(jobs) /\ jobs \in Seq(Job) /\ jobs[activeJob] \in Job
      BY <2>2 DEF JobsOK
    <3>2. CountMessage(jobs[activeJob], req, resp) \in Job
      BY <3>1, SizesAssumption, CountMessageKeepsJob
    <3>3. jobs' = [jobs EXCEPT ![activeJob] = CountMessage(jobs[activeJob], req, resp)]
      BY <1>5, <2>2 DEF ObserveWire
    <3>4. jobs' \in Seq(Job) /\ Len(jobs') = Len(jobs)
      BY <3>1, <3>2, <3>3, ReplaceJob
    <3>5. QED
      BY <1>5, <3>4 DEF ObserveWire, JobsOK
  <2>3. QED
    BY <2>1, <2>2
<1>6. CASE UNCHANGED jobVars
  BY <1>6 DEF jobVars, JobsOK
<1>7. QED
  BY <1>1, <1>2, <1>3, <1>4, <1>5, <1>6
     DEF Next, JobStep, ScenarioStep, TrafficStep, GateStep, BeginScenario, EndScenarioStatus,
         SetCategory, AddReliability, AddInvalid, AddResource, jobVars, vars

LEMMA ScenariosKept == ScenariosOK /\ [Next]_vars => ScenariosOK'
<1> SUFFICES ASSUME ScenariosOK, [Next]_vars PROVE ScenariosOK'
  OBVIOUS
<1>1. ASSUME NEW name \in ScenarioNames, BeginScenario(name) PROVE ScenariosOK'
  BY <1>1 DEF BeginScenario, ScenariosOK, ScenarioTags
<1>2. ASSUME NEW status \in Statuses, NEW hard \in BOOLEAN, EndScenarioStatus(status, hard)
      PROVE  ScenariosOK'
  <2>1. [name |-> scenario, status |-> status, passed |-> status = "passed",
         hardGate |-> hard, operations |-> scenarioOps] \in Scenario
    BY DEF ScenariosOK, Scenario
  <2>2. QED
    BY <1>2, <2>1 DEF EndScenarioStatus, ScenariosOK, jobVars, wireVars
<1>3. ASSUME NEW kind \in OperationKinds, NEW ok \in BOOLEAN, Observe(kind, ok)
      PROVE  ScenariosOK'
  BY <1>3 DEF Observe, ScenariosOK, wireVars
<1>4. CASE UNCHANGED scenarioVars
  BY <1>4 DEF scenarioVars, ScenariosOK
<1>5. QED
  BY <1>1, <1>2, <1>3, <1>4
     DEF Next, JobStep, ScenarioStep, TrafficStep, GateStep, BeginAgentJob, EndAgentJob,
         FailAgentJob, SetCategory, ObserveWire, AddReliability, AddInvalid, AddResource,
         scenarioVars, vars

(* What is reported for a category is a category, and so is what a further *)
(* report makes of it.                                                     *)
LEMMA MergeKeepsCategory ==
  ASSUME NEW c \in Category, NEW passed \in BOOLEAN, NEW hard \in BOOLEAN
  PROVE  /\ [passed |-> passed, hardGate |-> hard, score |-> ScoreOf(passed)] \in Category
         /\ Merge(c, passed, hard, ScoreOf(passed)) \in Category
BY DEF Merge, Category, ScoreOf

LEMMA CategoriesKept == CategoriesOK /\ [Next]_vars => CategoriesOK'
<1> SUFFICES ASSUME CategoriesOK, [Next]_vars PROVE CategoriesOK'
  OBVIOUS
<1>1. ASSUME NEW name \in CategoryNames, NEW passed \in BOOLEAN, NEW hard \in BOOLEAN,
             SetCategory(name, passed, hard, ScoreOf(passed))
      PROVE  CategoriesOK'
  <2> DEFINE fresh == [passed |-> passed, hardGate |-> hard, score |-> ScoreOf(passed)]
             next(n) == IF n # name THEN categories[n]
                        ELSE IF name \in DOMAIN categories
                             THEN Merge(categories[name], passed, hard, ScoreOf(passed))
                             ELSE fresh
  <2>1. fresh \in Category
    BY DEF Category, ScoreOf
  <2>2. \A n \in DOMAIN categories : categories[n] \in Category
    BY DEF CategoriesOK
  <2>3. ASSUME name \in DOMAIN categories
        PROVE  Merge(categories[name], passed, hard, ScoreOf(passed)) \in Category
    BY <2>2, <2>3, MergeKeepsCategory
  <2>4. \A n \in DOMAIN categories \cup {name} : next(n) \in Category
    <3> HIDE DEF fresh
    <3>1. QED
      BY <2>1, <2>2, <2>3
  <2>5. categories' = [n \in DOMAIN categories \cup {name} |-> next(n)]
    BY <1>1 DEF SetCategory
  <2>6. DOMAIN categories \cup {name} \subseteq CategoryNames
    BY DEF CategoriesOK
  <2>7. QED
    <3> HIDE DEF next
    <3>1. DOMAIN categories' = DOMAIN categories \cup {name}
      BY <2>5
    <3>2. categories' \in [DOMAIN categories' -> Category]
      BY <2>4, <2>5, <3>1
    <3>3. QED
      BY <2>6, <3>1, <3>2 DEF CategoriesOK
<1>2. CASE UNCHANGED categories
  BY <1>2 DEF CategoriesOK
<1>3. QED
  BY <1>1, <1>2
     DEF Next, JobStep, ScenarioStep, TrafficStep, GateStep, BeginAgentJob, EndAgentJob,
         FailAgentJob, BeginScenario, EndScenarioStatus, Observe, ObserveWire, AddReliability,
         AddInvalid, AddResource, vars

LEMMA TrafficKept ==
  ScenariosOK /\ TrafficOK /\ GatesOK /\ [Next]_vars => TrafficOK' /\ GatesOK'
<1> SUFFICES ASSUME ScenariosOK, TrafficOK, GatesOK, [Next]_vars PROVE TrafficOK' /\ GatesOK'
  OBVIOUS
<1>1. ASSUME NEW kind \in OperationKinds, NEW ok \in BOOLEAN, Observe(kind, ok)
      PROVE  TrafficOK' /\ GatesOK'
  <2>1. [scenario |-> scenario, success |-> ok] \in Operation
    BY DEF ScenariosOK, Operation
  <2>2. QED
    BY <1>1, <2>1 DEF Observe, TrafficOK, GatesOK, wireVars
<1>2. ASSUME NEW req \in Sizes, NEW resp \in Sizes, NEW plaintext \in BOOLEAN,
             ObserveWire(req, resp, plaintext)
      PROVE  TrafficOK' /\ GatesOK'
  <2>1. [requestBytes |-> req, responseBytes |-> resp, plaintextDetected |-> plaintext] \in WireSample
    BY DEF WireSample
  <2>2. AddMessage(overallWire, req, resp) \in Traffic
    BY SizesAssumption DEF TrafficOK, AddMessage, Traffic
  <2>3. TrafficOK'
    BY <1>2, <2>1, <2>2 DEF ObserveWire, TrafficOK
  <2>4. GatesOK'
    BY <1>2 DEF ObserveWire, GatesOK
  <2>5. QED
    BY <2>3, <2>4
<1>3. ASSUME NEW counter \in ReliabilityCounters, NEW delta \in Deltas,
             AddReliability(counter, delta)
      PROVE  TrafficOK' /\ GatesOK'
  <2>1. delta \in Int
    BY SizesAssumption
  <2>2. QED
    BY <1>3, <2>1 DEF AddReliability, TrafficOK, GatesOK, wireVars
<1>4. CASE AddInvalid
  BY <1>4 DEF AddInvalid, TrafficOK, GatesOK, wireVars
<1>5. CASE AddResource
  BY <1>5, BoundsAssumption DEF AddResource, TrafficOK, GatesOK, wireVars
<1>6. CASE UNCHANGED <<operations, wireVars, reliability, invalidReasons, resources>>
  BY <1>6 DEF wireVars, TrafficOK, GatesOK
<1>7. QED
  BY <1>1, <1>2, <1>3, <1>4, <1>5, <1>6
     DEF Next, JobStep, ScenarioStep, TrafficStep, GateStep, BeginAgentJob, EndAgentJob,
         FailAgentJob, BeginScenario, EndScenarioStatus, SetCategory, wireVars, vars

(* In every reachable state the collector is well typed, and activeJob is  *)
(* 0 or the index of the job begun last.                                   *)
THEOREM TypeCorrect == Spec => []TypeOK
<1>1. Init => TypeOK
  <2> SUFFICES ASSUME Init PROVE TypeOK
    OBVIOUS
  <2>1. JobsOK
    <3>1. << >> \in Seq(Job)
      OBVIOUS
    <3>2. QED
      BY <3>1 DEF Init, JobsOK
  <2>2. ScenariosOK
    <3>1. scenario \in ScenarioTags
      BY DEF Init, ScenarioTags
    <3>2. scenarios = << >> /\ scenarioOps = 0
      BY Zenon DEF Init
    <3>3. scenarios \in Seq(Scenario) /\ scenarioOps \in Nat
      BY <3>2
    <3>4. QED
      BY <3>1, <3>3 DEF ScenariosOK
  <2>3. CategoriesOK
    BY DEF Init, CategoriesOK
  <2>4. TrafficOK /\ GatesOK
    <3>1. << >> \in Seq(Operation) /\ << >> \in Seq(WireSample)
      OBVIOUS
    <3>2. NoTraffic \in Traffic
      BY DEF NoTraffic, Traffic
    <3>3. reliability \in [ReliabilityCounters -> Int]
      <4>1. reliability = [c \in ReliabilityCounters |-> 0]
        BY Zenon DEF Init
      <4>2. QED
        BY <4>1
    <3>4. /\ operations = << >> /\ wire = << >> /\ overallWire = NoTraffic
          /\ encryptionViolations = 0 /\ invalidReasons = 0 /\ resources = 0
      BY Zenon DEF Init
    <3>5. QED
      BY <3>1, <3>2, <3>3, <3>4 DEF TrafficOK, GatesOK
  <2>5. QED
    BY <2>1, <2>2, <2>3, <2>4 DEF TypeOK
<1>2. TypeOK /\ [Next]_vars => TypeOK'
  BY JobsKept, ScenariosKept, CategoriesKept, TrafficKept DEF TypeOK
<1>3. QED
  BY <1>1, <1>2, PTL DEF Spec

-----------------------------------------------------------------------------
(* A step either reports one scenario for one category or leaves every     *)
(* category as it is.                                                      *)
LEMMA CategorySteps ==
  [Next]_vars =>
    \/ \E name \in CategoryNames, passed, hard \in BOOLEAN :
          SetCategory(name, passed, hard, ScoreOf(passed))
    \/ UNCHANGED categories
BY DEF Next, JobStep, ScenarioStep, TrafficStep, GateStep, BeginAgentJob, EndAgentJob,
       FailAgentJob, BeginScenario, EndScenarioStatus, Observe, ObserveWire, AddReliability,
       AddInvalid, AddResource, vars

(* In every reachable state a category scores 100 when all its scenarios   *)
(* passed and 0 when one did not, whatever the order of the reports.       *)
THEOREM CategoriesAllOrNothing == Spec => []CategoryGate
<1>1. Init => CategoryGate
  BY DEF Init, CategoryGate
<1>2. CategoriesOK /\ CategoryGate /\ [Next]_vars => CategoryGate'
  <2> SUFFICES ASSUME CategoriesOK, CategoryGate, [Next]_vars,
                      NEW n \in DOMAIN categories'
               PROVE  categories'[n].score = ScoreOf(categories'[n].passed)
    BY DEF CategoryGate
  <2>1. CASE UNCHANGED categories
    BY <2>1 DEF CategoryGate
  <2>2. ASSUME NEW name \in CategoryNames, NEW passed \in BOOLEAN, NEW hard \in BOOLEAN,
               SetCategory(name, passed, hard, ScoreOf(passed))
        PROVE  categories'[n].score = ScoreOf(categories'[n].passed)
    <3>1. CASE n # name
      <4>1. n \in DOMAIN categories /\ categories'[n] = categories[n]
        BY <2>2, <3>1 DEF SetCategory
      <4>2. QED
        BY <4>1 DEF CategoryGate
    <3>2. CASE n = name /\ name \notin DOMAIN categories
      BY <2>2, <3>2 DEF SetCategory
    <3>3. CASE n = name /\ name \in DOMAIN categories
      <4> DEFINE c == categories[name]
      <4>1. categories'[n] = Merge(c, passed, hard, ScoreOf(passed))
        BY <2>2, <3>3 DEF SetCategory
      <4>2. c \in Category /\ c.score = ScoreOf(c.passed)
        BY <3>3 DEF CategoriesOK, CategoryGate
      <4>3. QED
        <5> HIDE DEF c
        <5>1. QED
          BY <4>1, <4>2 DEF Merge, ScoreOf, Category
    <3>4. QED
      BY <3>1, <3>2, <3>3
  <2>3. QED
    BY <2>1, <2>2, CategorySteps
<1>3. QED
  BY <1>1, <1>2, TypeCorrect, PTL DEF Spec, TypeOK

(* No step takes a failed category back to passed, or makes a hard gate    *)
(* soft.                                                                   *)
THEOREM CategoriesStick == Spec => CategoryFailureSticks
<1> DEFINE Sticks == \A n \in DOMAIN categories :
                       /\ n \in DOMAIN categories'
                       /\ ~categories[n].passed => ~categories'[n].passed
                       /\ categories[n].hardGate => categories'[n].hardGate
<1>1. CategoriesOK /\ [Next]_vars => Sticks
  <2> SUFFICES ASSUME CategoriesOK, [Next]_vars, NEW n \in DOMAIN categories
               PROVE  /\ n \in DOMAIN categories'
                      /\ ~categories[n].passed => ~categories'[n].passed
                      /\ categories[n].hardGate => categories'[n].hardGate
    OBVIOUS
  <2>1. CASE UNCHANGED categories
    BY <2>1
  <2>2. ASSUME NEW name \in CategoryNames, NEW passed \in BOOLEAN, NEW hard \in BOOLEAN,
               SetCategory(name, passed, hard, ScoreOf(passed))
        PROVE  /\ n \in DOMAIN categories'
               /\ ~categories[n].passed => ~categories'[n].passed
               /\ categories[n].hardGate => categories'[n].hardGate
    <3>1. n \in DOMAIN categories'
      BY <2>2 DEF SetCategory
    <3>2. CASE n # name
      BY <2>2, <3>1, <3>2 DEF SetCategory
    <3>3. CASE n = name
      <4>1. categories'[n] = Merge(categories[n], passed, hard, ScoreOf(passed))
        BY <2>2, <3>1, <3>3 DEF SetCategory
      <4>2. categories[n] \in Category
        BY DEF CategoriesOK
      <4>3. QED
        BY <3>1, <4>1, <4>2 DEF Merge, Category
    <3>4. QED
      BY <3>2, <3>3
  <2>3. QED
    BY <2>1, <2>2, CategorySteps
<1>2. QED
  BY <1>1, TypeCorrect, PTL DEF Spec, TypeOK, CategoryFailureSticks

-----------------------------------------------------------------------------
(* A step adds at most one scenario at the end of the list, and never      *)
(* takes an invalid reason back.                                           *)
LEMMA VerdictSteps ==
  GatesOK /\ [Next]_vars =>
    /\ invalidReasons' \in Nat /\ invalidReasons <= invalidReasons'
    /\ \/ UNCHANGED scenarios
       \/ \E status \in Statuses, hard \in BOOLEAN : EndScenarioStatus(status, hard)
<1> SUFFICES ASSUME GatesOK, [Next]_vars
             PROVE  /\ invalidReasons' \in Nat /\ invalidReasons <= invalidReasons'
                    /\ \/ UNCHANGED scenarios
                       \/ \E status \in Statuses, hard \in BOOLEAN : EndScenarioStatus(status, hard)
  OBVIOUS
<1>1. invalidReasons \in Nat
  BY DEF GatesOK
<1>2. ASSUME NEW req \in Sizes, NEW resp \in Sizes, NEW plaintext \in BOOLEAN,
             ObserveWire(req, resp, plaintext)
      PROVE  invalidReasons' \in Nat /\ invalidReasons <= invalidReasons' /\ UNCHANGED scenarios
  BY <1>1, <1>2 DEF ObserveWire, scenarioVars
<1>3. CASE AddInvalid
  BY <1>1, <1>3 DEF AddInvalid, scenarioVars
<1>4. ASSUME NEW status \in Statuses, NEW hard \in BOOLEAN, EndScenarioStatus(status, hard)
      PROVE  UNCHANGED invalidReasons
  BY <1>4 DEF EndScenarioStatus
<1>5. CASE UNCHANGED <<invalidReasons, scenarios>>
  BY <1>1, <1>5
<1>6. CASE JobStep
  BY <1>5, <1>6 DEF JobStep, BeginAgentJob, EndAgentJob, FailAgentJob, scenarioVars
<1>7. CASE ScenarioStep
  <2>1. \/ UNCHANGED <<invalidReasons, scenarios>>
        \/ \E status \in Statuses, hard \in BOOLEAN : EndScenarioStatus(status, hard)
    BY <1>7, Zenon DEF ScenarioStep, BeginScenario, SetCategory, scenarioVars
  <2>2. QED
    BY <1>1, <1>4, <1>5, <2>1
<1>8. CASE TrafficStep
  BY <1>2, <1>5, <1>8 DEF TrafficStep, Observe
<1>9. CASE GateStep
  BY <1>3, <1>5, <1>9 DEF GateStep, AddReliability, AddResource, scenarioVars
<1>10. QED
  BY <1>5, <1>6, <1>7, <1>8, <1>9 DEF Next, vars

(* Once a snapshot fails, every later one does: what main writes after Run *)
(* cannot pass when Run's own snapshot did not.                            *)
THEOREM VerdictIsFinal == Spec => VerdictNeverRecovers
<1>1. ScenariosOK /\ GatesOK /\ [Next]_vars => (~Passed => ~Passed')
  <2> SUFFICES ASSUME ScenariosOK, GatesOK, [Next]_vars, ~Passed PROVE ~Passed'
    OBVIOUS
  <2>1. CASE invalidReasons # 0
    BY <2>1, VerdictSteps DEF GatesOK, Passed
  <2>2. ASSUME NEW i \in DOMAIN scenarios, BlockingScenario(scenarios[i]) PROVE ~Passed'
    <3>1. i \in DOMAIN scenarios' /\ scenarios'[i] = scenarios[i]
      <4>1. CASE UNCHANGED scenarios
        BY <4>1
      <4>2. ASSUME NEW status \in Statuses, NEW hard \in BOOLEAN, EndScenarioStatus(status, hard)
            PROVE  i \in DOMAIN scenarios' /\ scenarios'[i] = scenarios[i]
        <5>1. scenarios \in Seq(Scenario)
          BY DEF ScenariosOK
        <5>2. PICK s : scenarios' = Append(scenarios, s)
          BY <4>2 DEF EndScenarioStatus
        <5>3. QED
          BY <5>1, <5>2
      <4>3. QED
        BY <4>1, <4>2, VerdictSteps
    <3>2. QED
      BY <2>2, <3>1 DEF Passed
  <2>3. QED
    BY <2>1, <2>2 DEF Passed
<1>2. QED
  BY <1>1, TypeCorrect, PTL DEF Spec, TypeOK, VerdictNeverRecovers

-----------------------------------------------------------------------------
PlaintextAt == {i \in DOMAIN wire : wire[i].plaintextDetected}

(* The strengthening that makes EncryptionGate inductive: each violation   *)
(* left an invalid reason behind.                                          *)
EncryptionInv ==
  /\ encryptionViolations = Cardinality(PlaintextAt)
  /\ encryptionViolations <= invalidReasons

(* Every plaintext message is counted exactly once, and one is enough to   *)
(* fail every later snapshot.                                              *)
THEOREM PlaintextFailsRun == Spec => []EncryptionGate
<1>1. Init => EncryptionInv
  <2> SUFFICES ASSUME Init PROVE EncryptionInv
    OBVIOUS
  <2>1. wire = << >> /\ encryptionViolations = 0 /\ invalidReasons = 0
    BY Zenon DEF Init
  <2>2. PlaintextAt = {}
    BY <2>1 DEF PlaintextAt
  <2>3. QED
    BY <2>1, <2>2, FS_EmptySet DEF EncryptionInv
<1>2. TrafficOK /\ GatesOK /\ EncryptionInv /\ [Next]_vars => EncryptionInv'
  <2> SUFFICES ASSUME TrafficOK, GatesOK, EncryptionInv, [Next]_vars PROVE EncryptionInv'
    OBVIOUS
  <2>1. ASSUME NEW req \in Sizes, NEW resp \in Sizes, NEW plaintext \in BOOLEAN,
               ObserveWire(req, resp, plaintext)
        PROVE  EncryptionInv'
    <3> DEFINE last == Len(wire) + 1
    <3>1. /\ wire \in Seq(WireSample)
          /\ wire' = Append(wire, [requestBytes |-> req, responseBytes |-> resp,
                                   plaintextDetected |-> plaintext])
      BY <2>1 DEF TrafficOK, ObserveWire
    <3>2. PlaintextAt' = IF plaintext THEN PlaintextAt \cup {last} ELSE PlaintextAt
      BY <3>1 DEF PlaintextAt
    <3>3. PlaintextAt \subseteq 1..Len(wire) /\ Len(wire) \in Nat
      BY <3>1 DEF PlaintextAt
    <3>4. IsFiniteSet(PlaintextAt)
      <4>1. IsFiniteSet(1..Len(wire))
        BY <3>3, FS_Interval
      <4>2. QED
        BY <3>3, <4>1, FS_Subset
    <3>5. last \notin PlaintextAt
      BY <3>3
    <3>6. Cardinality(PlaintextAt \cup {last}) = Cardinality(PlaintextAt) + 1
      BY <3>4, <3>5, FS_AddElement
    <3>7. /\ encryptionViolations' = encryptionViolations + (IF plaintext THEN 1 ELSE 0)
          /\ invalidReasons' = invalidReasons + (IF plaintext THEN 1 ELSE 0)
      BY <2>1 DEF ObserveWire
    <3>8. QED
      <4> HIDE DEF last
      <4>1. CASE plaintext
        BY <3>2, <3>6, <3>7, <4>1 DEF EncryptionInv, GatesOK
      <4>2. CASE ~plaintext
        BY <3>2, <3>7, <4>2 DEF EncryptionInv, GatesOK
      <4>3. QED
        BY <4>1, <4>2
  <2>2. CASE UNCHANGED wireVars
    BY <2>2, VerdictSteps DEF wireVars, EncryptionInv, PlaintextAt, GatesOK
  <2>3. QED
    BY <2>1, <2>2
       DEF Next, JobStep, ScenarioStep, TrafficStep, GateStep, BeginAgentJob, EndAgentJob,
           FailAgentJob, BeginScenario, SetCategory, EndScenarioStatus, Observe,
           AddReliability, AddInvalid, AddResource, wireVars, vars
<1>3. GatesOK /\ EncryptionInv => EncryptionGate
  BY DEF GatesOK, EncryptionInv, EncryptionGate, PlaintextAt, Passed
<1>4. QED
  BY <1>1, <1>2, <1>3, TypeCorrect, PTL DEF Spec, TypeOK

-----------------------------------------------------------------------------
(* The estimate of one message is its size rounded up to the next quarter. *)
LEMMA EstimateRoundsUp ==
  ASSUME NEW b \in Nat
  PROVE  EstimateTokens(b) \in Nat /\ b <= 4 * EstimateTokens(b) /\ 4 * EstimateTokens(b) <= b + 3
BY DEF EstimateTokens

(* Counting an operation or a message keeps a job consistent with itself.  *)
LEMMA CountOperationConsistent ==
  ASSUME NEW job \in Job, JobConsistent(job), NEW kind, NEW ok \in BOOLEAN
  PROVE  JobConsistent(CountOperation(job, kind, ok))
<1> DEFINE counted == [job EXCEPT !.operations = @ + 1]
           failed == IF ok THEN counted ELSE [counted EXCEPT !.failedOperations = @ + 1]
<1>1. counted \in Job /\ JobConsistent(counted) /\ counted.failedOperations < counted.operations
      /\ counted.maintenanceOperations < counted.operations
  BY DEF Job, JobConsistent, Traffic
<1>2. failed \in Job /\ JobConsistent(failed) /\ failed.maintenanceOperations < failed.operations
  <2> HIDE DEF counted
  <2>1. [counted EXCEPT !.failedOperations = @ + 1] \in Job
    BY <1>1 DEF Job
  <2>2. JobConsistent([counted EXCEPT !.failedOperations = @ + 1])
        /\ [counted EXCEPT !.failedOperations = @ + 1].maintenanceOperations
             < [counted EXCEPT !.failedOperations = @ + 1].operations
    BY <1>1 DEF Job, JobConsistent, Traffic
  <2>3. QED
    BY <1>1, <2>1, <2>2
<1>3. JobConsistent([failed EXCEPT !.maintenanceOperations = @ + 1])
  <2> HIDE DEF failed
  <2>1. QED
    BY <1>2 DEF Job, JobConsistent, Traffic
<1>4. CountOperation(job, kind, ok) = failed
      \/ CountOperation(job, kind, ok) = [failed EXCEPT !.maintenanceOperations = @ + 1]
  <2> HIDE DEF failed
  <2>1. CountOperation(job, kind, ok) = IF kind = "maintenance"
                                        THEN [failed EXCEPT !.maintenanceOperations = @ + 1]
                                        ELSE failed
    BY DEF CountOperation, failed
  <2>2. QED
    BY <2>1
<1>5. QED
  <2> HIDE DEF failed
  <2>1. QED
    BY <1>2, <1>3, <1>4

(* What counting a message does to the figures of a job. *)
LEMMA MessageFigures ==
  ASSUME NEW job \in Job, NEW req \in Nat, NEW resp \in Nat
  PROVE  LET j2 == CountMessage(job, req, resp)
         IN  /\ j2.operations = job.operations /\ j2.failedOperations = job.failedOperations
             /\ j2.maintenanceOperations = job.maintenanceOperations
             /\ j2.traffic = AddMessage(job.traffic, req, resp)
             /\ j2.estimatedTokens = job.estimatedTokens + (EstimateTokens(req) + EstimateTokens(resp))
<1> DEFINE t2 == AddMessage(job.traffic, req, resp)
           j2 == CountMessage(job, req, resp)
           counted == [job EXCEPT !.traffic = t2]
<1>1. t2 \in Traffic
  BY DEF Job, Traffic, AddMessage
<1>2. counted \in Job
  <2> HIDE DEF t2
  <2> QED
    BY <1>1 DEF Job
<1>3. /\ counted.operations = job.operations /\ counted.failedOperations = job.failedOperations
      /\ counted.maintenanceOperations = job.maintenanceOperations
      /\ counted.traffic = t2 /\ counted.estimatedTokens = job.estimatedTokens
  <2> HIDE DEF t2
  <2> QED
    BY DEF Job
<1>4. j2 = [counted EXCEPT !.estimatedTokens = @ + EstimateTokens(req) + EstimateTokens(resp)]
  BY DEF CountMessage
<1>5. job.estimatedTokens \in Nat /\ EstimateTokens(req) \in Nat /\ EstimateTokens(resp) \in Nat
  BY EstimateRoundsUp DEF Job
<1>6. /\ j2.operations = job.operations /\ j2.failedOperations = job.failedOperations
      /\ j2.maintenanceOperations = job.maintenanceOperations /\ j2.traffic = t2
      /\ j2.estimatedTokens = job.estimatedTokens + (EstimateTokens(req) + EstimateTokens(resp))
  <2> HIDE DEF counted, j2, t2
  <2> QED
    BY <1>2, <1>3, <1>4, <1>5 DEF Job
<1> QED
  BY <1>6

LEMMA CountMessageConsistent ==
  ASSUME NEW job \in Job, JobConsistent(job), NEW req \in Nat, NEW resp \in Nat
  PROVE  JobConsistent(CountMessage(job, req, resp))
<1> DEFINE t == job.traffic
           t2 == AddMessage(t, req, resp)
           j2 == CountMessage(job, req, resp)
           more == EstimateTokens(req) + EstimateTokens(resp)
<1>1. t \in Traffic /\ t2 \in Traffic
      /\ t2.roundTrips = t.roundTrips + 1 /\ t2.requestBytes = t.requestBytes + req
      /\ t2.responseBytes = t.responseBytes + resp
      /\ t2.totalWireBytes = t.totalWireBytes + req + resp
  BY DEF Job, Traffic, AddMessage
<1>2. more \in Nat /\ req + resp <= 4 * more /\ 4 * more <= req + resp + 6
  <2>1. EstimateTokens(req) \in Nat /\ req <= 4 * EstimateTokens(req) /\ 4 * EstimateTokens(req) <= req + 3
    BY EstimateRoundsUp
  <2>2. EstimateTokens(resp) \in Nat /\ resp <= 4 * EstimateTokens(resp) /\ 4 * EstimateTokens(resp) <= resp + 3
    BY EstimateRoundsUp
  <2>3. QED
    BY <2>1, <2>2
<1>3. /\ j2.operations = job.operations /\ j2.failedOperations = job.failedOperations
      /\ j2.maintenanceOperations = job.maintenanceOperations
      /\ j2.traffic = t2 /\ j2.estimatedTokens = job.estimatedTokens + more
  BY MessageFigures
<1>4. job.estimatedTokens \in Nat /\ EstimateTokens(req) \in Nat /\ EstimateTokens(resp) \in Nat
  BY EstimateRoundsUp DEF Job
<1>5. QED
  <2> HIDE DEF t, t2, j2, more
  <2>1. /\ t.totalWireBytes = t.requestBytes + t.responseBytes
        /\ t.totalWireBytes <= 4 * job.estimatedTokens
        /\ 4 * job.estimatedTokens <= t.totalWireBytes + 6 * t.roundTrips
        /\ job.failedOperations <= job.operations /\ job.maintenanceOperations <= job.operations
    BY DEF JobConsistent, t
  <2>2. /\ t2.totalWireBytes = t2.requestBytes + t2.responseBytes
        /\ t2.totalWireBytes <= 4 * j2.estimatedTokens
        /\ 4 * j2.estimatedTokens <= t2.totalWireBytes + 6 * t2.roundTrips
    BY <1>1, <1>2, <1>3, <1>4, <2>1 DEF Traffic
  <2>3. JobConsistent(j2)
    BY <1>3, <2>1, <2>2 DEF JobConsistent
  <2>4. QED
    BY <2>3 DEF j2

(* In every reachable state each job's figures agree with one another: in  *)
(* particular its token estimate is never below a quarter of its bytes,    *)
(* and exceeds it by less than two tokens per round trip.                  *)
THEOREM JobsConsistent == Spec => []JobAccounting
<1>1. Init => JobAccounting
  <2>1. Init => jobs = << >>
    BY Zenon DEF Init
  <2>2. QED
    BY <2>1 DEF JobAccounting
<1>2. JobsOK /\ JobAccounting /\ [Next]_vars => JobAccounting'
  <2> SUFFICES ASSUME JobsOK, JobAccounting, [Next]_vars PROVE JobAccounting'
    OBVIOUS
  <2>1. jobs \in Seq(Job) /\ \A i \in DOMAIN jobs : jobs[i] \in Job /\ JobConsistent(jobs[i])
    BY DEF JobsOK, JobAccounting
  <2>2. \A job \in Job, p \in BOOLEAN : JobConsistent(job) => JobConsistent([job EXCEPT !.passed = p])
    BY DEF Job, JobConsistent
  <2>3. ASSUME NEW name \in JobNames, BeginAgentJob(name) PROVE JobAccounting'
    <3>1. JobConsistent(NewJob(name))
      BY DEF JobConsistent, NewJob, NoTraffic
    <3>2. jobs' = Append(jobs, NewJob(name))
      BY <2>3 DEF BeginAgentJob
    <3>3. QED
      BY <2>1, <3>1, <3>2 DEF JobAccounting
  <2>4. ASSUME NEW passed \in BOOLEAN, EndAgentJob(passed) PROVE JobAccounting'
    <3>1. ASSUME NEW i \in DOMAIN jobs'
          PROVE  i \in DOMAIN jobs
                 /\ (jobs'[i] = jobs[i] \/ jobs'[i] = [jobs[i] EXCEPT !.passed = passed])
      BY <2>1, <2>4 DEF EndAgentJob
    <3>2. QED
      BY <2>1, <2>2, <3>1 DEF JobAccounting
  <2>5. ASSUME NEW name \in JobNames, FailAgentJob(name) PROVE JobAccounting'
    <3>1. ASSUME NEW i \in DOMAIN jobs'
          PROVE  i \in DOMAIN jobs
                 /\ (jobs'[i] = jobs[i] \/ jobs'[i] = [jobs[i] EXCEPT !.passed = FALSE])
      BY <2>1, <2>5 DEF FailAgentJob
    <3>2. QED
      BY <2>1, <2>2, <3>1 DEF JobAccounting
  <2>6. ASSUME NEW kind \in OperationKinds, NEW ok \in BOOLEAN, Observe(kind, ok)
        PROVE  JobAccounting'
    <3>1. ASSUME NEW i \in DOMAIN jobs'
          PROVE  i \in DOMAIN jobs
                 /\ (jobs'[i] = jobs[i] \/ jobs'[i] = CountOperation(jobs[i], kind, ok))
      BY <2>1, <2>6 DEF Observe
    <3>2. QED
      BY <2>1, <3>1, CountOperationConsistent DEF JobAccounting
  <2>7. ASSUME NEW req \in Sizes, NEW resp \in Sizes, NEW plaintext \in BOOLEAN,
               ObserveWire(req, resp, plaintext)
        PROVE  JobAccounting'
    <3>1. ASSUME NEW i \in DOMAIN jobs'
          PROVE  i \in DOMAIN jobs
                 /\ (jobs'[i] = jobs[i] \/ jobs'[i] = CountMessage(jobs[i], req, resp))
      BY <2>1, <2>7 DEF ObserveWire
    <3>2. QED
      BY <2>1, <3>1, SizesAssumption, CountMessageConsistent DEF JobAccounting
  <2>8. CASE UNCHANGED jobs
    BY <2>8 DEF JobAccounting
  <2>9. QED
    BY <2>3, <2>4, <2>5, <2>6, <2>7, <2>8
       DEF Next, JobStep, ScenarioStep, TrafficStep, GateStep, BeginScenario, EndScenarioStatus,
           SetCategory, AddReliability, AddInvalid, AddResource, jobVars, vars
<1>3. QED
  BY <1>1, <1>2, TypeCorrect, PTL DEF Spec, TypeOK

(* No step changes what a job that is not being measured has counted, and  *)
(* its status only goes from passed to failed.                             *)
THEOREM EndedJobsStayFrozen == Spec => EndedJobFrozen
<1> DEFINE Frozen(i) == /\ i \in DOMAIN jobs'
                        /\ jobs'[i] = [jobs[i] EXCEPT !.passed = jobs'[i].passed]
                        /\ jobs'[i].passed => jobs[i].passed
           KeepsOrFails(i) == /\ i \in DOMAIN jobs'
                              /\ jobs'[i] = jobs[i] \/ jobs'[i] = [jobs[i] EXCEPT !.passed = FALSE]
<1>1. JobsOK /\ [Next]_vars => \A i \in DOMAIN jobs : i # activeJob => KeepsOrFails(i)
  <2> SUFFICES ASSUME JobsOK, [Next]_vars, NEW i \in DOMAIN jobs, i # activeJob
               PROVE  KeepsOrFails(i)
    OBVIOUS
  <2>1. jobs \in Seq(Job) /\ activeJob \in Nat /\ (activeJob # 0 => activeJob \in DOMAIN jobs)
    BY DEF JobsOK
  <2>2. ASSUME NEW name \in JobNames, BeginAgentJob(name) PROVE KeepsOrFails(i)
    <3>1. PICK s : jobs' = Append(jobs, s)
      BY <2>2 DEF BeginAgentJob
    <3>2. QED
      BY <2>1, <3>1
  <2>3. ASSUME NEW passed \in BOOLEAN, EndAgentJob(passed) PROVE KeepsOrFails(i)
    <3>1. i \in DOMAIN jobs' /\ jobs'[i] = jobs[i]
      BY <2>1, <2>3 DEF EndAgentJob
    <3>2. QED
      BY <3>1
  <2>4. ASSUME NEW name \in JobNames, FailAgentJob(name) PROVE KeepsOrFails(i)
    BY <2>1, <2>4 DEF FailAgentJob
  <2>5. ASSUME NEW kind \in OperationKinds, NEW ok \in BOOLEAN, Observe(kind, ok)
        PROVE  KeepsOrFails(i)
    <3>1. i \in DOMAIN jobs' /\ jobs'[i] = jobs[i]
      BY <2>1, <2>5 DEF Observe
    <3>2. QED
      BY <3>1
  <2>6. ASSUME NEW req \in Sizes, NEW resp \in Sizes, NEW plaintext \in BOOLEAN,
               ObserveWire(req, resp, plaintext)
        PROVE  KeepsOrFails(i)
    <3>1. i \in DOMAIN jobs' /\ jobs'[i] = jobs[i]
      BY <2>1, <2>6 DEF ObserveWire
    <3>2. QED
      BY <3>1
  <2>7. CASE UNCHANGED jobs
    BY <2>7
  <2>8. QED
    <3> HIDE DEF KeepsOrFails
    <3>1. QED
      BY <2>2, <2>3, <2>4, <2>5, <2>6, <2>7
         DEF Next, JobStep, ScenarioStep, TrafficStep, GateStep, BeginScenario,
             EndScenarioStatus, SetCategory, AddReliability, AddInvalid, AddResource,
             jobVars, vars
<1>2. \A job \in Job : job = [job EXCEPT !.passed = job.passed] /\ ~[job EXCEPT !.passed = FALSE].passed
                       /\ [job EXCEPT !.passed = FALSE] = [job EXCEPT !.passed = [job EXCEPT !.passed = FALSE].passed]
  BY DEF Job
<1>3. JobsOK /\ [Next]_vars => \A i \in DOMAIN jobs : i # activeJob => Frozen(i)
  <2> SUFFICES ASSUME JobsOK, [Next]_vars, NEW i \in DOMAIN jobs, i # activeJob
               PROVE  Frozen(i)
    OBVIOUS
  <2>1. jobs[i] \in Job
    BY DEF JobsOK
  <2>2. KeepsOrFails(i)
    <3> HIDE DEF KeepsOrFails
    <3>1. QED
      BY <1>1
  <2>3. CASE jobs'[i] = jobs[i]
    <3>1. jobs[i] = [jobs[i] EXCEPT !.passed = jobs[i].passed]
      BY <1>2, <2>1
    <3>2. QED
      BY <2>2, <2>3, <3>1
  <2>4. CASE jobs'[i] = [jobs[i] EXCEPT !.passed = FALSE]
    <3> DEFINE failed == [jobs[i] EXCEPT !.passed = FALSE]
    <3>1. ~failed.passed /\ failed = [jobs[i] EXCEPT !.passed = failed.passed]
      BY <1>2, <2>1
    <3> HIDE DEF failed
    <3>2. jobs'[i] = failed
      BY <2>4 DEF failed
    <3>3. QED
      BY <2>2, <3>1, <3>2
  <2>5. QED
    BY <2>2, <2>3, <2>4
<1>4. QED
  BY <1>3, TypeCorrect, PTL DEF Spec, TypeOK, EndedJobFrozen

-----------------------------------------------------------------------------
(* Sums.  MapThenSumSet adds up by a recursive function over the subsets   *)
(* of its domain.  A sum of natural numbers is also the number of points   *)
(* under its terms, and in that form what it does when one term changes    *)
(* follows from the theorems about cardinality.                            *)

Units(S, g) == {ik \in S \X Nat : ik[2] < g[ik[1]]}
Total(S, g) == Cardinality(Units(S, g))

LEMMA UnitsFinite ==
  ASSUME NEW S, IsFiniteSet(S), NEW g, \A i \in S : g[i] \in Nat
  PROVE  IsFiniteSet(Units(S, g)) /\ Total(S, g) \in Nat
<1> DEFINE Row(i) == {i} \X (0 .. g[i] - 1)
           Rows == {Row(i) : i \in S}
           row == [i \in S |-> Row(i)]
<1>1. row \in Surjection(S, Rows)
  BY DEF Surjection
<1>2. IsFiniteSet(Rows)
  BY <1>1, FS_Surjection
<1>3. ASSUME NEW i \in S PROVE IsFiniteSet(Row(i))
  <2>1. IsFiniteSet(0 .. g[i] - 1)
    BY FS_Interval
  <2> QED
    BY <2>1, FS_Singleton, FS_Product
<1>4. IsFiniteSet(UNION Rows)
  BY <1>2, <1>3, FS_UNION
<1>5. Units(S, g) \subseteq UNION Rows
  <2> SUFFICES ASSUME NEW i \in S, NEW k \in Nat, k < g[i] PROVE <<i, k>> \in Row(i)
    BY DEF Units
  <2> QED
    OBVIOUS
<1> QED
  BY <1>4, <1>5, FS_Subset, FS_CardinalityType DEF Total

(* A sum is one of its terms and the rest.                                 *)
LEMMA OneApart ==
  ASSUME NEW S, IsFiniteSet(S), NEW g, \A i \in S : g[i] \in Nat, NEW x \in S
  PROVE  Total(S, g) = g[x] + Total(S \ {x}, g)
<1> DEFINE row == {x} \X (0 .. g[x] - 1)
           rest == Units(S \ {x}, g)
<1>1. g[x] \in Nat /\ IsFiniteSet(0 .. g[x] - 1) /\ Cardinality(0 .. g[x] - 1) = g[x]
  <2>1. g[x] \in Nat /\ 0 \in Int /\ g[x] - 1 \in Int
    OBVIOUS
  <2>2. Cardinality(0 .. g[x] - 1) = IF 0 > g[x] - 1 THEN 0 ELSE (g[x] - 1) - 0 + 1
    BY <2>1, FS_Interval
  <2>3. IsFiniteSet(0 .. g[x] - 1)
    BY <2>1, FS_Interval
  <2> QED
    BY <2>1, <2>2, <2>3
<1>2. IsFiniteSet(row) /\ Cardinality(row) = g[x]
  <2>1. IsFiniteSet({x}) /\ Cardinality({x}) = 1
    BY FS_Singleton
  <2>2. IsFiniteSet(row) /\ Cardinality(row) = 1 * g[x]
    BY <1>1, <2>1, FS_Product
  <2> QED
    BY <1>1, <2>2
<1>3. IsFiniteSet(rest) /\ Cardinality(rest) \in Nat
  <2>1. IsFiniteSet(S \ {x})
    BY FS_RemoveElement
  <2> QED
    BY <2>1, UnitsFinite DEF Total
<1>4. Units(S, g) = row \cup rest /\ row \cap rest = {}
  <2>1. \A k \in Nat : k < g[x] <=> k \in 0 .. g[x] - 1
    BY <1>1
  <2> QED
    BY <1>1, <2>1 DEF Units
<1>5. Cardinality(row \cup rest) = Cardinality(row) + Cardinality(rest) - Cardinality(row \cap rest)
  BY <1>2, <1>3, FS_Union
<1>6. Cardinality(row \cap rest) = 0
  BY <1>4, FS_EmptySet
<1> HIDE DEF row, rest
<1> QED
  BY <1>1, <1>2, <1>3, <1>4, <1>5, <1>6 DEF Total, rest

LEMMA NoTerms == \A g : Total({}, g) = 0
<1>1. \A g : Units({}, g) = {}
  BY DEF Units
<1> QED
  BY <1>1, FS_EmptySet DEF Total

(* One step of MapThenFoldSet's recursion.                                 *)
Added(S, g, f) ==
  [T \in SUBSET S |->
     IF T = {} THEN 0 ELSE g[CHOOSE x \in T : TRUE] + f[T \ {CHOOSE x \in T : TRUE}]]

(* What adds up like a sum is the sum, by a smallest set for which it is   *)
(* not.                                                                    *)
LEMMA AddsUp ==
  ASSUME NEW S, IsFiniteSet(S), NEW g, \A i \in S : g[i] \in Nat, NEW f,
         f = Added(S, g, f)
  PROVE  f[S] = Total(S, g)
<1> DEFINE Bad == {T \in SUBSET S : f[T] # Total(T, g)}
<1> SUFFICES ASSUME Bad # {} PROVE FALSE
  OBVIOUS
<1>1. IsWellFoundedOn(StrictSubsetOrdering(S), SUBSET S)
  BY FS_StrictSubsetOrderingWellFounded, FS_FiniteSubsetsOfFinite
<1>2. PICK T \in Bad : \A U \in Bad : ~ (<<U, T>> \in StrictSubsetOrdering(S))
  <2>1. Bad \subseteq SUBSET S
    OBVIOUS
  <2> HIDE DEF Bad
  <2> QED
    BY <1>1, <2>1, WFMin
<1>0. f[{}] = 0
  <2>1. f[{}] = Added(S, g, f)[{}]
    OBVIOUS
  <2> QED
    BY <2>1 DEF Added
<1>3. T # {}
  BY <1>0, NoTerms
<1> DEFINE x == CHOOSE y \in T : TRUE
<1>4. x \in T
  BY <1>3
<1>5. f[T] = g[x] + f[T \ {x}]
  BY <1>3 DEF Added
<1> HIDE DEF x
<1>6. <<T \ {x}, T>> \in StrictSubsetOrdering(S)
  BY <1>4 DEF StrictSubsetOrdering
<1>7. f[T \ {x}] = Total(T \ {x}, g)
  BY <1>2, <1>6
<1>8. IsFiniteSet(T)
  BY FS_Subset
<1>9. Total(T, g) = g[x] + Total(T \ {x}, g)
  BY <1>4, <1>8, OneApart
<1> QED
  BY <1>5, <1>7, <1>9

LEMMA SumThere ==
  ASSUME NEW S, IsFiniteSet(S), NEW g, \A i \in S : g[i] \in Nat
  PROVE  \E f : f = Added(S, g, f)
<1> DEFINE f == [T \in SUBSET S |-> Total(T, g)]
<1>1. ASSUME NEW T \in SUBSET S
      PROVE  Total(T, g) = IF T = {} THEN 0
                           ELSE g[CHOOSE x \in T : TRUE] + f[T \ {CHOOSE x \in T : TRUE}]
  <2>1. IsFiniteSet(T)
    BY FS_Subset
  <2>2. CASE T = {}
    BY <2>2, NoTerms
  <2>3. CASE T # {}
    <3> DEFINE x == CHOOSE y \in T : TRUE
    <3>1. x \in T
      BY <2>3
    <3> HIDE DEF x
    <3>2. Total(T, g) = g[x] + Total(T \ {x}, g)
      BY <2>1, <3>1, OneApart
    <3>3. f[T \ {x}] = Total(T \ {x}, g)
      OBVIOUS
    <3> QED
      BY <2>3, <3>2, <3>3 DEF x
  <2> QED
    BY <2>2, <2>3
<1>2. f = Added(S, g, f)
  BY <1>1 DEF Added
<1> QED
  BY <1>2

(* The value MapThenSumSet chooses. *)
LEMMA ChosenSum ==
  ASSUME NEW S, IsFiniteSet(S), NEW g, \A i \in S : g[i] \in Nat
  PROVE  (CHOOSE f : f = Added(S, g, f))[S] = Total(S, g)
<1> DEFINE sum == CHOOSE f : f = Added(S, g, f)
<1>1. sum = Added(S, g, sum)
  BY SumThere
<1> HIDE DEF sum
<1>2. sum[S] = Total(S, g)
  BY <1>1, AddsUp
<1> QED
  BY <1>2 DEF sum

(* What changing one term, or adding a term that is zero, does to a sum.    *)
LEMMA OneChanged ==
  ASSUME NEW S, IsFiniteSet(S), NEW g, \A i \in S : g[i] \in Nat,
         NEW g2, \A i \in S : g2[i] \in Nat,
         NEW x \in S, \A i \in S \ {x} : g2[i] = g[i]
  PROVE  /\ Total(S, g) \in Nat /\ Total(S, g2) \in Nat
         /\ Total(S, g2) + g[x] = Total(S, g) + g2[x]
<1>1. Units(S \ {x}, g2) = Units(S \ {x}, g)
  BY DEF Units
<1>2. Total(S, g) = g[x] + Total(S \ {x}, g)
  BY OneApart
<1>3. Total(S, g2) = g2[x] + Total(S \ {x}, g2)
  BY OneApart
<1>4. IsFiniteSet(S \ {x})
  BY FS_RemoveElement
<1>5. Total(S \ {x}, g) \in Nat
  BY <1>4, UnitsFinite
<1>6. Total(S \ {x}, g2) = Total(S \ {x}, g)
  BY <1>1 DEF Total
<1>7. g[x] \in Nat /\ g2[x] \in Nat
  OBVIOUS
<1> QED
  BY <1>2, <1>3, <1>5, <1>6, <1>7

LEMMA ZeroAdded ==
  ASSUME NEW S, NEW g, NEW g2, NEW x, \A i \in S : g2[i] = g[i], g2[x] = 0
  PROVE  Total(S \cup {x}, g2) = Total(S, g)
<1>1. Units(S \cup {x}, g2) = Units(S, g)
  BY DEF Units
<1> QED
  BY <1>1 DEF Total

(* The figures of the jobs of s that Snapshot adds up. *)
OperationsAt(s) == [i \in DOMAIN s |-> s[i].operations]
SuccessesAt(s) == [i \in DOMAIN s |-> s[i].operations - s[i].failedOperations]
TokensAt(s) == [i \in DOMAIN s |-> s[i].estimatedTokens]
RequestsAt(s) == [i \in DOMAIN s |-> s[i].traffic.requestBytes]
ResponsesAt(s) == [i \in DOMAIN s |-> s[i].traffic.responseBytes]
RoundTripsAt(s) == [i \in DOMAIN s |-> s[i].traffic.roundTrips]
BytesAt(s) == [i \in DOMAIN s |-> s[i].traffic.totalWireBytes]

(* And their sums, the value JobSum has for each of them. *)
OperationsIn(s) == Total(DOMAIN s, OperationsAt(s))
SuccessesIn(s) == Total(DOMAIN s, SuccessesAt(s))
TokensIn(s) == Total(DOMAIN s, TokensAt(s))
RequestsIn(s) == Total(DOMAIN s, RequestsAt(s))
ResponsesIn(s) == Total(DOMAIN s, ResponsesAt(s))
RoundTripsIn(s) == Total(DOMAIN s, RoundTripsAt(s))
BytesIn(s) == Total(DOMAIN s, BytesAt(s))

NaturalFigures(s) ==
  /\ IsFiniteSet(DOMAIN s)
  /\ \A i \in DOMAIN s :
        /\ OperationsAt(s)[i] \in Nat /\ SuccessesAt(s)[i] \in Nat /\ TokensAt(s)[i] \in Nat
        /\ RequestsAt(s)[i] \in Nat /\ ResponsesAt(s)[i] \in Nat
        /\ RoundTripsAt(s)[i] \in Nat /\ BytesAt(s)[i] \in Nat

NaturalSums(s) ==
  /\ OperationsIn(s) \in Nat /\ SuccessesIn(s) \in Nat /\ TokensIn(s) \in Nat
  /\ RequestsIn(s) \in Nat /\ ResponsesIn(s) \in Nat
  /\ RoundTripsIn(s) \in Nat /\ BytesIn(s) \in Nat

(* The figures are natural numbers, for no job has failed more operations  *)
(* than it counted, and so are their sums.                                 *)
LEMMA FiguresAreNatural ==
  ASSUME NEW s \in Seq(Job), \A i \in DOMAIN s : JobConsistent(s[i])
  PROVE  NaturalFigures(s) /\ NaturalSums(s)
<1>1. IsFiniteSet(DOMAIN s)
  <2>1. DOMAIN s = 1 .. Len(s) /\ Len(s) \in Nat
    OBVIOUS
  <2> QED
    BY <2>1, FS_Interval
<1>2. ASSUME NEW i \in DOMAIN s
      PROVE  /\ OperationsAt(s)[i] \in Nat /\ SuccessesAt(s)[i] \in Nat /\ TokensAt(s)[i] \in Nat
             /\ RequestsAt(s)[i] \in Nat /\ ResponsesAt(s)[i] \in Nat
             /\ RoundTripsAt(s)[i] \in Nat /\ BytesAt(s)[i] \in Nat
  <2>1. s[i] \in Job /\ s[i].failedOperations <= s[i].operations
    BY DEF JobConsistent
  <2>2. s[i].traffic \in Traffic
    BY <2>1 DEF Job
  <2>3. /\ s[i].operations \in Nat /\ s[i].failedOperations \in Nat /\ s[i].estimatedTokens \in Nat
    BY <2>1 DEF Job
  <2>4. s[i].operations - s[i].failedOperations \in Nat
    BY <2>1, <2>3
  <2> QED
    BY <2>2, <2>3, <2>4
       DEF OperationsAt, SuccessesAt, TokensAt, RequestsAt, ResponsesAt, RoundTripsAt, BytesAt, Traffic
<1> QED
  BY <1>1, <1>2, UnitsFinite
     DEF NaturalFigures, NaturalSums, OperationsIn, SuccessesIn, TokensIn, RequestsIn, ResponsesIn,
         RoundTripsIn, BytesIn

(* MapThenSumSet adds up as Total does, one lemma for each figure. *)
LEMMA OperationsSum ==
  JobsOK /\ JobAccounting => JobSum(LAMBDA j : j.operations) = OperationsIn(jobs)
<1> SUFFICES ASSUME JobsOK, JobAccounting
             PROVE  JobSum(LAMBDA j : j.operations) = OperationsIn(jobs)
  OBVIOUS
<1> DEFINE S == DOMAIN jobs
           More(f) == [T \in SUBSET S |->
             IF T = {} THEN 0
             ELSE jobs[CHOOSE x \in T : TRUE].operations
                  + f[T \ {CHOOSE x \in T : TRUE}]]
<1>1. IsFiniteSet(S) /\ \A i \in S : OperationsAt(jobs)[i] \in Nat
  BY FiguresAreNatural DEF NaturalFigures, JobsOK, JobAccounting
<1>2. JobSum(LAMBDA j : j.operations) = (CHOOSE f : f = More(f))[S]
  BY DEF JobSum, MapThenSumSet, MapThenFoldSet
<1>3. \A f : More(f) = Added(S, OperationsAt(jobs), f)
  BY DEF OperationsAt, Added
<1>4. (CHOOSE f : f = More(f)) = CHOOSE f : f = Added(S, OperationsAt(jobs), f)
  <2> HIDE DEF More
  <2> QED
    BY <1>3
<1> HIDE DEF More, S
<1> QED
  BY <1>1, <1>2, <1>4, ChosenSum DEF S, OperationsIn

LEMMA SuccessesSum ==
  JobsOK /\ JobAccounting => JobSum(LAMBDA j : j.operations - j.failedOperations) = SuccessesIn(jobs)
<1> SUFFICES ASSUME JobsOK, JobAccounting
             PROVE  JobSum(LAMBDA j : j.operations - j.failedOperations) = SuccessesIn(jobs)
  OBVIOUS
<1> DEFINE S == DOMAIN jobs
           More(f) == [T \in SUBSET S |->
             IF T = {} THEN 0
             ELSE (jobs[CHOOSE x \in T : TRUE].operations - jobs[CHOOSE x \in T : TRUE].failedOperations)
                  + f[T \ {CHOOSE x \in T : TRUE}]]
<1>1. IsFiniteSet(S) /\ \A i \in S : SuccessesAt(jobs)[i] \in Nat
  BY FiguresAreNatural DEF NaturalFigures, JobsOK, JobAccounting
<1>2. JobSum(LAMBDA j : j.operations - j.failedOperations) = (CHOOSE f : f = More(f))[S]
  BY DEF JobSum, MapThenSumSet, MapThenFoldSet
<1>3. \A f : More(f) = Added(S, SuccessesAt(jobs), f)
  BY DEF SuccessesAt, Added
<1>4. (CHOOSE f : f = More(f)) = CHOOSE f : f = Added(S, SuccessesAt(jobs), f)
  <2> HIDE DEF More
  <2> QED
    BY <1>3
<1> HIDE DEF More, S
<1> QED
  BY <1>1, <1>2, <1>4, ChosenSum DEF S, SuccessesIn

LEMMA TokensSum ==
  JobsOK /\ JobAccounting => JobSum(LAMBDA j : j.estimatedTokens) = TokensIn(jobs)
<1> SUFFICES ASSUME JobsOK, JobAccounting
             PROVE  JobSum(LAMBDA j : j.estimatedTokens) = TokensIn(jobs)
  OBVIOUS
<1> DEFINE S == DOMAIN jobs
           More(f) == [T \in SUBSET S |->
             IF T = {} THEN 0
             ELSE jobs[CHOOSE x \in T : TRUE].estimatedTokens
                  + f[T \ {CHOOSE x \in T : TRUE}]]
<1>1. IsFiniteSet(S) /\ \A i \in S : TokensAt(jobs)[i] \in Nat
  BY FiguresAreNatural DEF NaturalFigures, JobsOK, JobAccounting
<1>2. JobSum(LAMBDA j : j.estimatedTokens) = (CHOOSE f : f = More(f))[S]
  BY DEF JobSum, MapThenSumSet, MapThenFoldSet
<1>3. \A f : More(f) = Added(S, TokensAt(jobs), f)
  BY DEF TokensAt, Added
<1>4. (CHOOSE f : f = More(f)) = CHOOSE f : f = Added(S, TokensAt(jobs), f)
  <2> HIDE DEF More
  <2> QED
    BY <1>3
<1> HIDE DEF More, S
<1> QED
  BY <1>1, <1>2, <1>4, ChosenSum DEF S, TokensIn

LEMMA RequestsSum ==
  JobsOK /\ JobAccounting => JobSum(LAMBDA j : j.traffic.requestBytes) = RequestsIn(jobs)
<1> SUFFICES ASSUME JobsOK, JobAccounting
             PROVE  JobSum(LAMBDA j : j.traffic.requestBytes) = RequestsIn(jobs)
  OBVIOUS
<1> DEFINE S == DOMAIN jobs
           More(f) == [T \in SUBSET S |->
             IF T = {} THEN 0
             ELSE jobs[CHOOSE x \in T : TRUE].traffic.requestBytes
                  + f[T \ {CHOOSE x \in T : TRUE}]]
<1>1. IsFiniteSet(S) /\ \A i \in S : RequestsAt(jobs)[i] \in Nat
  BY FiguresAreNatural DEF NaturalFigures, JobsOK, JobAccounting
<1>2. JobSum(LAMBDA j : j.traffic.requestBytes) = (CHOOSE f : f = More(f))[S]
  BY DEF JobSum, MapThenSumSet, MapThenFoldSet
<1>3. \A f : More(f) = Added(S, RequestsAt(jobs), f)
  BY DEF RequestsAt, Added
<1>4. (CHOOSE f : f = More(f)) = CHOOSE f : f = Added(S, RequestsAt(jobs), f)
  <2> HIDE DEF More
  <2> QED
    BY <1>3
<1> HIDE DEF More, S
<1> QED
  BY <1>1, <1>2, <1>4, ChosenSum DEF S, RequestsIn

LEMMA ResponsesSum ==
  JobsOK /\ JobAccounting => JobSum(LAMBDA j : j.traffic.responseBytes) = ResponsesIn(jobs)
<1> SUFFICES ASSUME JobsOK, JobAccounting
             PROVE  JobSum(LAMBDA j : j.traffic.responseBytes) = ResponsesIn(jobs)
  OBVIOUS
<1> DEFINE S == DOMAIN jobs
           More(f) == [T \in SUBSET S |->
             IF T = {} THEN 0
             ELSE jobs[CHOOSE x \in T : TRUE].traffic.responseBytes
                  + f[T \ {CHOOSE x \in T : TRUE}]]
<1>1. IsFiniteSet(S) /\ \A i \in S : ResponsesAt(jobs)[i] \in Nat
  BY FiguresAreNatural DEF NaturalFigures, JobsOK, JobAccounting
<1>2. JobSum(LAMBDA j : j.traffic.responseBytes) = (CHOOSE f : f = More(f))[S]
  BY DEF JobSum, MapThenSumSet, MapThenFoldSet
<1>3. \A f : More(f) = Added(S, ResponsesAt(jobs), f)
  BY DEF ResponsesAt, Added
<1>4. (CHOOSE f : f = More(f)) = CHOOSE f : f = Added(S, ResponsesAt(jobs), f)
  <2> HIDE DEF More
  <2> QED
    BY <1>3
<1> HIDE DEF More, S
<1> QED
  BY <1>1, <1>2, <1>4, ChosenSum DEF S, ResponsesIn

LEMMA RoundTripsSum ==
  JobsOK /\ JobAccounting => JobSum(LAMBDA j : j.traffic.roundTrips) = RoundTripsIn(jobs)
<1> SUFFICES ASSUME JobsOK, JobAccounting
             PROVE  JobSum(LAMBDA j : j.traffic.roundTrips) = RoundTripsIn(jobs)
  OBVIOUS
<1> DEFINE S == DOMAIN jobs
           More(f) == [T \in SUBSET S |->
             IF T = {} THEN 0
             ELSE jobs[CHOOSE x \in T : TRUE].traffic.roundTrips
                  + f[T \ {CHOOSE x \in T : TRUE}]]
<1>1. IsFiniteSet(S) /\ \A i \in S : RoundTripsAt(jobs)[i] \in Nat
  BY FiguresAreNatural DEF NaturalFigures, JobsOK, JobAccounting
<1>2. JobSum(LAMBDA j : j.traffic.roundTrips) = (CHOOSE f : f = More(f))[S]
  BY DEF JobSum, MapThenSumSet, MapThenFoldSet
<1>3. \A f : More(f) = Added(S, RoundTripsAt(jobs), f)
  BY DEF RoundTripsAt, Added
<1>4. (CHOOSE f : f = More(f)) = CHOOSE f : f = Added(S, RoundTripsAt(jobs), f)
  <2> HIDE DEF More
  <2> QED
    BY <1>3
<1> HIDE DEF More, S
<1> QED
  BY <1>1, <1>2, <1>4, ChosenSum DEF S, RoundTripsIn

LEMMA BytesSum ==
  JobsOK /\ JobAccounting => JobSum(LAMBDA j : j.traffic.totalWireBytes) = BytesIn(jobs)
<1> SUFFICES ASSUME JobsOK, JobAccounting
             PROVE  JobSum(LAMBDA j : j.traffic.totalWireBytes) = BytesIn(jobs)
  OBVIOUS
<1> DEFINE S == DOMAIN jobs
           More(f) == [T \in SUBSET S |->
             IF T = {} THEN 0
             ELSE jobs[CHOOSE x \in T : TRUE].traffic.totalWireBytes
                  + f[T \ {CHOOSE x \in T : TRUE}]]
<1>1. IsFiniteSet(S) /\ \A i \in S : BytesAt(jobs)[i] \in Nat
  BY FiguresAreNatural DEF NaturalFigures, JobsOK, JobAccounting
<1>2. JobSum(LAMBDA j : j.traffic.totalWireBytes) = (CHOOSE f : f = More(f))[S]
  BY DEF JobSum, MapThenSumSet, MapThenFoldSet
<1>3. \A f : More(f) = Added(S, BytesAt(jobs), f)
  BY DEF BytesAt, Added
<1>4. (CHOOSE f : f = More(f)) = CHOOSE f : f = Added(S, BytesAt(jobs), f)
  <2> HIDE DEF More
  <2> QED
    BY <1>3
<1> HIDE DEF More, S
<1> QED
  BY <1>1, <1>2, <1>4, ChosenSum DEF S, BytesIn

-----------------------------------------------------------------------------
(* How the sums change: not at all when the figures of the jobs stay as    *)
(* they are or a new job is begun, by one operation in Observe, by one     *)
(* message in ObserveWire.                                                 *)
SameSums(s, s2) ==
  /\ OperationsIn(s2) = OperationsIn(s) /\ SuccessesIn(s2) = SuccessesIn(s)
  /\ TokensIn(s2) = TokensIn(s)
  /\ RequestsIn(s2) = RequestsIn(s) /\ ResponsesIn(s2) = ResponsesIn(s)
  /\ RoundTripsIn(s2) = RoundTripsIn(s) /\ BytesIn(s2) = BytesIn(s)

LEMMA SumsStay ==
  ASSUME NEW s, NEW s2, DOMAIN s2 = DOMAIN s,
         \A i \in DOMAIN s : /\ s2[i].operations = s[i].operations
                            /\ s2[i].failedOperations = s[i].failedOperations
                            /\ s2[i].traffic = s[i].traffic
                            /\ s2[i].estimatedTokens = s[i].estimatedTokens
  PROVE  SameSums(s, s2)
<1>1. OperationsAt(s2) = OperationsAt(s) /\ SuccessesAt(s2) = SuccessesAt(s)
  BY DEF OperationsAt, SuccessesAt
<1>2. TokensAt(s2) = TokensAt(s)
  BY DEF TokensAt
<1>3. /\ RequestsAt(s2) = RequestsAt(s) /\ ResponsesAt(s2) = ResponsesAt(s)
      /\ RoundTripsAt(s2) = RoundTripsAt(s) /\ BytesAt(s2) = BytesAt(s)
  BY DEF RequestsAt, ResponsesAt, RoundTripsAt, BytesAt
<1> QED
  BY <1>1, <1>2, <1>3
     DEF SameSums, OperationsIn, SuccessesIn, TokensIn, RequestsIn, ResponsesIn, RoundTripsIn, BytesIn

LEMMA NewJobAddsNothing ==
  ASSUME NEW s \in Seq(Job), NEW name
  PROVE  SameSums(s, Append(s, NewJob(name)))
<1> DEFINE s2 == Append(s, NewJob(name))
           x == Len(s) + 1
<1>1. /\ DOMAIN s2 = DOMAIN s \cup {x} /\ x \in DOMAIN s2
      /\ \A i \in DOMAIN s : i \in DOMAIN s2 /\ s2[i] = s[i]
      /\ s2[x] = NewJob(name)
  OBVIOUS
<1>2. LET j == NewJob(name)
      IN  /\ j.operations = 0 /\ j.operations - j.failedOperations = 0 /\ j.estimatedTokens = 0
          /\ j.traffic.requestBytes = 0 /\ j.traffic.responseBytes = 0
          /\ j.traffic.roundTrips = 0 /\ j.traffic.totalWireBytes = 0
  BY DEF NewJob, NoTraffic
<1> HIDE DEF s2, x
<1>3. OperationsIn(s2) = OperationsIn(s)
  BY <1>1, <1>2, ZeroAdded DEF OperationsIn, OperationsAt
<1>4. SuccessesIn(s2) = SuccessesIn(s)
  BY <1>1, <1>2, ZeroAdded DEF SuccessesIn, SuccessesAt
<1>5. TokensIn(s2) = TokensIn(s)
  BY <1>1, <1>2, ZeroAdded DEF TokensIn, TokensAt
<1>6. RequestsIn(s2) = RequestsIn(s)
  BY <1>1, <1>2, ZeroAdded DEF RequestsIn, RequestsAt
<1>7. ResponsesIn(s2) = ResponsesIn(s)
  BY <1>1, <1>2, ZeroAdded DEF ResponsesIn, ResponsesAt
<1>8. RoundTripsIn(s2) = RoundTripsIn(s)
  BY <1>1, <1>2, ZeroAdded DEF RoundTripsIn, RoundTripsAt
<1>9. BytesIn(s2) = BytesIn(s)
  BY <1>1, <1>2, ZeroAdded DEF BytesIn, BytesAt
<1> QED
  BY <1>3, <1>4, <1>5, <1>6, <1>7, <1>8, <1>9 DEF SameSums, s2

(* One job of s gains the figures given, and the others stay as they are.  *)
Gains(s, s2, a, ops, successes, tokens, req, resp, trips, bytes) ==
  /\ {ops, successes, tokens, req, resp, trips, bytes} \subseteq Nat
  /\ a \in DOMAIN s /\ DOMAIN s2 = DOMAIN s
  /\ \A i \in DOMAIN s : i # a => s2[i] = s[i]
  /\ s2[a].operations = s[a].operations + ops
  /\ s2[a].operations - s2[a].failedOperations = s[a].operations - s[a].failedOperations + successes
  /\ s2[a].estimatedTokens = s[a].estimatedTokens + tokens
  /\ s2[a].traffic.requestBytes = s[a].traffic.requestBytes + req
  /\ s2[a].traffic.responseBytes = s[a].traffic.responseBytes + resp
  /\ s2[a].traffic.roundTrips = s[a].traffic.roundTrips + trips
  /\ s2[a].traffic.totalWireBytes = s[a].traffic.totalWireBytes + bytes

LEMMA SumsGain ==
  ASSUME NEW s, NEW s2, NEW a, NEW ops, NEW successes, NEW tokens, NEW req, NEW resp,
         NEW trips, NEW bytes, NaturalFigures(s), NaturalFigures(s2),
         Gains(s, s2, a, ops, successes, tokens, req, resp, trips, bytes)
  PROVE  /\ OperationsIn(s2) = OperationsIn(s) + ops
         /\ SuccessesIn(s2) = SuccessesIn(s) + successes
         /\ TokensIn(s2) = TokensIn(s) + tokens
         /\ RequestsIn(s2) = RequestsIn(s) + req
         /\ ResponsesIn(s2) = ResponsesIn(s) + resp
         /\ RoundTripsIn(s2) = RoundTripsIn(s) + trips
         /\ BytesIn(s2) = BytesIn(s) + bytes
<1> DEFINE S == DOMAIN s
<1>1. IsFiniteSet(S) /\ DOMAIN s2 = S /\ a \in S
  BY DEF NaturalFigures, Gains
<1>3. OperationsIn(s2) = OperationsIn(s) + ops
  <2> DEFINE g == OperationsAt(s)
             g2 == OperationsAt(s2)
  <2>1. \A i \in S \ {a} : g2[i] = g[i]
    BY <1>1 DEF Gains, OperationsAt
  <2>2. ops \in Nat /\ g2[a] = g[a] + ops
    BY <1>1 DEF Gains, OperationsAt
  <2>3. \A i \in S : g[i] \in Nat /\ g2[i] \in Nat
    BY <1>1 DEF NaturalFigures
  <2>4. IsFiniteSet(S) /\ a \in S /\ DOMAIN s2 = S
    BY <1>1
  <2> HIDE DEF S, g, g2
  <2>5. /\ Total(S, g) \in Nat /\ Total(S, g2) \in Nat
        /\ Total(S, g2) + g[a] = Total(S, g) + g2[a]
    BY <2>1, <2>3, <2>4, OneChanged
  <2>6. Total(S, g2) = Total(S, g) + ops
    BY <2>2, <2>3, <2>4, <2>5
  <2> QED
    BY <2>4, <2>6 DEF OperationsIn, S, g, g2
<1>4. SuccessesIn(s2) = SuccessesIn(s) + successes
  <2> DEFINE g == SuccessesAt(s)
             g2 == SuccessesAt(s2)
  <2>1. \A i \in S \ {a} : g2[i] = g[i]
    BY <1>1 DEF Gains, SuccessesAt
  <2>2. successes \in Nat /\ g2[a] = g[a] + successes
    BY <1>1 DEF Gains, SuccessesAt
  <2>3. \A i \in S : g[i] \in Nat /\ g2[i] \in Nat
    BY <1>1 DEF NaturalFigures
  <2>4. IsFiniteSet(S) /\ a \in S /\ DOMAIN s2 = S
    BY <1>1
  <2> HIDE DEF S, g, g2
  <2>5. /\ Total(S, g) \in Nat /\ Total(S, g2) \in Nat
        /\ Total(S, g2) + g[a] = Total(S, g) + g2[a]
    BY <2>1, <2>3, <2>4, OneChanged
  <2>6. Total(S, g2) = Total(S, g) + successes
    BY <2>2, <2>3, <2>4, <2>5
  <2> QED
    BY <2>4, <2>6 DEF SuccessesIn, S, g, g2
<1>5. TokensIn(s2) = TokensIn(s) + tokens
  <2> DEFINE g == TokensAt(s)
             g2 == TokensAt(s2)
  <2>1. \A i \in S \ {a} : g2[i] = g[i]
    BY <1>1 DEF Gains, TokensAt
  <2>2. tokens \in Nat /\ g2[a] = g[a] + tokens
    BY <1>1 DEF Gains, TokensAt
  <2>3. \A i \in S : g[i] \in Nat /\ g2[i] \in Nat
    BY <1>1 DEF NaturalFigures
  <2>4. IsFiniteSet(S) /\ a \in S /\ DOMAIN s2 = S
    BY <1>1
  <2> HIDE DEF S, g, g2
  <2>5. /\ Total(S, g) \in Nat /\ Total(S, g2) \in Nat
        /\ Total(S, g2) + g[a] = Total(S, g) + g2[a]
    BY <2>1, <2>3, <2>4, OneChanged
  <2>6. Total(S, g2) = Total(S, g) + tokens
    BY <2>2, <2>3, <2>4, <2>5
  <2> QED
    BY <2>4, <2>6 DEF TokensIn, S, g, g2
<1>6. RequestsIn(s2) = RequestsIn(s) + req
  <2> DEFINE g == RequestsAt(s)
             g2 == RequestsAt(s2)
  <2>1. \A i \in S \ {a} : g2[i] = g[i]
    BY <1>1 DEF Gains, RequestsAt
  <2>2. req \in Nat /\ g2[a] = g[a] + req
    BY <1>1 DEF Gains, RequestsAt
  <2>3. \A i \in S : g[i] \in Nat /\ g2[i] \in Nat
    BY <1>1 DEF NaturalFigures
  <2>4. IsFiniteSet(S) /\ a \in S /\ DOMAIN s2 = S
    BY <1>1
  <2> HIDE DEF S, g, g2
  <2>5. /\ Total(S, g) \in Nat /\ Total(S, g2) \in Nat
        /\ Total(S, g2) + g[a] = Total(S, g) + g2[a]
    BY <2>1, <2>3, <2>4, OneChanged
  <2>6. Total(S, g2) = Total(S, g) + req
    BY <2>2, <2>3, <2>4, <2>5
  <2> QED
    BY <2>4, <2>6 DEF RequestsIn, S, g, g2
<1>7. ResponsesIn(s2) = ResponsesIn(s) + resp
  <2> DEFINE g == ResponsesAt(s)
             g2 == ResponsesAt(s2)
  <2>1. \A i \in S \ {a} : g2[i] = g[i]
    BY <1>1 DEF Gains, ResponsesAt
  <2>2. resp \in Nat /\ g2[a] = g[a] + resp
    BY <1>1 DEF Gains, ResponsesAt
  <2>3. \A i \in S : g[i] \in Nat /\ g2[i] \in Nat
    BY <1>1 DEF NaturalFigures
  <2>4. IsFiniteSet(S) /\ a \in S /\ DOMAIN s2 = S
    BY <1>1
  <2> HIDE DEF S, g, g2
  <2>5. /\ Total(S, g) \in Nat /\ Total(S, g2) \in Nat
        /\ Total(S, g2) + g[a] = Total(S, g) + g2[a]
    BY <2>1, <2>3, <2>4, OneChanged
  <2>6. Total(S, g2) = Total(S, g) + resp
    BY <2>2, <2>3, <2>4, <2>5
  <2> QED
    BY <2>4, <2>6 DEF ResponsesIn, S, g, g2
<1>8. RoundTripsIn(s2) = RoundTripsIn(s) + trips
  <2> DEFINE g == RoundTripsAt(s)
             g2 == RoundTripsAt(s2)
  <2>1. \A i \in S \ {a} : g2[i] = g[i]
    BY <1>1 DEF Gains, RoundTripsAt
  <2>2. trips \in Nat /\ g2[a] = g[a] + trips
    BY <1>1 DEF Gains, RoundTripsAt
  <2>3. \A i \in S : g[i] \in Nat /\ g2[i] \in Nat
    BY <1>1 DEF NaturalFigures
  <2>4. IsFiniteSet(S) /\ a \in S /\ DOMAIN s2 = S
    BY <1>1
  <2> HIDE DEF S, g, g2
  <2>5. /\ Total(S, g) \in Nat /\ Total(S, g2) \in Nat
        /\ Total(S, g2) + g[a] = Total(S, g) + g2[a]
    BY <2>1, <2>3, <2>4, OneChanged
  <2>6. Total(S, g2) = Total(S, g) + trips
    BY <2>2, <2>3, <2>4, <2>5
  <2> QED
    BY <2>4, <2>6 DEF RoundTripsIn, S, g, g2
<1>9. BytesIn(s2) = BytesIn(s) + bytes
  <2> DEFINE g == BytesAt(s)
             g2 == BytesAt(s2)
  <2>1. \A i \in S \ {a} : g2[i] = g[i]
    BY <1>1 DEF Gains, BytesAt
  <2>2. bytes \in Nat /\ g2[a] = g[a] + bytes
    BY <1>1 DEF Gains, BytesAt
  <2>3. \A i \in S : g[i] \in Nat /\ g2[i] \in Nat
    BY <1>1 DEF NaturalFigures
  <2>4. IsFiniteSet(S) /\ a \in S /\ DOMAIN s2 = S
    BY <1>1
  <2> HIDE DEF S, g, g2
  <2>5. /\ Total(S, g) \in Nat /\ Total(S, g2) \in Nat
        /\ Total(S, g2) + g[a] = Total(S, g) + g2[a]
    BY <2>1, <2>3, <2>4, OneChanged
  <2>6. Total(S, g2) = Total(S, g) + bytes
    BY <2>2, <2>3, <2>4, <2>5
  <2> QED
    BY <2>4, <2>6 DEF BytesIn, S, g, g2
<1> QED
  BY <1>3, <1>4, <1>5, <1>6, <1>7, <1>8, <1>9

(* What counting an operation does to the figures of a job.                *)
LEMMA OperationFigures ==
  ASSUME NEW job \in Job, NEW kind, NEW ok \in BOOLEAN
  PROVE  LET j2 == CountOperation(job, kind, ok)
         IN  /\ j2.operations = job.operations + 1
             /\ j2.operations - j2.failedOperations
                  = job.operations - job.failedOperations + (IF ok THEN 1 ELSE 0)
             /\ j2.traffic = job.traffic /\ j2.estimatedTokens = job.estimatedTokens
<1> DEFINE counted == [job EXCEPT !.operations = @ + 1]
           failed == IF ok THEN counted ELSE [counted EXCEPT !.failedOperations = @ + 1]
           Same(j) == /\ j.operations = job.operations + 1
                      /\ j.failedOperations = job.failedOperations + (IF ok THEN 0 ELSE 1)
                      /\ j.traffic = job.traffic /\ j.estimatedTokens = job.estimatedTokens
<1>1. /\ counted \in Job /\ counted.operations = job.operations + 1
      /\ counted.failedOperations = job.failedOperations
      /\ counted.traffic = job.traffic /\ counted.estimatedTokens = job.estimatedTokens
  BY DEF Job
<1>2. failed \in Job /\ Same(failed)
  <2> HIDE DEF counted
  <2>1. /\ [counted EXCEPT !.failedOperations = @ + 1] \in Job
        /\ [counted EXCEPT !.failedOperations = @ + 1].operations = counted.operations
        /\ [counted EXCEPT !.failedOperations = @ + 1].failedOperations = counted.failedOperations + 1
        /\ [counted EXCEPT !.failedOperations = @ + 1].traffic = counted.traffic
        /\ [counted EXCEPT !.failedOperations = @ + 1].estimatedTokens = counted.estimatedTokens
    BY <1>1 DEF Job
  <2>2. job.failedOperations \in Nat
    BY DEF Job
  <2> QED
    BY <1>1, <2>1, <2>2
<1>3. Same([failed EXCEPT !.maintenanceOperations = @ + 1])
  <2> HIDE DEF failed
  <2> QED
    BY <1>2 DEF Job
<1>4. Same(CountOperation(job, kind, ok))
  <2> HIDE DEF failed, Same
  <2>1. CountOperation(job, kind, ok) = IF kind = "maintenance"
                                        THEN [failed EXCEPT !.maintenanceOperations = @ + 1]
                                        ELSE failed
    BY DEF CountOperation, failed
  <2> QED
    BY <1>2, <1>3, <2>1
<1> DEFINE j2 == CountOperation(job, kind, ok)
<1>5. Same(j2)
  BY <1>4
<1> HIDE DEF j2
<1>6. job.operations \in Nat /\ job.failedOperations \in Nat
  BY DEF Job
<1>7. j2.operations - j2.failedOperations
        = job.operations - job.failedOperations + (IF ok THEN 1 ELSE 0)
  BY <1>5, <1>6
<1> QED
  BY <1>5, <1>7 DEF j2

(* Splitting a text into two never lowers its estimate: each rounds up.    *)
LEMMA EstimateSplits ==
  ASSUME NEW a \in Nat, NEW b \in Nat
  PROVE  EstimateTokens(a + b) <= EstimateTokens(a) + EstimateTokens(b)
<1> DEFINE x == EstimateTokens(a)
           y == EstimateTokens(b)
           z == EstimateTokens(a + b)
<1>1. x \in Nat /\ a <= 4 * x
  BY EstimateRoundsUp
<1>2. y \in Nat /\ b <= 4 * y
  BY EstimateRoundsUp
<1>3. z \in Nat /\ 4 * z <= a + b + 3
  <2>1. a + b \in Nat
    OBVIOUS
  <2> QED
    BY <2>1, EstimateRoundsUp
<1> HIDE DEF x, y, z
<1>4. z <= x + y
  BY <1>1, <1>2, <1>3
<1> QED
  BY <1>4 DEF x, y, z

-----------------------------------------------------------------------------
SucceededAt == {k \in DOMAIN operations : operations[k].success}

(* JobsWithinRun in terms of the sums, and inductive.                      *)
Within ==
  /\ OperationsIn(jobs) <= Len(operations)
  /\ SuccessesIn(jobs) <= Cardinality(SucceededAt)
  /\ RoundTripsIn(jobs) <= overallWire.roundTrips
  /\ BytesIn(jobs) <= overallWire.totalWireBytes
  /\ EstimateTokens(RequestsIn(jobs)) + EstimateTokens(ResponsesIn(jobs)) <= TokensIn(jobs)

(* The steps that count neither an operation nor a message.                *)
LEMMA JobsSameSums ==
  ASSUME JobsOK, NEW name, NEW passed
  PROVE  /\ BeginAgentJob(name) => SameSums(jobs, jobs')
         /\ EndAgentJob(passed) => SameSums(jobs, jobs')
         /\ FailAgentJob(name) => SameSums(jobs, jobs')
<1>1. jobs \in Seq(Job) /\ \A i \in DOMAIN jobs : jobs[i] \in Job
  BY DEF JobsOK
<1>2. ASSUME BeginAgentJob(name) PROVE SameSums(jobs, jobs')
  BY <1>1, <1>2, NewJobAddsNothing DEF BeginAgentJob
<1>3. ASSUME EndAgentJob(passed) PROVE SameSums(jobs, jobs')
  <2>1. /\ DOMAIN jobs' = DOMAIN jobs
        /\ \A i \in DOMAIN jobs :
             jobs'[i] = jobs[i] \/ jobs'[i] = [jobs[i] EXCEPT !.passed = passed]
    BY <1>1, <1>3 DEF EndAgentJob
  <2>2. ASSUME NEW i \in DOMAIN jobs
        PROVE  /\ jobs'[i].operations = jobs[i].operations
               /\ jobs'[i].failedOperations = jobs[i].failedOperations
               /\ jobs'[i].traffic = jobs[i].traffic
               /\ jobs'[i].estimatedTokens = jobs[i].estimatedTokens
    BY <1>1, <2>1 DEF Job
  <2> QED
    BY <2>1, <2>2, SumsStay
<1>4. ASSUME FailAgentJob(name) PROVE SameSums(jobs, jobs')
  <2>1. /\ DOMAIN jobs' = DOMAIN jobs
        /\ \A i \in DOMAIN jobs :
             jobs'[i] = jobs[i] \/ jobs'[i] = [jobs[i] EXCEPT !.passed = FALSE]
    BY <1>1, <1>4 DEF FailAgentJob
  <2>2. ASSUME NEW i \in DOMAIN jobs
        PROVE  /\ jobs'[i].operations = jobs[i].operations
               /\ jobs'[i].failedOperations = jobs[i].failedOperations
               /\ jobs'[i].traffic = jobs[i].traffic
               /\ jobs'[i].estimatedTokens = jobs[i].estimatedTokens
    BY <1>1, <2>1 DEF Job
  <2> QED
    BY <2>1, <2>2, SumsStay
<1> QED
  BY <1>2, <1>3, <1>4

LEMMA WithinKept ==
  ASSUME TypeOK, TypeOK', JobAccounting, JobAccounting', Within, [Next]_vars
  PROVE  Within'
<1>1. /\ jobs \in Seq(Job) /\ jobs' \in Seq(Job) /\ NaturalFigures(jobs) /\ NaturalFigures(jobs')
      /\ NaturalSums(jobs)
  BY FiguresAreNatural DEF TypeOK, JobsOK, JobAccounting
<1>2. /\ operations \in Seq(Operation) /\ Len(operations) \in Nat
      /\ overallWire.roundTrips \in Nat /\ overallWire.totalWireBytes \in Nat
  BY DEF TypeOK, TrafficOK, Traffic
<1>3. IsFiniteSet(SucceededAt) /\ Cardinality(SucceededAt) \in Nat
  <2>1. SucceededAt \subseteq 1 .. Len(operations)
    BY <1>2 DEF SucceededAt
  <2>2. IsFiniteSet(1 .. Len(operations))
    BY <1>2, FS_Interval
  <2> QED
    BY <2>1, <2>2, FS_Subset, FS_CardinalityType
<1>4. ASSUME NEW kind \in OperationKinds, NEW ok \in BOOLEAN, Observe(kind, ok)
      PROVE  Within'
  <2> DEFINE one == IF ok THEN 1 ELSE 0
             last == Len(operations) + 1
  <2>1. /\ operations' = Append(operations, [scenario |-> scenario, success |-> ok])
        /\ overallWire' = overallWire /\ activeJob' = activeJob
    BY <1>4 DEF Observe, wireVars
  <2>2. Len(operations') = Len(operations) + 1
    BY <1>2, <2>1
  <2>3. Cardinality(SucceededAt)' = Cardinality(SucceededAt) + one
    <3>1. SucceededAt' = IF ok THEN SucceededAt \cup {last} ELSE SucceededAt
      BY <1>2, <2>1 DEF SucceededAt
    <3>2. last \notin SucceededAt
      BY <1>2 DEF SucceededAt
    <3> HIDE DEF last
    <3>3. Cardinality(SucceededAt \cup {last}) = Cardinality(SucceededAt) + 1
      BY <1>3, <3>2, FS_AddElement
    <3> QED
      BY <1>3, <3>1, <3>3
  <2>4. CASE activeJob = 0
    <3>1. jobs' = jobs
      BY <1>4, <2>4 DEF Observe
    <3>2. /\ OperationsIn(jobs) <= Len(operations')
          /\ SuccessesIn(jobs) <= Cardinality(SucceededAt)'
      BY <1>1, <1>2, <1>3, <2>2, <2>3 DEF Within, NaturalSums
    <3> QED
      BY <2>1, <3>1, <3>2 DEF Within
  <2>5. CASE activeJob # 0
    <3>1. activeJob \in DOMAIN jobs /\ jobs[activeJob] \in Job
      BY <1>1, <2>5 DEF TypeOK, JobsOK
    <3>2. jobs' = [jobs EXCEPT ![activeJob] = CountOperation(jobs[activeJob], kind, ok)]
      BY <1>4, <2>5 DEF Observe
    <3>3. Gains(jobs, jobs', activeJob, 1, one, 0, 0, 0, 0, 0)
      <4>1. /\ DOMAIN jobs' = DOMAIN jobs
            /\ \A i \in DOMAIN jobs : i # activeJob => jobs'[i] = jobs[i]
            /\ jobs'[activeJob] = CountOperation(jobs[activeJob], kind, ok)
        BY <1>1, <3>1, <3>2
      <4> DEFINE j == jobs[activeJob]
                 j2 == jobs'[activeJob]
      <4>2. /\ j2.operations = j.operations + 1
            /\ j2.operations - j2.failedOperations = j.operations - j.failedOperations + one
            /\ j2.traffic = j.traffic /\ j2.estimatedTokens = j.estimatedTokens
        BY <3>1, <4>1, OperationFigures
      <4>3. j.traffic \in Traffic /\ j.estimatedTokens \in Nat
        BY <3>1 DEF Job
      <4> HIDE DEF j, j2, one
      <4>4. /\ j2.estimatedTokens = j.estimatedTokens + 0
            /\ j2.traffic.requestBytes = j.traffic.requestBytes + 0
            /\ j2.traffic.responseBytes = j.traffic.responseBytes + 0
            /\ j2.traffic.roundTrips = j.traffic.roundTrips + 0
            /\ j2.traffic.totalWireBytes = j.traffic.totalWireBytes + 0
        BY <4>2, <4>3 DEF Traffic
      <4>5. {1, one, 0, 0, 0, 0, 0} \subseteq Nat
        BY DEF one
      <4> QED
        BY <3>1, <4>1, <4>2, <4>4, <4>5 DEF Gains, j, j2
    <3>4. one \in Nat
      OBVIOUS
    <3> HIDE DEF one
    <3>5. /\ OperationsIn(jobs') = OperationsIn(jobs) + 1
          /\ SuccessesIn(jobs') = SuccessesIn(jobs) + one
          /\ TokensIn(jobs') = TokensIn(jobs) + 0
          /\ RequestsIn(jobs') = RequestsIn(jobs) + 0 /\ ResponsesIn(jobs') = ResponsesIn(jobs) + 0
          /\ RoundTripsIn(jobs') = RoundTripsIn(jobs) + 0 /\ BytesIn(jobs') = BytesIn(jobs) + 0
      BY <1>1, <3>3, SumsGain
    <3>6. /\ TokensIn(jobs') = TokensIn(jobs) /\ RequestsIn(jobs') = RequestsIn(jobs)
          /\ ResponsesIn(jobs') = ResponsesIn(jobs) /\ RoundTripsIn(jobs') = RoundTripsIn(jobs)
          /\ BytesIn(jobs') = BytesIn(jobs)
      BY <1>1, <3>5 DEF NaturalSums
    <3>7. /\ OperationsIn(jobs') <= Len(operations')
          /\ SuccessesIn(jobs') <= Cardinality(SucceededAt)'
      BY <1>1, <1>2, <1>3, <2>2, <2>3, <3>4, <3>5 DEF Within, NaturalSums
    <3> QED
      BY <2>1, <3>6, <3>7 DEF Within
  <2> QED
    BY <2>4, <2>5
<1>5. ASSUME NEW req \in Sizes, NEW resp \in Sizes, NEW plaintext \in BOOLEAN,
             ObserveWire(req, resp, plaintext)
      PROVE  Within'
  <2> DEFINE tokens == EstimateTokens(req) + EstimateTokens(resp)
             bytes == req + resp
  <2>1. req \in Nat /\ resp \in Nat
    BY SizesAssumption
  <2>2. /\ operations' = operations
        /\ overallWire'.roundTrips = overallWire.roundTrips + 1
        /\ overallWire'.totalWireBytes = overallWire.totalWireBytes + bytes
    <3>1. operations' = operations /\ overallWire' = AddMessage(overallWire, req, resp)
      BY <1>5 DEF ObserveWire
    <3> QED
      BY <1>2, <2>1, <3>1 DEF AddMessage
  <2>3. EstimateTokens(req) \in Nat /\ EstimateTokens(resp) \in Nat /\ tokens \in Nat /\ bytes \in Nat
    <3>1. EstimateTokens(req) \in Nat /\ EstimateTokens(resp) \in Nat
      BY <2>1, EstimateRoundsUp
    <3> QED
      BY <2>1, <3>1
  <2>4. /\ RoundTripsIn(jobs) \in Nat /\ RoundTripsIn(jobs) <= overallWire.roundTrips
        /\ BytesIn(jobs) \in Nat /\ BytesIn(jobs) <= overallWire.totalWireBytes
    BY <1>1 DEF Within, NaturalSums
  <2> DEFINE trips == overallWire.roundTrips
             trips2 == overallWire'.roundTrips
             total == overallWire.totalWireBytes
             total2 == overallWire'.totalWireBytes
  <2>5. trips \in Nat /\ total \in Nat /\ trips2 = trips + 1 /\ total2 = total + bytes
    BY <1>2, <2>2
  <2>6. RoundTripsIn(jobs) + 1 <= trips2 /\ BytesIn(jobs) + bytes <= total2
    <3> HIDE DEF trips, trips2, total, total2, bytes
    <3>1. RoundTripsIn(jobs) <= trips /\ BytesIn(jobs) <= total
      BY <2>4 DEF trips, total
    <3> QED
      BY <2>3, <2>4, <2>5, <3>1
  <2>7. SucceededAt' = SucceededAt
    BY <2>2 DEF SucceededAt
  <2>8. CASE activeJob = 0
    <3>1. jobs' = jobs
      BY <1>5, <2>8 DEF ObserveWire
    <3> HIDE DEF bytes, trips, trips2, total, total2
    <3>2. RoundTripsIn(jobs) <= trips2 /\ BytesIn(jobs) <= total2
      BY <2>3, <2>4, <2>5, <2>6
    <3> QED
      BY <2>2, <2>7, <3>1, <3>2 DEF Within, trips2, total2
  <2>9. CASE activeJob # 0
    <3>1. activeJob \in DOMAIN jobs /\ jobs[activeJob] \in Job
      BY <1>1, <2>9 DEF TypeOK, JobsOK
    <3>2. jobs' = [jobs EXCEPT ![activeJob] = CountMessage(jobs[activeJob], req, resp)]
      BY <1>5, <2>9 DEF ObserveWire
    <3>3. Gains(jobs, jobs', activeJob, 0, 0, tokens, req, resp, 1, bytes)
      <4>1. /\ DOMAIN jobs' = DOMAIN jobs
            /\ \A i \in DOMAIN jobs : i # activeJob => jobs'[i] = jobs[i]
            /\ jobs'[activeJob] = CountMessage(jobs[activeJob], req, resp)
        BY <1>1, <3>1, <3>2
      <4> DEFINE j == jobs[activeJob]
                 j2 == jobs'[activeJob]
      <4>2. /\ j2.operations = j.operations /\ j2.failedOperations = j.failedOperations
            /\ j2.traffic = AddMessage(j.traffic, req, resp)
            /\ j2.estimatedTokens = j.estimatedTokens + tokens
        BY <2>1, <3>1, <4>1, MessageFigures
      <4>3. /\ j.traffic \in Traffic /\ j.operations \in Nat /\ j.failedOperations \in Nat
        BY <3>1 DEF Job
      <4> HIDE DEF j, j2, tokens
      <4>4. /\ j2.operations = j.operations + 0
            /\ j2.operations - j2.failedOperations = j.operations - j.failedOperations + 0
        BY <4>2, <4>3
      <4>5. /\ j2.traffic.requestBytes = j.traffic.requestBytes + req
            /\ j2.traffic.responseBytes = j.traffic.responseBytes + resp
            /\ j2.traffic.roundTrips = j.traffic.roundTrips + 1
            /\ j2.traffic.totalWireBytes = j.traffic.totalWireBytes + bytes
        BY <2>1, <4>2, <4>3 DEF AddMessage, Traffic
      <4>6. {0, 0, tokens, req, resp, 1, bytes} \subseteq Nat
        BY <2>1, <2>3
      <4> QED
        BY <3>1, <4>1, <4>2, <4>4, <4>5, <4>6 DEF Gains, j, j2
    <3> HIDE DEF tokens, bytes
    <3>4. /\ OperationsIn(jobs') = OperationsIn(jobs) + 0
          /\ SuccessesIn(jobs') = SuccessesIn(jobs) + 0
          /\ TokensIn(jobs') = TokensIn(jobs) + tokens
          /\ RequestsIn(jobs') = RequestsIn(jobs) + req /\ ResponsesIn(jobs') = ResponsesIn(jobs) + resp
          /\ RoundTripsIn(jobs') = RoundTripsIn(jobs) + 1 /\ BytesIn(jobs') = BytesIn(jobs) + bytes
      BY <1>1, <3>3, SumsGain
    <3>5. /\ OperationsIn(jobs') = OperationsIn(jobs) /\ SuccessesIn(jobs') = SuccessesIn(jobs)
      BY <1>1, <3>4 DEF NaturalSums
    <3>6. /\ RoundTripsIn(jobs') <= overallWire'.roundTrips
          /\ BytesIn(jobs') <= overallWire'.totalWireBytes
      BY <2>6, <3>4
    <3>7. EstimateTokens(RequestsIn(jobs')) + EstimateTokens(ResponsesIn(jobs')) <= TokensIn(jobs')
      <4> DEFINE a == EstimateTokens(RequestsIn(jobs))
                 b == EstimateTokens(ResponsesIn(jobs))
                 a2 == EstimateTokens(RequestsIn(jobs'))
                 b2 == EstimateTokens(ResponsesIn(jobs'))
      <4>1. RequestsIn(jobs) \in Nat /\ ResponsesIn(jobs) \in Nat /\ TokensIn(jobs) \in Nat
        BY <1>1 DEF NaturalSums
      <4>2. a \in Nat /\ a2 \in Nat /\ a2 <= a + EstimateTokens(req)
        BY <2>1, <3>4, <4>1, EstimateRoundsUp, EstimateSplits
      <4>3. b \in Nat /\ b2 \in Nat /\ b2 <= b + EstimateTokens(resp)
        BY <2>1, <3>4, <4>1, EstimateRoundsUp, EstimateSplits
      <4>4. a + b <= TokensIn(jobs)
        BY DEF Within
      <4> HIDE DEF a, b, a2, b2
      <4>5. a2 + b2 <= TokensIn(jobs')
        BY <2>3, <3>4, <4>1, <4>2, <4>3, <4>4 DEF tokens
      <4> QED
        BY <4>5 DEF a2, b2
    <3> QED
      BY <2>2, <2>7, <3>5, <3>6, <3>7 DEF Within
  <2> QED
    BY <2>8, <2>9
<1>6. ASSUME SameSums(jobs, jobs'), UNCHANGED <<operations, wireVars>> PROVE Within'
  BY <1>6 DEF SameSums, Within, SucceededAt, wireVars
<1>7. CASE UNCHANGED <<jobs, operations, wireVars>>
  BY <1>7 DEF Within, SucceededAt, wireVars
<1>8. ASSUME NEW name \in JobNames, BeginAgentJob(name) PROVE Within'
  BY <1>6, <1>8, JobsSameSums DEF BeginAgentJob, TypeOK
<1>9. ASSUME NEW passed \in BOOLEAN, EndAgentJob(passed) PROVE Within'
  BY <1>6, <1>9, JobsSameSums DEF EndAgentJob, TypeOK
<1>10. ASSUME NEW name \in JobNames, FailAgentJob(name) PROVE Within'
  BY <1>6, <1>10, JobsSameSums DEF FailAgentJob, TypeOK
<1> QED
  BY <1>4, <1>5, <1>7, <1>8, <1>9, <1>10
     DEF Next, JobStep, ScenarioStep, TrafficStep, GateStep, BeginScenario, EndScenarioStatus,
         SetCategory, AddReliability, AddInvalid, AddResource, jobVars, wireVars, vars

(* In every reachable state the figures of the jobs, added up as Snapshot  *)
(* adds them up, are within those of the run: no operation and no message  *)
(* is counted for two jobs.                                                *)
THEOREM JobsStayWithinRun == Spec => []JobsWithinRun
<1>1. Init => Within
  <2> SUFFICES ASSUME Init PROVE Within
    OBVIOUS
  <2>1. jobs = << >> /\ operations = << >> /\ overallWire = NoTraffic
    BY Zenon DEF Init
  <2>2. \A g : Total(DOMAIN jobs, g) = 0
    BY <2>1, NoTerms
  <2>3. SucceededAt = {}
    BY <2>1 DEF SucceededAt
  <2>4. /\ OperationsIn(jobs) = 0 /\ SuccessesIn(jobs) = 0 /\ TokensIn(jobs) = 0
        /\ RequestsIn(jobs) = 0 /\ ResponsesIn(jobs) = 0
        /\ RoundTripsIn(jobs) = 0 /\ BytesIn(jobs) = 0
    BY <2>2 DEF OperationsIn, SuccessesIn, TokensIn, RequestsIn, ResponsesIn, RoundTripsIn, BytesIn
  <2>5. EstimateTokens(0) = 0
    BY DEF EstimateTokens
  <2>6. Len(operations) = 0 /\ overallWire.roundTrips = 0 /\ overallWire.totalWireBytes = 0
    BY <2>1 DEF NoTraffic
  <2> QED
    BY <2>3, <2>4, <2>5, <2>6, FS_EmptySet DEF Within
<1>2. TypeOK /\ TypeOK' /\ JobAccounting /\ JobAccounting' /\ Within /\ [Next]_vars => Within'
  BY WithinKept
<1>3. TypeOK /\ JobAccounting /\ Within => JobsWithinRun
  <2> SUFFICES ASSUME TypeOK, JobAccounting, Within PROVE JobsWithinRun
    OBVIOUS
  <2>1. JobsOK
    BY DEF TypeOK
  <2>2. JobSum(LAMBDA j : j.operations) <= Len(operations)
    BY <2>1, OperationsSum DEF Within
  <2>3. SuccessfulActions <= Cardinality({k \in DOMAIN operations : operations[k].success})
    BY <2>1, SuccessesSum DEF Within, SuccessfulActions, SucceededAt
  <2>4. JobSum(LAMBDA j : j.traffic.roundTrips) <= overallWire.roundTrips
    BY <2>1, RoundTripsSum DEF Within
  <2>5. JobSum(LAMBDA j : j.traffic.totalWireBytes) <= overallWire.totalWireBytes
    BY <2>1, BytesSum DEF Within
  <2>6. EstimatedInputTokens + EstimatedOutputTokens <= EstimatedTotalTokens
    BY <2>1, RequestsSum, ResponsesSum, TokensSum
       DEF Within, EstimatedInputTokens, EstimatedOutputTokens, EstimatedTotalTokens
  <2> QED
    BY <2>2, <2>3, <2>4, <2>5, <2>6 DEF JobsWithinRun
<1>4. QED
  BY <1>1, <1>2, <1>3, TypeCorrect, JobsConsistent, PTL DEF Spec

=============================================================================
