----------------------------- MODULE Collector -----------------------------
(***************************************************************************)
(* telemetry.Collector: the one object every scenario, writer goroutine,   *)
(* transport observer and the resource sampler report to.  Each exported   *)
(* method runs under c.mu from its first to its last line, so each is one  *)
(* action.  Snapshot is a read-only view of the state and is given as      *)
(* operators (Passed, Efficiency).                                         *)
(*                                                                         *)
(* Left out: wall-clock times, latencies and the percentile summary, error *)
(* texts, the Metrics map and the plaintext probes.  Indices start at 1,   *)
(* so that activeJob = 0 is the code's activeJob = -1.                     *)
(***************************************************************************)
EXTENDS Integers, Sequences, FiniteSets, FiniteSetsExt

CONSTANTS
  JobNames,       \* names passed to BeginAgentJob and FailAgentJob
  ScenarioNames,  \* names passed to BeginScenario
  CategoryNames,  \* names passed to SetCategory
  Sizes,          \* sizes in bytes of a request or of a response
  Deltas,         \* amounts a caller adds to a reliability counter
  MaxResources    \* bound on the resource samples that are told apart

ASSUME SizesAssumption == Sizes \subseteq Nat /\ Deltas \subseteq Int

ASSUME BoundsAssumption == MaxResources \in Nat

VARIABLES
  jobs,           \* score.AgentJobs
  activeJob,      \* index of the job being measured, 0 when there is none
  scenario,       \* name given to BeginScenario last, "" before the first
  scenarioOps,    \* operations observed since then
  scenarios,      \* score.Scenarios
  categories,     \* score.Categories, as a function from the names used
  operations,     \* score.Operations
  wire,           \* score.Wire
  overallWire,    \* running totals over all of wire
  encryptionViolations,
  reliability,    \* the other counters of score.Reliability
  invalidReasons, \* how many reasons make the run invalid
  resources       \* how many resource samples were taken

jobVars == <<jobs, activeJob>>
scenarioVars == <<scenario, scenarioOps, scenarios>>
wireVars == <<wire, overallWire, encryptionViolations>>
vars == <<jobs, activeJob, scenario, scenarioOps, scenarios, categories, operations,
          wire, overallWire, encryptionViolations, reliability, invalidReasons, resources>>

(* Operators whose name has an underscore are faults: variants of the       *)
(* definition they are named for that the checks tell apart from the code.  *)
EstimateTokens_RoundedDown(bytes) == bytes \div 4

(***************************************************************************)
(* The deterministic token estimate of a message: a rounded-up quarter of  *)
(* its size.                                                               *)
(***************************************************************************)
EstimateTokens(bytes) == IF bytes <= 0 THEN 0 ELSE (bytes + 3) \div 4

(* Kinds of operation Observe tells apart by name. *)
OperationKinds == {"plain", "maintenance"}
Statuses == {"passed", "failed", "unsupported"}
ReliabilityCounters ==
  {"messageLoss", "orderingViolations", "failedResumes", "accessControlViolations"}

NoTraffic == [roundTrips |-> 0, requestBytes |-> 0, responseBytes |-> 0, totalWireBytes |-> 0]

NewJob(name) ==
  [name |-> name, passed |-> FALSE, operations |-> 0, failedOperations |-> 0,
   maintenanceOperations |-> 0, traffic |-> NoTraffic, estimatedTokens |-> 0]

Init ==
  /\ jobs = << >> /\ activeJob = 0
  /\ scenario = "" /\ scenarioOps = 0 /\ scenarios = << >>
  /\ categories = [n \in {} |-> 0]
  /\ operations = << >>
  /\ wire = << >>
  /\ overallWire = NoTraffic
  /\ encryptionViolations = 0 /\ reliability = [c \in ReliabilityCounters |-> 0]
  /\ invalidReasons = 0 /\ resources = 0

-----------------------------------------------------------------------------
(* Agent jobs. *)

BeginAgentJob(name) ==
  /\ jobs' = Append(jobs, NewJob(name))
  /\ activeJob' = Len(jobs) + 1
  /\ UNCHANGED <<scenarioVars, categories, operations, wireVars, reliability, invalidReasons, resources>>

(* A second EndAgentJob finds no active job and changes nothing. *)
EndAgentJob(passed) ==
  /\ jobs' = IF activeJob = 0 THEN jobs ELSE [jobs EXCEPT ![activeJob].passed = passed]
  /\ activeJob' = 0
  /\ UNCHANGED <<scenarioVars, categories, operations, wireVars, reliability, invalidReasons, resources>>

(* The most recent job of that name is the one that fails. *)
FailAgentJob(name) ==
  LET named == {i \in DOMAIN jobs : jobs[i].name = name}
  IN  /\ jobs' = [i \in DOMAIN jobs |->
                    IF i \in named /\ \A k \in named : k <= i
                    THEN [jobs[i] EXCEPT !.passed = FALSE] ELSE jobs[i]]
      /\ UNCHANGED <<activeJob, scenarioVars, categories, operations, wireVars,
                     reliability, invalidReasons, resources>>

-----------------------------------------------------------------------------
(* Scenarios and the category gates. *)

BeginScenario_KeepsCount(name) ==
  /\ scenario' = name
  /\ UNCHANGED <<scenarioOps, jobVars, scenarios, categories, operations, wireVars, reliability,
                 invalidReasons, resources>>

BeginScenario(name) ==
  /\ scenario' = name
  /\ scenarioOps' = 0
  /\ UNCHANGED <<jobVars, scenarios, categories, operations, wireVars, reliability,
                 invalidReasons, resources>>

EndScenarioStatus_Replaces(status, hard) ==
  /\ scenarios' = Append(SelectSeq(scenarios, LAMBDA s : s.name # scenario),
                    [name |-> scenario, status |-> status, passed |-> status = "passed",
                     hardGate |-> hard, operations |-> scenarioOps])
  /\ UNCHANGED <<jobVars, scenario, scenarioOps, categories, operations, wireVars,
                 reliability, invalidReasons, resources>>

EndScenarioStatus(status, hard) ==
  /\ scenarios' = Append(scenarios,
                    [name |-> scenario, status |-> status, passed |-> status = "passed",
                     hardGate |-> hard, operations |-> scenarioOps])
  /\ UNCHANGED <<jobVars, scenario, scenarioOps, categories, operations, wireVars,
                 reliability, invalidReasons, resources>>

(* What a further result makes of a category that was set before: failure  *)
(* and hardness stick, and a failure takes the score down to zero.         *)
Merge(c, passed, hard, score) ==
  [passed   |-> c.passed /\ passed,
   hardGate |-> c.hardGate \/ hard,
   score    |-> IF ~passed THEN 0
                ELSE IF c.passed /\ score > c.score THEN score ELSE c.score]

SetCategory(name, passed, hard, score) ==
  LET fresh == [passed |-> passed, hardGate |-> hard, score |-> score]
  IN  /\ categories' = [n \in DOMAIN categories \cup {name} |->
            IF n # name THEN categories[n]
            ELSE IF name \in DOMAIN categories THEN Merge(categories[name], passed, hard, score)
            ELSE fresh]
      /\ UNCHANGED <<jobVars, scenarioVars, operations, wireVars, reliability,
                     invalidReasons, resources>>

-----------------------------------------------------------------------------
(* Traffic.  What an operation and a message add to the job being measured, *)
(* if any, and then the methods that record them.  Every caller passes ""   *)
(* as Observe's scenario argument, which keeps the current scenario's name. *)

CountOperation_MaintenanceFirst(job, kind, ok) ==
  LET counted == [job EXCEPT !.operations = @ + 1]
  IN  IF kind = "maintenance" THEN [counted EXCEPT !.maintenanceOperations = @ + 1]
      ELSE IF ok THEN counted ELSE [counted EXCEPT !.failedOperations = @ + 1]

CountOperation(job, kind, ok) ==
  LET counted == [job EXCEPT !.operations = @ + 1]
      failed  == IF ok THEN counted ELSE [counted EXCEPT !.failedOperations = @ + 1]
  IN  IF kind = "maintenance" THEN [failed EXCEPT !.maintenanceOperations = @ + 1] ELSE failed

AddMessage(t, req, resp) ==
  [roundTrips     |-> t.roundTrips + 1,
   requestBytes   |-> t.requestBytes + req,
   responseBytes  |-> t.responseBytes + resp,
   totalWireBytes |-> t.totalWireBytes + req + resp]

CountMessage(job, req, resp) ==
  LET counted == [job EXCEPT !.traffic = AddMessage(@, req, resp)]
  IN  [counted EXCEPT !.estimatedTokens = @ + EstimateTokens(req) + EstimateTokens(resp)]

Observe(kind, ok) ==
  /\ scenarioOps' = scenarioOps + 1
  /\ operations' = Append(operations, [scenario |-> scenario, success |-> ok])
  /\ jobs' = IF activeJob = 0 THEN jobs
             ELSE [jobs EXCEPT ![activeJob] = CountOperation(@, kind, ok)]
  /\ UNCHANGED <<activeJob, scenario, scenarios, categories, wireVars, reliability,
                 invalidReasons, resources>>

ObserveWire_LastJob(req, resp, plaintext) ==
  /\ wire' = Append(wire, [requestBytes |-> req, responseBytes |-> resp, plaintextDetected |-> plaintext])
  /\ overallWire' = AddMessage(overallWire, req, resp)
  /\ jobs' = [i \in DOMAIN jobs |-> IF i = Len(jobs) THEN CountMessage(jobs[i], req, resp) ELSE jobs[i]]
  /\ encryptionViolations' = encryptionViolations + (IF plaintext THEN 1 ELSE 0)
  /\ invalidReasons' = invalidReasons + (IF plaintext THEN 1 ELSE 0)
  /\ UNCHANGED <<activeJob, scenarioVars, categories, operations, reliability, resources>>

ObserveWire(req, resp, plaintext) ==
  /\ wire' = Append(wire, [requestBytes |-> req, responseBytes |-> resp, plaintextDetected |-> plaintext])
  /\ overallWire' = AddMessage(overallWire, req, resp)
  /\ jobs' = IF activeJob = 0 THEN jobs
             ELSE [jobs EXCEPT ![activeJob] = CountMessage(@, req, resp)]
  /\ encryptionViolations' = encryptionViolations + (IF plaintext THEN 1 ELSE 0)
  /\ invalidReasons' = invalidReasons + (IF plaintext THEN 1 ELSE 0)
  /\ UNCHANGED <<activeJob, scenarioVars, categories, operations, reliability, resources>>

-----------------------------------------------------------------------------
(* The remaining gates and samples.  The counters record violations and do *)
(* not decide the verdict: the scenario that adds to one has to fail.  An   *)
(* amount can be negative, for MessageLoss is what was expected less what   *)
(* was found.                                                              *)

AddReliability(counter, delta) ==
  /\ reliability' = [reliability EXCEPT ![counter] = @ + delta]
  /\ UNCHANGED <<jobVars, scenarioVars, categories, operations, wireVars, invalidReasons, resources>>

AddInvalid ==
  /\ invalidReasons' = invalidReasons + 1
  /\ UNCHANGED <<jobVars, scenarioVars, categories, operations, wireVars, reliability, resources>>

(* No more than MaxResources samples are told apart. *)
AddResource ==
  /\ resources' = IF resources < MaxResources THEN resources + 1 ELSE resources
  /\ UNCHANGED <<jobVars, scenarioVars, categories, operations, wireVars, reliability, invalidReasons>>

-----------------------------------------------------------------------------
(* Snapshot: the verdict and the sums over the agent jobs. *)

BlockingScenario(s) == ~s.passed /\ (s.status # "unsupported" \/ s.hardGate)

Passed ==
  /\ invalidReasons = 0
  /\ \A i \in DOMAIN scenarios : ~BlockingScenario(scenarios[i])

JobSum(value(_)) == MapThenSumSet(LAMBDA i : value(jobs[i]), DOMAIN jobs)

SuccessfulActions == JobSum(LAMBDA j : j.operations - j.failedOperations)
EstimatedTotalTokens == JobSum(LAMBDA j : j.estimatedTokens)
EstimatedInputTokens == EstimateTokens(JobSum(LAMBDA j : j.traffic.requestBytes))
EstimatedOutputTokens == EstimateTokens(JobSum(LAMBDA j : j.traffic.responseBytes))

-----------------------------------------------------------------------------
(* Every sequence of calls, of any length.  A category's score is the one  *)
(* runScenario gives it: 100 when the scenario passed and 0 otherwise.     *)

ScoreOf(passed) == IF passed THEN 100 ELSE 0

JobStep ==
  \/ \E name \in JobNames : BeginAgentJob(name)
  \/ \E passed \in BOOLEAN : EndAgentJob(passed)
  \/ \E name \in JobNames : FailAgentJob(name)

ScenarioStep ==
  \/ \E name \in ScenarioNames : BeginScenario(name)
  \/ \E status \in Statuses, hard \in BOOLEAN : EndScenarioStatus(status, hard)
  \/ \E name \in CategoryNames, passed, hard \in BOOLEAN :
        SetCategory(name, passed, hard, ScoreOf(passed))

TrafficStep ==
  \/ \E kind \in OperationKinds, ok \in BOOLEAN : Observe(kind, ok)
  \/ \E req, resp \in Sizes, plaintext \in BOOLEAN : ObserveWire(req, resp, plaintext)

GateStep ==
  \/ \E counter \in ReliabilityCounters, delta \in Deltas : AddReliability(counter, delta)
  \/ AddInvalid
  \/ AddResource

Next == JobStep \/ ScenarioStep \/ TrafficStep \/ GateStep

Spec == Init /\ [][Next]_vars

-----------------------------------------------------------------------------
(* Correctness. *)

Traffic == [roundTrips : Nat, requestBytes : Nat, responseBytes : Nat, totalWireBytes : Nat]

(* The names c.scenario can hold. *)
ScenarioTags == ScenarioNames \cup {""}

Job ==
  [name : JobNames, passed : BOOLEAN, operations : Nat, failedOperations : Nat,
   maintenanceOperations : Nat, traffic : Traffic, estimatedTokens : Nat]

Scenario ==
  [name : ScenarioTags, status : Statuses, passed : BOOLEAN, hardGate : BOOLEAN, operations : Nat]

Operation == [scenario : ScenarioTags, success : BOOLEAN]
WireSample == [requestBytes : Sizes, responseBytes : Sizes, plaintextDetected : BOOLEAN]

Category == [passed : BOOLEAN, hardGate : BOOLEAN, score : Nat]

(* The job being measured, when there is one, is the last one begun:       *)
(* EndAgentJob and the traffic counters index score.AgentJobs by activeJob *)
(* without a check.                                                        *)
JobsOK ==
  /\ jobs \in Seq(Job)
  /\ activeJob \in Nat /\ (activeJob # 0 => activeJob = Len(jobs))

ScenariosOK ==
  /\ scenario \in ScenarioTags /\ scenarioOps \in Nat
  /\ scenarios \in Seq(Scenario)

CategoriesOK ==
  /\ DOMAIN categories \subseteq CategoryNames
  /\ categories \in [DOMAIN categories -> Category]

TrafficOK ==
  /\ operations \in Seq(Operation)
  /\ wire \in Seq(WireSample)
  /\ overallWire \in Traffic

GatesOK ==
  /\ encryptionViolations \in Nat /\ reliability \in [ReliabilityCounters -> Int]
  /\ invalidReasons \in Nat /\ resources \in Nat

(* The collector's state is well typed. *)
TypeOK == JobsOK /\ ScenariosOK /\ CategoriesOK /\ TrafficOK /\ GatesOK

(* A category is worth 100 exactly when every scenario reported for it     *)
(* passed, and nothing otherwise, whatever the order of the reports:       *)
(* "all-or-nothing gates" of the README, SetCategory in telemetry.go.      *)
CategoryGate ==
  \A n \in DOMAIN categories : categories[n].score = ScoreOf(categories[n].passed)

(* Once a category has failed, no later report brings it back, and a hard  *)
(* gate never becomes a soft one.                                          *)
CategoryFailureSticks ==
  [][\A n \in DOMAIN categories :
       /\ n \in DOMAIN categories'
       /\ ~categories[n].passed => ~categories'[n].passed
       /\ categories[n].hardGate => categories'[n].hardGate]_vars

(* A snapshot that does not pass is never followed by one that does, so    *)
(* the scorecard main writes after Run cannot be better than Run's own.    *)
VerdictNeverRecovers == [][~Passed => ~Passed']_vars

(* Each plaintext message is counted once as an encryption violation, and  *)
(* one of them is enough to fail the run.                                  *)
EncryptionGate ==
  /\ encryptionViolations = Cardinality({i \in DOMAIN wire : wire[i].plaintextDetected})
  /\ encryptionViolations > 0 => ~Passed

(* The counters of a job describe the traffic seen while it was active: a  *)
(* job that is not being measured keeps every counter (verification reads  *)
(* "do not inflate its efficiency data"), and may only go from passed to   *)
(* failed.                                                                 *)
EndedJobFrozen ==
  [][\A i \in DOMAIN jobs : i # activeJob =>
       /\ i \in DOMAIN jobs'
       /\ jobs'[i] = [jobs[i] EXCEPT !.passed = jobs'[i].passed]
       /\ jobs'[i].passed => jobs[i].passed]_vars

(* What one job reports about itself is consistent: failed and maintenance *)
(* operations are among its operations, the total is the sum of both       *)
(* directions, and the per-message rounding of the token estimate costs    *)
(* less than one token per direction of a round trip.                      *)
JobConsistent(j) ==
  /\ j.failedOperations <= j.operations /\ j.maintenanceOperations <= j.operations
  /\ j.traffic.totalWireBytes = j.traffic.requestBytes + j.traffic.responseBytes
  /\ j.traffic.totalWireBytes <= 4 * j.estimatedTokens
  /\ 4 * j.estimatedTokens <= j.traffic.totalWireBytes + 6 * j.traffic.roundTrips

JobAccounting == \A i \in DOMAIN jobs : JobConsistent(jobs[i])

(* The jobs together never report more than the whole run saw: every       *)
(* operation and every message is counted in at most one job, and the      *)
(* estimate of the whole is at least the estimates of the two directions.  *)
JobsWithinRun ==
  /\ JobSum(LAMBDA j : j.operations) <= Len(operations)
  /\ SuccessfulActions <= Cardinality({k \in DOMAIN operations : operations[k].success})
  /\ JobSum(LAMBDA j : j.traffic.roundTrips) <= overallWire.roundTrips
  /\ JobSum(LAMBDA j : j.traffic.totalWireBytes) <= overallWire.totalWireBytes
  /\ EstimatedInputTokens + EstimatedOutputTokens <= EstimatedTotalTokens

=============================================================================
