-------------------------------- MODULE Run --------------------------------
(***************************************************************************)
(* One benchmark run: main, Harness.Run and runScenario with the resource  *)
(* sampler's goroutine, all reporting to one collector.  Every step calls  *)
(* the collector at most once, so a run is a behaviour of Collector        *)
(* (CollectorUsedAsSpecified).                                             *)
(*                                                                         *)
(* What a scenario's function does is reduced to what the rest of the run  *)
(* sees of it: calls and messages, the agent job it measures, the counters *)
(* it raises, the fixtures it leaves behind and whether it returns errors. *)
(***************************************************************************)
EXTENDS Integers, Sequences, FiniteSets, FiniteSetsExt, Catalogue, Scoring

CONSTANTS
  Settings,         \* what a run is started with, see SettingsAssumption
  Sizes, Deltas, Latencies, MaxResources

(* The flags --profile, which may not name a profile, and --require-v2;    *)
(* the capabilities of the client under test; whether there are a UI URL   *)
(* and a browser driver; whether the caller may cancel Run's context; and  *)
(* bounds on the calls and messages of the run and on how many of its      *)
(* scenarios fail.                                                         *)
ASSUME SettingsAssumption ==
  \A s \in Settings :
    /\ s.flag \in BOOLEAN /\ s.capabilities \subseteq Capabilities
    /\ s.driver \in BOOLEAN /\ s.cancellable \in BOOLEAN
    /\ {s.calls, s.messages, s.failures} \subseteq Nat

ASSUME SamplesAssumption ==
  Sizes \subseteq Nat /\ Deltas \subseteq Int /\ MaxResources \in Nat

VARIABLES
  jobs, activeJob, scenario, scenarioOps, scenarios, categories, operations, wire,
  overallWire, encryptionViolations, reliability, invalidReasons, resources,
  config,           \* the Config, with the rest of the setting
  pc,               \* where Run and main are
  position,         \* index of the current scenario in the table, 0 before the loop
  outcome,          \* status the scenario (or setup) is bound to have, "" while open
  fixtures,         \* fields of the Harness set so far
  firstCollaboration, \* Metrics["time_to_first_collaboration_ms"], 0 when absent
  efficiencyScore,
  sampler, stop, cancelled, \* the goroutine, whether stop is closed, whether ctx is done
  returned, file,   \* the scorecard Run returned, and the one WriteJSON wrote
  exitCode          \* -1 while the program runs

JobNames == {"one-shot-declarative-bootstrap", "address-to-first-collaboration"}

C == INSTANCE Collector WITH ScenarioNames <- Names, CategoryNames <- Categories

collectorVars ==
  <<jobs, activeJob, scenario, scenarioOps, scenarios, categories, operations, wire,
    overallWire, encryptionViolations, reliability, invalidReasons, resources>>
mainVars == <<pc, position, outcome, fixtures, firstCollaboration, efficiencyScore>>
samplerVars == <<sampler, stop, cancelled>>
outputVars == <<returned, file, exitCode>>
vars == <<collectorVars, config, mainVars, samplerVars, outputVars>>

NoCard == [passed |-> FALSE, resources |-> 0, efficiencyScore |-> 0]

(* Collector.Snapshot, without the parts that both snapshots always share. *)
Snapshot == [passed |-> C!Passed, resources |-> resources, efficiencyScore |-> efficiencyScore]

(* What EfficiencyScore reads of a snapshot.                               *)
Card ==
  [passed |-> C!Passed, reliability |-> reliability,
   encryptionViolations |-> encryptionViolations,
   successfulActions |-> C!SuccessfulActions,
   operations |-> C!JobSum(LAMBDA j : j.operations),
   roundTrips |-> C!JobSum(LAMBDA j : j.traffic.roundTrips),
   estimatedTotalTokens |-> C!EstimatedTotalTokens,
   firstCollaboration |-> firstCollaboration]

Known == config.profile \in DOMAIN Profile
RequireV2 == config.flag \/ (Known /\ Profile[config.profile].requiresV2)

(* The loop skips the scenarios whose category the profile does not allow: *)
(* the index of the first one after k that it runs, or of none.            *)
Planned == {i \in DOMAIN Scenarios : Allows(config.profile, Scenarios[i].category)}
After(k) == Min({i \in Planned : i > k} \cup {Len(Scenarios) + 1})

Current == Scenarios[position]
Supported == Current.requires \subseteq config.capabilities

Init ==
  /\ C!Init
  /\ config \in Settings
  /\ pc = "start" /\ position = 0 /\ outcome = "" /\ fixtures = {}
  /\ firstCollaboration = 0 /\ efficiencyScore = 0
  /\ sampler = "off" /\ stop = FALSE /\ cancelled = FALSE
  /\ returned = NoCard /\ file = NoCard /\ exitCode = -1

-----------------------------------------------------------------------------
(* Run up to its loop.                                                     *)

Goto(label) == pc' = label

UnknownProfile ==
  /\ pc = "start" /\ ~Known
  /\ C!AddInvalid /\ Goto("return")
  /\ UNCHANGED <<config, position, outcome, fixtures, firstCollaboration, efficiencyScore,
                 samplerVars, outputVars>>

Setup ==
  /\ pc = "start" /\ Known
  /\ Goto("setup")
  /\ UNCHANGED <<collectorVars, config, position, outcome, fixtures, firstCollaboration,
                 efficiencyScore, samplerVars, outputVars>>

(* One call of setup; the first error ends it.                             *)
SetupCall(ok) ==
  /\ pc = "setup" /\ outcome = "" /\ Len(operations) < config.calls
  /\ C!Observe("plain", ok)
  /\ outcome' = IF ok THEN "" ELSE "failed"
  /\ UNCHANGED <<config, pc, position, fixtures, firstCollaboration, efficiencyScore,
                 samplerVars, outputVars>>

(* A call failed, or the factory could not make a client.                  *)
SetupFails ==
  /\ pc = "setup"
  /\ C!AddInvalid /\ Goto("return")
  /\ UNCHANGED <<config, position, outcome, fixtures, firstCollaboration, efficiencyScore,
                 samplerVars, outputVars>>

(* setup is done; startResourceSampler takes a sample and starts the       *)
(* goroutine.                                                              *)
StartSampler ==
  /\ pc = "setup" /\ outcome = ""
  /\ C!AddResource
  /\ sampler' = "select" /\ Goto("loop") /\ position' = After(0)
  /\ UNCHANGED <<config, outcome, fixtures, firstCollaboration, efficiencyScore, stop, cancelled,
                 outputVars>>

-----------------------------------------------------------------------------
(* The loop, runScenario, and what the scenarios do.                       *)

RefusesBrowser == Current.name = "browser_human_ui" /\ ~config.driver

NoBrowser ==
  /\ pc = "loop" /\ position \in DOMAIN Scenarios /\ RefusesBrowser
  /\ C!AddInvalid /\ Goto("refuse")
  /\ UNCHANGED <<config, position, outcome, fixtures, firstCollaboration, efficiencyScore,
                 samplerVars, outputVars>>

(* Without a browser the function that runs returns an error at once.      *)
BeginScenario ==
  /\ position \in DOMAIN Scenarios
  /\ pc = IF RefusesBrowser THEN "refuse" ELSE "loop"
  /\ C!BeginScenario(Current.name) /\ Goto("body")
  /\ outcome' = IF RefusesBrowser THEN "failed" ELSE ""
  /\ UNCHANGED <<config, position, fixtures, firstCollaboration, efficiencyScore, samplerVars,
                 outputVars>>

Measured == Current.name = "agent_efficiency_jobs"
Declarative == Current.name = "declarative_batch"
Begun(name) == \E i \in DOMAIN jobs : jobs[i].name = name
Job == IF Measured THEN "address-to-first-collaboration" ELSE "one-shot-declarative-bootstrap"

(* The scenario's function is running: it has checked the capabilities it  *)
(* needs, and agentEfficiencyScenario has begun its job before that.       *)
Running == pc = "body" /\ outcome = "" /\ Supported /\ (Measured => Begun(Job))

BodyCall(kind, ok) ==
  /\ Running /\ Len(operations) < config.calls
  /\ C!Observe(kind, ok)
  /\ UNCHANGED <<config, mainVars, samplerVars, outputVars>>

(* The transport observer reports a message of setup or of a scenario.     *)
Message(req, resp, plaintext) ==
  /\ outcome = "" /\ (pc = "setup" \/ Running) /\ Len(wire) < config.messages
  /\ C!ObserveWire(req, resp, plaintext)
  /\ UNCHANGED <<config, mainVars, samplerVars, outputVars>>

BeginJob ==
  /\ pc = "body" /\ outcome = "" /\ (Measured \/ (Declarative /\ Supported)) /\ ~Begun(Job)
  /\ C!BeginAgentJob(Job)
  /\ UNCHANGED <<config, mainVars, samplerVars, outputVars>>

SetFixture(f) ==
  /\ Running /\ f \in Current.writes
  /\ fixtures' = fixtures \cup {f}
  /\ UNCHANGED <<collectorVars, config, pc, position, outcome, firstCollaboration, efficiencyScore,
                 samplerVars, outputVars>>

MayFail == Cardinality({i \in DOMAIN scenarios : scenarios[i].status = "failed"}) < config.failures

Close(status) ==
  /\ outcome' = status
  /\ UNCHANGED <<config, pc, position, fixtures, efficiencyScore, samplerVars, outputVars>>

(* Operators whose name has an underscore are faults: variants of the       *)
(* definition they are named for that the checks tell apart from the code.  *)
RaiseViolation_Continues(counter, delta) ==
  /\ Running /\ MayFail /\ counter \in Raises(Current.name)
  /\ counter # "messageLoss" => delta = 1
  /\ C!AddReliability(counter, delta)
  /\ Close("") /\ UNCHANGED firstCollaboration

(* A gate of the scenario is broken: it adds to a counter and returns an   *)
(* error.                                                                  *)
RaiseViolation(counter, delta) ==
  /\ Running /\ MayFail /\ counter \in Raises(Current.name)
  /\ counter # "messageLoss" => delta = 1
  /\ C!AddReliability(counter, delta)
  /\ Close("failed") /\ UNCHANGED firstCollaboration

(* declarativeScenario measures two ApplyManifest calls.  Both are done,   *)
(* or one of them failed;                                                  *)
EndManifestJob(ok) ==
  /\ Running /\ Declarative /\ activeJob # 0 /\ (ok \/ MayFail)
  /\ C!EndAgentJob(ok)
  /\ Close(IF ok THEN "" ELSE "failed") /\ UNCHANGED firstCollaboration

(* or the state they left behind is not the one the manifest describes.    *)
FailManifestJob ==
  /\ Running /\ Declarative /\ Begun(Job) /\ activeJob = 0 /\ MayFail
  /\ C!FailAgentJob(Job)
  /\ Close("failed") /\ UNCHANGED firstCollaboration

(* The client lacks a capability.                                          *)
Unsupported ==
  /\ pc = "body" /\ outcome = "" /\ ~Supported /\ (Measured => Begun(Job))
  /\ Close("unsupported") /\ UNCHANGED <<collectorVars, firstCollaboration>>

Fail ==
  /\ MayFail
  /\ \/ Running /\ ~(Declarative /\ activeJob # 0)
     \/ pc = "body" /\ outcome = "" /\ Measured /\ Begun(Job) \* the factory failed
  /\ Close("failed") /\ UNCHANGED <<collectorVars, firstCollaboration>>

Pass(latency) ==
  /\ Running /\ Current.writes \subseteq fixtures
  /\ Declarative => Begun(Job) /\ activeJob = 0
  /\ firstCollaboration' = IF Measured THEN latency ELSE firstCollaboration
  /\ Close("passed") /\ UNCHANGED collectorVars

EndMeasuredJob_AlwaysPasses ==
  /\ pc = "body" /\ outcome # "" /\ Measured /\ activeJob # 0
  /\ C!EndAgentJob(TRUE)
  /\ UNCHANGED <<config, mainVars, samplerVars, outputVars>>

(* agentEfficiencyScenario's deferred EndAgentJob.                         *)
EndMeasuredJob ==
  /\ pc = "body" /\ outcome # "" /\ Measured /\ activeJob # 0
  /\ C!EndAgentJob(outcome = "passed")
  /\ UNCHANGED <<config, mainVars, samplerVars, outputVars>>

Judge_Early ==
  /\ pc = "body" /\ ~(Measured /\ activeJob # 0)
  /\ IF outcome = "unsupported" /\ Current.hard /\ RequireV2
     THEN C!AddInvalid ELSE UNCHANGED collectorVars
  /\ Goto("end")
  /\ UNCHANGED <<config, position, outcome, fixtures, firstCollaboration, efficiencyScore,
                 samplerVars, outputVars>>

Judge ==
  /\ pc = "body" /\ outcome # "" /\ ~(Measured /\ activeJob # 0)
  /\ IF outcome = "unsupported" /\ Current.hard /\ RequireV2
     THEN C!AddInvalid ELSE UNCHANGED collectorVars
  /\ Goto("end")
  /\ UNCHANGED <<config, position, outcome, fixtures, firstCollaboration, efficiencyScore,
                 samplerVars, outputVars>>

EndScenario ==
  /\ pc = "end"
  /\ C!EndScenarioStatus(outcome, Current.hard) /\ Goto("category")
  /\ UNCHANGED <<config, position, outcome, fixtures, firstCollaboration, efficiencyScore,
                 samplerVars, outputVars>>

SetCategory_UnsupportedPasses ==
  /\ pc = "category"
  /\ C!SetCategory(Current.category, outcome # "failed", Current.hard, C!ScoreOf(outcome # "failed"))
  /\ Goto("loop") /\ position' = After(position)
  /\ UNCHANGED <<config, outcome, fixtures, firstCollaboration, efficiencyScore, samplerVars,
                 outputVars>>

SetCategory ==
  /\ pc = "category"
  /\ C!SetCategory(Current.category, outcome = "passed", Current.hard, C!ScoreOf(outcome = "passed"))
  /\ Goto("loop") /\ position' = After(position)
  /\ UNCHANGED <<config, outcome, fixtures, firstCollaboration, efficiencyScore, samplerVars,
                 outputVars>>

-----------------------------------------------------------------------------
(* The end of Run, and main.                                               *)

Score ==
  /\ pc = "loop" /\ position \notin DOMAIN Scenarios
  /\ efficiencyScore' = EfficiencyScore(Card) /\ Goto("return")
  /\ UNCHANGED <<collectorVars, config, position, outcome, fixtures, firstCollaboration,
                 samplerVars, outputVars>>

(* The value of Run is fixed here; the deferred stopResources, where the   *)
(* sampler was started, runs afterwards.                                   *)
Return ==
  /\ pc = "return"
  /\ returned' = Snapshot
  /\ Goto(IF sampler = "off" THEN "write" ELSE "stop")
  /\ UNCHANGED <<collectorVars, config, position, outcome, fixtures, firstCollaboration,
                 efficiencyScore, samplerVars, file, exitCode>>

CloseStop_Forgotten ==
  /\ pc = "stop" /\ Goto("wait")
  /\ UNCHANGED <<stop, collectorVars, config, position, outcome, fixtures, firstCollaboration,
                 efficiencyScore, sampler, cancelled, outputVars>>

CloseStop ==
  /\ pc = "stop"
  /\ stop' = TRUE /\ Goto("wait")
  /\ UNCHANGED <<collectorVars, config, position, outcome, fixtures, firstCollaboration,
                 efficiencyScore, sampler, cancelled, outputVars>>

LastSample_WithoutWait ==
  /\ pc = "wait"
  /\ C!AddResource /\ Goto("write")
  /\ UNCHANGED <<config, position, outcome, fixtures, firstCollaboration, efficiencyScore,
                 samplerVars, outputVars>>

LastSample ==
  /\ pc = "wait" /\ sampler = "done"
  /\ C!AddResource /\ Goto("write")
  /\ UNCHANGED <<config, position, outcome, fixtures, firstCollaboration, efficiencyScore,
                 samplerVars, outputVars>>

(* WriteJSON, which may fail.                                              *)
WriteJSON(ok) ==
  /\ pc = "write"
  /\ IF ok THEN file' = Snapshot /\ Goto("print") /\ UNCHANGED exitCode
           ELSE exitCode' = 2 /\ Goto("exited") /\ UNCHANGED file
  /\ UNCHANGED <<collectorVars, config, position, outcome, fixtures, firstCollaboration,
                 efficiencyScore, samplerVars, returned>>

Exit ==
  /\ pc = "print"
  /\ exitCode' = (IF returned.passed THEN 0 ELSE 1) /\ Goto("exited")
  /\ UNCHANGED <<collectorVars, config, position, outcome, fixtures, firstCollaboration,
                 efficiencyScore, samplerVars, returned, file>>

-----------------------------------------------------------------------------
(* The sampler's goroutine.  While a sample is being taken a tick may      *)
(* become ready, and select then chooses freely among what is ready.       *)

Tick ==
  /\ sampler = "select"
  /\ sampler' = "sampling"
  /\ UNCHANGED <<collectorVars, config, mainVars, stop, cancelled, outputVars>>

Sample ==
  /\ sampler = "sampling"
  /\ C!AddResource
  /\ sampler' = "select"
  /\ UNCHANGED <<config, mainVars, stop, cancelled, outputVars>>

SamplerStops ==
  /\ sampler = "select" /\ (stop \/ cancelled)
  /\ sampler' = "done"
  /\ UNCHANGED <<collectorVars, config, mainVars, stop, cancelled, outputVars>>

Cancel ==
  /\ config.cancellable /\ ~cancelled /\ pc # "exited"
  /\ cancelled' = TRUE
  /\ UNCHANGED <<collectorVars, config, mainVars, sampler, stop, outputVars>>

-----------------------------------------------------------------------------
Starting ==
  UnknownProfile \/ Setup \/ (\E ok \in BOOLEAN : SetupCall(ok)) \/ SetupFails \/ StartSampler

Body ==
  \/ \E kind \in C!OperationKinds, ok \in BOOLEAN : BodyCall(kind, ok)
  \/ \E req, resp \in Sizes, plaintext \in BOOLEAN : Message(req, resp, plaintext)
  \/ BeginJob
  \/ \E f \in Fixtures : SetFixture(f)
  \/ \E counter \in C!ReliabilityCounters, delta \in Deltas : RaiseViolation(counter, delta)
  \/ \E ok \in BOOLEAN : EndManifestJob(ok)
  \/ FailManifestJob
  \/ Unsupported \/ Fail
  \/ \E latency \in Latencies : Pass(latency)
  \/ EndMeasuredJob

Reporting == NoBrowser \/ BeginScenario \/ Judge \/ EndScenario \/ SetCategory

Finishing == Score \/ Return \/ CloseStop \/ LastSample \/ (\E ok \in BOOLEAN : WriteJSON(ok)) \/ Exit

Main == Starting \/ Body \/ Reporting \/ Finishing

Next == Main \/ Tick \/ Sample \/ SamplerStops \/ Cancel

(* Main keeps going: every call it makes returns (the HTTP client and the  *)
(* polling loops have deadlines).  A sample ends.  select is fair: it does *)
(* not choose the tick for ever while stop is closed.                      *)
Fairness == WF_vars(Main) /\ WF_vars(Sample) /\ SF_vars(SamplerStops)

Spec == Init /\ [][Next]_vars /\ Fairness

-----------------------------------------------------------------------------
(* Correctness. *)

(* The run calls the collector as Collector.tla allows, and so has all the *)
(* properties shown there.                                                 *)
CollectorUsedAsSpecified == C!Init /\ [][C!Next]_collectorVars

(* A gate is broken: something made the run invalid, a scenario failed, or *)
(* a reliability counter was raised by a scenario that is about to fail.   *)
Breached ==
  \/ ~C!Passed
  \/ encryptionViolations # 0
  \/ \E c \in C!ReliabilityCounters : reliability[c] # 0

V == INSTANCE Verdict WITH breached <- Breached, code <- exitCode

(* The program publishes one verdict, which is a pass exactly when no gate *)
(* was broken at any time of the run: README "Hard gates include zero      *)
(* message loss ... A failed hard gate invalidates the run".  Counters     *)
(* alone do not decide the verdict in Snapshot, so this is about every     *)
(* scenario that raises one, and about the verdict being final once Run    *)
(* has computed it.                                                        *)
PublishesVerdict == V!Spec

(* Every operation is attributed to the scenario it was made in, and the   *)
(* ones of setup to none.                                                  *)
OperationsAttributed ==
  \A i \in DOMAIN scenarios :
     scenarios[i].operations =
       Cardinality({k \in DOMAIN operations : operations[k].scenario = scenarios[i].name})

(* Between scenarios, a category passes exactly when all the scenarios of  *)
(* it that were run have passed (README "all-or-nothing gates").           *)
InCategory(i, c) ==
  \E s \in {Scenarios[k] : k \in DOMAIN Scenarios} :
     s.name = scenarios[i].name /\ s.category = c
CategoriesMatchScenarios ==
  pc \notin {"category"} =>
    \A c \in Categories :
       LET inCategory == {i \in DOMAIN scenarios : InCategory(i, c)}
       IN  /\ (c \in DOMAIN categories) = (inCategory # {})
           /\ c \in DOMAIN categories =>
                categories[c].passed = \A i \in inCategory : scenarios[i].passed

(* A job is measured only while the function that began it runs, on every  *)
(* way out of it, and passes if its scenario does; a run that passes has   *)
(* no failed job.                                                          *)
JobsFollowScenarios ==
  /\ activeJob # 0 => pc = "body" /\ (Measured \/ Declarative)
  /\ exitCode = 0 => \A i \in DOMAIN jobs : jobs[i].passed
  /\ \A i \in DOMAIN jobs : jobs[i].name = "address-to-first-collaboration" =>
        \A k \in DOMAIN scenarios :
          scenarios[k].name = "agent_efficiency_jobs" => (jobs[i].passed = scenarios[k].passed)

(* The sampler is stopped before the scorecard is written, and the file    *)
(* holds everything that was recorded.                                     *)
FileIsComplete ==
  /\ pc \in {"write", "print", "exited"} => sampler \in {"off", "done"}
  /\ exitCode \in {0, 1} => file = Snapshot

(* A scenario that reads a field of the Harness runs after one that sets   *)
(* it, unless the run has already failed: in every profile.                *)
FixturesReady == Running => Current.reads \subseteq fixtures \/ ~C!Passed

(* README "The bounded efficiency score is zero unless all gates pass",    *)
(* in both scorecards.                                                     *)
ScoreNeedsGates ==
  \A card \in {returned, file} :
     card.efficiencyScore > 0 => /\ card.passed /\ ~Breached
                                 /\ exitCode # 1

(* Every run ends, also when its context is cancelled half way.            *)
Terminates == <>(pc = "exited")

-----------------------------------------------------------------------------
(* What the documentation says and the code does not do.                   *)

(* README:21 "The command emits the same JSON scorecard to stdout and to   *)
(* --output": Run's value is computed before its deferred call takes the   *)
(* last resource sample, the file afterwards.                              *)
StdoutMatchesFile == exitCode \in {0, 1} => returned = file

(* README:137 "focused V1 profiles remain useful against older             *)
(* implementations": where V2 is not required, a client that lacks it and  *)
(* does everything else right passes.                                      *)
V1ProfilesUsable ==
  exitCode = 1 /\ ~RequireV2 =>
    \/ invalidReasons > 0
    \/ \E i \in DOMAIN scenarios : scenarios[i].status = "failed"

=============================================================================
