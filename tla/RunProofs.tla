------------------------------ MODULE RunProofs ------------------------------
(***************************************************************************)
(* What a run publishes, and how what it collects fits together, for every *)
(* profile and setting, every number of calls, messages and failures and   *)
(* every size and latency.                                                 *)
(***************************************************************************)
EXTENDS Run, SequenceTheorems, FiniteSetTheorems, WellFoundedInduction, TLAPS

Early == {"start", "setup", "loop", "refuse", "body", "end", "category"}
Late == {"return", "stop", "wait", "write", "print", "exited"}

-----------------------------------------------------------------------------
(* What a step of the run does to the variables the verdict is made of.    *)

(* The scenario in progress is bound to fail.                              *)
Doomed == pc \in {"body", "end"} /\ outcome = "failed"

Quiet ==
  /\ UNCHANGED <<scenarios, invalidReasons, encryptionViolations, reliability>>
  /\ Doomed => Doomed'
Invalidates ==
  /\ invalidReasons' = invalidReasons + 1
  /\ encryptionViolations' \in {encryptionViolations, encryptionViolations + 1}
  /\ UNCHANGED <<scenarios, reliability>>
Violates ==
  /\ pc = "body" /\ outcome = "" /\ Doomed'
  /\ UNCHANGED <<scenarios, invalidReasons, encryptionViolations>>
Ends ==
  /\ pc = "end"
  /\ scenarios' = Append(scenarios, [name |-> scenario, status |-> outcome, passed |-> outcome = "passed",
                                     hardGate |-> Current.hard, operations |-> scenarioOps])
  /\ UNCHANGED <<invalidReasons, encryptionViolations, reliability>>

(* A step before Run returns, but for the one that computes the score.     *)
Works ==
  /\ pc \in Early /\ pc' \in Early \cup {"return"}
  /\ pc' \in {"start", "setup"} => pc \in {"start", "setup"}
  /\ sampler' = sampler \/ (pc = "setup" /\ pc' = "loop")
  /\ UNCHANGED <<returned, file, exitCode, efficiencyScore>>
  /\ Quiet \/ Invalidates \/ Violates \/ Ends

LEMMA StartingWorks == Starting => Works
<1>1. UnknownProfile => Works
  BY DEF UnknownProfile, Works, Early, Invalidates, Goto, C!AddInvalid, C!wireVars, C!scenarioVars, samplerVars, outputVars
<1>2. Setup => Works
  BY DEF Setup, Works, Early, Quiet, Doomed, Goto, collectorVars, samplerVars, outputVars
<1>3. ASSUME NEW ok \in BOOLEAN, SetupCall(ok) PROVE Works
  BY <1>3 DEF SetupCall, Works, Early, Quiet, Doomed, C!Observe, C!wireVars, samplerVars, outputVars
<1>4. SetupFails => Works
  BY DEF SetupFails, Works, Early, Invalidates, Goto, C!AddInvalid, C!wireVars, C!scenarioVars, samplerVars, outputVars
<1>5. StartSampler => Works
  BY DEF StartSampler, Works, Early, Quiet, Doomed, Goto, C!AddResource, C!wireVars, C!scenarioVars, outputVars
<1> QED
  BY <1>1, <1>2, <1>3, <1>4, <1>5 DEF Starting

Counted == invalidReasons \in Nat /\ encryptionViolations \in Nat

LEMMA BodyWorks == Counted /\ Body => Works
<1> SUFFICES ASSUME Counted PROVE Body => Works
  OBVIOUS
<1>1. ASSUME NEW kind, NEW ok \in BOOLEAN, BodyCall(kind, ok) PROVE Works
  BY <1>1 DEF BodyCall, Running, Works, Early, Quiet, Doomed, C!Observe, C!jobVars, C!wireVars, C!scenarioVars, mainVars, samplerVars, outputVars
<1>2. ASSUME NEW req, NEW resp, NEW plaintext \in BOOLEAN, Message(req, resp, plaintext) PROVE Works
  <2>1. pc \in Early /\ UNCHANGED <<mainVars, samplerVars, outputVars>>
    BY <1>2 DEF Message, Running, Early
  <2>2. CASE plaintext
    <3>1. Invalidates
      BY <1>2, <2>2 DEF Message, Invalidates, C!ObserveWire, C!jobVars, C!wireVars, C!scenarioVars
    <3> QED
      BY <2>1, <3>1 DEF Works, Early, mainVars, samplerVars, outputVars
  <2>3. CASE ~plaintext
    <3>1. scenarios' = scenarios /\ reliability' = reliability
      BY <1>2 DEF Message, C!ObserveWire, C!jobVars, C!wireVars, C!scenarioVars
    <3>2. outcome = ""
      BY <1>2 DEF Message
    <3>3. invalidReasons' = invalidReasons + 0 /\ encryptionViolations' = encryptionViolations + 0
      BY <1>2, <2>3 DEF Message, C!ObserveWire
    <3>4. invalidReasons' = invalidReasons /\ encryptionViolations' = encryptionViolations
      BY <3>3 DEF Counted
    <3> QED
      BY <2>1, <3>1, <3>2, <3>4 DEF Works, Early, Quiet, Doomed, mainVars, samplerVars, outputVars
  <2> QED
    BY <2>2, <2>3
<1>3. BeginJob => Works
  BY DEF BeginJob, Works, Early, Quiet, Doomed, C!BeginAgentJob, C!jobVars, C!wireVars, C!scenarioVars, mainVars, samplerVars, outputVars
<1>4. ASSUME NEW f, SetFixture(f) PROVE Works
  BY <1>4 DEF SetFixture, Running, Works, Early, Quiet, Doomed, collectorVars, samplerVars, outputVars
<1>5. ASSUME NEW counter, NEW delta, RaiseViolation(counter, delta) PROVE Works
  BY <1>5 DEF RaiseViolation, Running, Close, Works, Early, Violates, Doomed, C!AddReliability, C!jobVars, C!wireVars, C!scenarioVars, samplerVars, outputVars
<1>6. ASSUME NEW ok \in BOOLEAN, EndManifestJob(ok) PROVE Works
  BY <1>6 DEF EndManifestJob, Running, Close, Works, Early, Quiet, Doomed, C!EndAgentJob, C!jobVars, C!wireVars, C!scenarioVars, samplerVars, outputVars
<1>7. FailManifestJob => Works
  BY DEF FailManifestJob, Running, Close, Works, Early, Quiet, Doomed, C!FailAgentJob, C!jobVars, C!wireVars, C!scenarioVars, samplerVars, outputVars
<1>8. Unsupported => Works
  BY DEF Unsupported, Close, Works, Early, Quiet, Doomed, collectorVars, samplerVars, outputVars
<1>9. Fail => Works
  BY DEF Fail, Running, Close, Works, Early, Quiet, Doomed, collectorVars, samplerVars, outputVars
<1>10. ASSUME NEW latency, Pass(latency) PROVE Works
  BY <1>10 DEF Pass, Running, Close, Works, Early, Quiet, Doomed, collectorVars, samplerVars, outputVars
<1>11. EndMeasuredJob => Works
  BY DEF EndMeasuredJob, Works, Early, Quiet, Doomed, C!EndAgentJob, C!jobVars, C!wireVars, C!scenarioVars, mainVars, samplerVars, outputVars
<1> QED
  BY <1>1, <1>2, <1>3, <1>4, <1>5, <1>6, <1>7, <1>8, <1>9, <1>10, <1>11 DEF Body

LEMMA ReportingWorks == Reporting => Works
<1>1. NoBrowser => Works
  BY DEF NoBrowser, Works, Early, Invalidates, Goto, C!AddInvalid, C!jobVars, C!wireVars, C!scenarioVars, samplerVars, outputVars
<1>2. BeginScenario => Works
  BY DEF BeginScenario, Works, Early, Quiet, Doomed, Goto, C!BeginScenario, C!jobVars, C!wireVars, C!scenarioVars, samplerVars, outputVars
<1>3. Judge => Works
  <2>1. CASE outcome = "unsupported" /\ Current.hard /\ RequireV2
    BY <2>1 DEF Judge, Works, Early, Invalidates, Goto, C!AddInvalid, C!jobVars, C!wireVars, C!scenarioVars, samplerVars, outputVars
  <2>2. CASE ~(outcome = "unsupported" /\ Current.hard /\ RequireV2)
    BY <2>2 DEF Judge, Works, Early, Quiet, Doomed, Goto, collectorVars, samplerVars, outputVars
  <2> QED
    BY <2>1, <2>2
<1>4. EndScenario => Works
  BY DEF EndScenario, Works, Early, Ends, Goto, C!EndScenarioStatus, C!jobVars, C!wireVars, C!scenarioVars, samplerVars, outputVars
<1>5. SetCategory => Works
  BY DEF SetCategory, Works, Early, Quiet, Doomed, Goto, C!SetCategory, C!jobVars, C!wireVars, C!scenarioVars, samplerVars, outputVars
<1> QED
  BY <1>1, <1>2, <1>3, <1>4, <1>5 DEF Reporting

(* All other steps leave the gates alone.                                  *)
Idle == UNCHANGED <<scenarios, invalidReasons, encryptionViolations, reliability, outcome>>

LEMMA OthersIdle ==
  Finishing \/ Tick \/ Sample \/ SamplerStops \/ Cancel \/ UNCHANGED vars => Idle
<1>1. Score => Idle
  BY DEF Score, Idle, collectorVars
<1>2. Return => Idle
  BY DEF Return, Idle, collectorVars
<1>3. CloseStop => Idle
  BY DEF CloseStop, Idle, collectorVars
<1>4. LastSample => Idle
  BY DEF LastSample, Idle, C!AddResource, C!jobVars, C!wireVars, C!scenarioVars
<1>5. ASSUME NEW ok \in BOOLEAN, WriteJSON(ok) PROVE Idle
  BY <1>5 DEF WriteJSON, Idle, collectorVars
<1>6. Exit => Idle
  BY DEF Exit, Idle, collectorVars
<1>7. Tick => Idle
  BY DEF Tick, Idle, collectorVars, mainVars
<1>8. Sample => Idle
  BY DEF Sample, Idle, C!AddResource, C!jobVars, C!wireVars, C!scenarioVars, mainVars
<1>9. SamplerStops => Idle
  BY DEF SamplerStops, Idle, collectorVars, mainVars
<1>10. Cancel => Idle
  BY DEF Cancel, Idle, collectorVars, mainVars
<1>11. UNCHANGED vars => Idle
  BY DEF Idle, vars, collectorVars, mainVars
<1> QED
  BY <1>1, <1>2, <1>3, <1>4, <1>5, <1>6, <1>7, <1>8, <1>9, <1>10, <1>11 DEF Finishing

-----------------------------------------------------------------------------
(* The verdict.                                                            *)

Gates ==
  /\ Counted
  /\ \E S : scenarios \in Seq(S)
  /\ encryptionViolations # 0 => invalidReasons # 0
  /\ (\E c \in C!ReliabilityCounters : reliability[c] # 0) => ~C!Passed \/ Doomed

LEMMA PassedKept ==
  ASSUME UNCHANGED <<scenarios, invalidReasons>>
  PROVE  C!Passed' <=> C!Passed
BY DEF C!Passed

(* A scenario that ends adds its result to the ones before it.             *)
LEMMA EndsAdds ==
  ASSUME NEW S, scenarios \in Seq(S), NEW r, scenarios' = Append(scenarios, r), UNCHANGED invalidReasons
  PROVE  /\ scenarios' \in Seq(S \cup {r})
         /\ ~C!Passed => ~C!Passed'
         /\ C!BlockingScenario(r) => ~C!Passed'
<1>1. scenarios \in Seq(S \cup {r}) /\ r \in S \cup {r}
  OBVIOUS
<1>2. /\ scenarios' \in Seq(S \cup {r})
      /\ \A i \in 1 .. Len(scenarios) : scenarios'[i] = scenarios[i]
      /\ scenarios'[Len(scenarios) + 1] = r
      /\ Len(scenarios') = Len(scenarios) + 1
  BY <1>1, AppendProperties
<1>3. /\ DOMAIN scenarios = 1 .. Len(scenarios) /\ DOMAIN scenarios' = 1 .. Len(scenarios')
      /\ Len(scenarios) \in Nat
  BY <1>1, <1>2, LenProperties
<1>4. Len(scenarios) + 1 \in DOMAIN scenarios' /\ DOMAIN scenarios \subseteq DOMAIN scenarios'
  BY <1>2, <1>3
<1>5. ~C!Passed => ~C!Passed'
  BY <1>2, <1>3, <1>4 DEF C!Passed
<1>6. C!BlockingScenario(r) => ~C!Passed'
  BY <1>2, <1>4 DEF C!Passed
<1> QED
  BY <1>2, <1>5, <1>6

(* A run that does not pass never passes later.                            *)
LEMMA FailedStaysFailed ==
  ASSUME Gates, Works \/ Idle
  PROVE  ~C!Passed => ~C!Passed'
<1>1. CASE Idle \/ Quiet \/ Violates
  BY <1>1, PassedKept DEF Idle, Quiet, Violates
<1>2. CASE Invalidates
  BY <1>2 DEF Gates, Counted, Invalidates, C!Passed
<1>3. CASE Ends
  BY <1>3, EndsAdds DEF Ends, Gates
<1> QED
  BY <1>1, <1>2, <1>3 DEF Works

LEMMA GatesKept ==
  ASSUME Gates, Works \/ (Idle /\ (Doomed => Doomed'))
  PROVE  Gates'
<1>1. CASE (Idle /\ (Doomed => Doomed')) \/ Quiet
  BY <1>1, PassedKept DEF Idle, Quiet, Gates, Counted
<1>2. CASE Invalidates
  <2>1. ~C!Passed' /\ invalidReasons' # 0 /\ Counted'
    BY <1>2 DEF Gates, Counted, Invalidates, C!Passed
  <2> QED
    BY <1>2, <2>1 DEF Gates, Invalidates
<1>3. CASE Violates
  BY <1>3 DEF Violates, Gates, Counted
<1>4. CASE Ends
  <2> DEFINE r == [name |-> scenario, status |-> outcome, passed |-> outcome = "passed",
                   hardGate |-> Current.hard, operations |-> scenarioOps]
  <2>1. outcome = "failed" => C!BlockingScenario(r)
    BY DEF C!BlockingScenario
  <2>2. scenarios' = Append(scenarios, r) /\ UNCHANGED <<invalidReasons, encryptionViolations, reliability>>
    BY <1>4 DEF Ends
  <2> HIDE DEF r
  <2>3. PICK S : scenarios \in Seq(S)
    BY DEF Gates
  <2>4. /\ \E T : scenarios' \in Seq(T)
        /\ ~C!Passed => ~C!Passed'
        /\ C!BlockingScenario(r) => ~C!Passed'
    BY <2>2, <2>3, EndsAdds
  <2> QED
    BY <2>1, <2>2, <2>4 DEF Gates, Counted, Doomed
<1> QED
  BY <1>1, <1>2, <1>3, <1>4 DEF Works

-----------------------------------------------------------------------------
(* The end of a run.                                                       *)

Published ==
  /\ pc \in Early \cup Late
  /\ pc # "exited" => exitCode = -1
  /\ pc = "exited" => exitCode \in {0, 1, 2}
  /\ pc \in {"start", "setup"} => sampler = "off"
  /\ pc \in {"write", "print", "exited"} => sampler \in {"off", "done"}
  /\ pc \in {"stop", "wait", "write", "print"} => (returned.passed <=> C!Passed)
  /\ exitCode \in {0, 1} => (exitCode = 0 <=> C!Passed)
  /\ pc = "print" \/ exitCode \in {0, 1} => file = Snapshot

Inv == Gates /\ Published

LEMMA SnapshotKept ==
  ASSUME C!Passed' <=> C!Passed, UNCHANGED <<resources, efficiencyScore>>
  PROVE  Snapshot' = Snapshot
BY DEF Snapshot

LEMMA Steps ==
  ASSUME Gates, [Next]_vars
  PROVE  \/ Works
         \/ Idle /\ (Finishing \/ Tick \/ Sample \/ SamplerStops \/ Cancel \/ UNCHANGED vars)
BY StartingWorks, BodyWorks, ReportingWorks, OthersIdle DEF Gates, Next, Main

LEMMA InvHolds == Spec => []Inv
<1>1. Init => Inv
  <2> SUFFICES ASSUME Init PROVE Inv
    OBVIOUS
  <2>1. /\ scenarios = << >> /\ invalidReasons = 0 /\ encryptionViolations = 0
        /\ \A c \in C!ReliabilityCounters : reliability[c] = 0
    BY DEF Init, C!Init
  <2>2. scenarios \in Seq({})
    BY <2>1
  <2>3. pc = "start" /\ exitCode = -1 /\ sampler = "off"
    BY DEF Init
  <2>4. Published
    BY <2>3 DEF Published, Early
  <2> QED
    BY <2>1, <2>2, <2>4 DEF Inv, Gates, Counted
<1>2. Inv /\ [Next]_vars => Inv'
  <2> SUFFICES ASSUME Inv, [Next]_vars PROVE Inv'
    OBVIOUS
  <2>1. CASE Works
    <3>1. Gates'
      BY <2>1, GatesKept DEF Inv
    <3>2. exitCode' = -1
      BY <2>1 DEF Inv, Published, Works, Early
    <3>3. pc' \in {"start", "setup"} => sampler' = "off"
      BY <2>1 DEF Inv, Published, Works, Early
    <3>4. Published'
      BY <2>1, <3>2, <3>3 DEF Published, Works, Early, Late
    <3> QED
      BY <3>1, <3>4 DEF Inv
  <2>2. CASE Idle /\ (Finishing \/ Tick \/ Sample \/ SamplerStops \/ Cancel \/ UNCHANGED vars)
    <3>1. Gates' /\ (C!Passed' <=> C!Passed)
      <4>1. Doomed => Doomed'
        BY <2>2 DEF Idle, Doomed, Finishing, Score, Return, CloseStop, LastSample, WriteJSON, Exit,
                    Tick, Sample, SamplerStops, Cancel, vars, mainVars
      <4> QED
        BY <2>2, <4>1, GatesKept, PassedKept DEF Inv, Idle
    <3>2. CASE Score
      BY <3>1, <3>2 DEF Inv, Published, Early, Late, Score, Goto, samplerVars, outputVars
    <3>3. CASE Return
      BY <3>1, <3>3 DEF Inv, Published, Early, Late, Return, Goto, Snapshot, samplerVars
    <3>4. CASE CloseStop
      BY <3>1, <3>4 DEF Inv, Published, Early, Late, CloseStop, Goto, outputVars
    <3>5. CASE LastSample
      BY <3>1, <3>5 DEF Inv, Published, Early, Late, LastSample, Goto, samplerVars, outputVars
    <3>6. ASSUME NEW ok \in BOOLEAN, WriteJSON(ok) PROVE Published'
      <4>1. /\ pc = "write" /\ UNCHANGED <<sampler, returned>>
            /\ \/ pc' = "print" /\ file' = Snapshot /\ exitCode' = exitCode
               \/ pc' = "exited" /\ exitCode' = 2
        BY <3>6 DEF WriteJSON, Goto, samplerVars
      <4>2. Snapshot' = Snapshot
        BY <3>1, <3>6, SnapshotKept DEF WriteJSON, collectorVars
      <4> QED
        BY <3>1, <4>1, <4>2 DEF Inv, Published, Late
    <3>7. CASE Exit
      <4>1. /\ pc = "print" /\ pc' = "exited" /\ exitCode' \in {0, 1}
            /\ exitCode' = (IF returned.passed THEN 0 ELSE 1) /\ UNCHANGED <<sampler, returned, file>>
        BY <3>7 DEF Exit, Goto, samplerVars
      <4>2. Snapshot' = Snapshot
        BY <3>1, <3>7, SnapshotKept DEF Exit, collectorVars
      <4> QED
        BY <3>1, <4>1, <4>2 DEF Inv, Published, Late
    <3>8. CASE Tick \/ SamplerStops \/ Cancel \/ UNCHANGED vars
      <4>1. /\ UNCHANGED <<pc, exitCode, returned, file>>
            /\ sampler' = sampler \/ sampler' = "done" \/ sampler' = "sampling"
            /\ sampler = "off" => sampler' = "off"
            /\ sampler = "done" => sampler' = "done"
        BY <3>8 DEF Tick, SamplerStops, Cancel, vars, mainVars, samplerVars, outputVars
      <4>2. Snapshot' = Snapshot
        BY <3>1, <3>8, SnapshotKept DEF Tick, SamplerStops, Cancel, vars, collectorVars, mainVars
      <4> QED
        BY <3>1, <4>1, <4>2 DEF Inv, Published
    <3>9. CASE Sample
      BY <3>1, <3>9 DEF Inv, Published, Early, Late, Sample, mainVars, outputVars
    <3> QED
      BY <2>2, <3>1, <3>2, <3>3, <3>4, <3>5, <3>6, <3>7, <3>8, <3>9 DEF Inv, Finishing
  <2> QED
    BY <2>1, <2>2, Steps DEF Inv
<1> QED
  BY <1>1, <1>2, PTL DEF Spec

(* When the file is written the sampler has stopped, and the file holds    *)
(* all that was recorded: for every setting and any number of samples.     *)
THEOREM FilesAreComplete == Spec => []FileIsComplete
<1>1. Inv => FileIsComplete
  BY DEF Inv, Published, FileIsComplete
<1> QED
  BY <1>1, InvHolds, PTL

(* The gates are broken exactly when a snapshot does not pass, but while a *)
(* scenario is bound to fail.                                              *)
LEMMA BreachedIsFailed ==
  ASSUME Gates
  PROVE  /\ ~C!Passed => Breached
         /\ ~Doomed => (Breached <=> ~C!Passed)
BY DEF Gates, Breached, C!Passed

(* A run publishes one verdict: each of its steps is one of Verdict's, or  *)
(* none, with the gates broken for good once they were.                    *)
THEOREM RunPublishesVerdict == Spec => PublishesVerdict
<1>1. Init => V!Init
  <2> SUFFICES ASSUME Init PROVE V!Init
    OBVIOUS
  <2>1. /\ scenarios = << >> /\ invalidReasons = 0 /\ encryptionViolations = 0 /\ exitCode = -1
        /\ \A c \in C!ReliabilityCounters : reliability[c] = 0
    BY DEF Init, C!Init
  <2>2. DOMAIN scenarios = {}
    BY <2>1
  <2> QED
    BY <2>1, <2>2 DEF V!Init, Breached, C!Passed
<1>2. Inv /\ Inv' /\ [Next]_vars => [V!Next]_(V!vars)
  <2> SUFFICES ASSUME Inv, Inv', [Next]_vars PROVE V!Next \/ UNCHANGED <<Breached, exitCode>>
    BY DEF V!vars
  <2>1. Breached \in BOOLEAN /\ Breached' \in BOOLEAN
    BY DEF Breached
  <2>2. CASE Works
    <3>1. exitCode = -1 /\ exitCode' = -1
      BY <2>2 DEF Inv, Published, Works, Early
    <3>2. Breached => Breached'
      <4>1. ~C!Passed => ~C!Passed'
        BY <2>2, FailedStaysFailed DEF Inv
      <4>2. CASE Quiet \/ Ends
        BY <4>1, <4>2 DEF Quiet, Ends, Breached
      <4>3. CASE Invalidates
        <5>1. ~C!Passed'
          BY <4>3 DEF Inv, Gates, Counted, Invalidates, C!Passed
        <5> QED
          BY <5>1 DEF Breached
      <4>4. CASE Violates
        BY <4>1, <4>4, BreachedIsFailed DEF Inv, Violates, Doomed, Breached
      <4> QED
        BY <2>2, <4>2, <4>3, <4>4 DEF Works
    <3>3. CASE Breached'
      BY <3>1, <3>3 DEF V!Next, V!Breach
    <3>4. CASE ~Breached'
      BY <2>1, <3>1, <3>2, <3>4
    <3> QED
      BY <3>3, <3>4
  <2>3. CASE Idle /\ (Finishing \/ Tick \/ Sample \/ SamplerStops \/ Cancel \/ UNCHANGED vars)
    <3>1. Breached' = Breached
      BY <2>3, PassedKept DEF Idle, Breached
    <3>2. CASE Exit
      <4>1. ~Doomed /\ exitCode = -1 /\ exitCode' = (IF returned.passed THEN 0 ELSE 1)
            /\ (returned.passed <=> C!Passed)
        BY <3>2 DEF Inv, Published, Exit, Doomed
      <4>2. exitCode' = IF Breached THEN 1 ELSE 0
        BY <4>1, BreachedIsFailed DEF Inv
      <4> QED
        BY <3>1, <4>1, <4>2 DEF V!Next, V!Publish
    <3>3. ASSUME NEW ok \in BOOLEAN, WriteJSON(ok) PROVE V!Next \/ UNCHANGED <<Breached, exitCode>>
      <4>1. exitCode = -1 /\ (exitCode' = exitCode \/ exitCode' = 2)
        BY <3>3 DEF Inv, Published, WriteJSON
      <4> QED
        BY <3>1, <4>1 DEF V!Next, V!Publish
    <3>4. CASE Score \/ Return \/ CloseStop \/ LastSample \/ Tick \/ Sample \/ SamplerStops \/ Cancel
               \/ UNCHANGED vars
      <4>1. exitCode' = exitCode
        BY <3>4 DEF Score, Return, CloseStop, LastSample, Tick, Sample, SamplerStops, Cancel, vars, outputVars
      <4> QED
        BY <3>1, <4>1
    <3> QED
      BY <2>3, <3>2, <3>3, <3>4 DEF Finishing
  <2> QED
    BY <2>2, <2>3, Steps DEF Inv
<1> QED
  BY <1>1, <1>2, InvHolds, PTL DEF Spec, PublishesVerdict, V!Spec

-----------------------------------------------------------------------------
(* The score.                                                              *)

(* Where there is a score, the run has passed and cannot fail any more.    *)
Scored ==
  /\ efficiencyScore # 0 => C!Passed /\ pc \in Late
  /\ \A card \in {returned, file} :
       card.efficiencyScore # 0 => card.passed /\ C!Passed /\ pc \in Late

LEMMA ScoreOfFailure ==
  ASSUME NEW card, ~card.passed
  PROVE  EfficiencyScore(card) = 0
BY DEF EfficiencyScore, GatesPass

LEMMA ScoredHolds == Spec => []Scored
<1>1. Init => Scored
  <2>1. NoCard.efficiencyScore = 0
    BY DEF NoCard
  <2> QED
    BY <2>1 DEF Init, Scored
<1>2. Inv /\ Scored /\ [Next]_vars => Scored'
  <2> SUFFICES ASSUME Inv, Scored, [Next]_vars PROVE Scored'
    OBVIOUS
  <2>1. CASE Works
    <3>1. pc \notin Late /\ UNCHANGED <<efficiencyScore, returned, file>>
      BY <2>1 DEF Works, Early, Late
    <3> QED
      BY <3>1 DEF Scored
  <2>2. CASE Idle /\ (Finishing \/ Tick \/ Sample \/ SamplerStops \/ Cancel \/ UNCHANGED vars)
    <3>1. C!Passed' <=> C!Passed
      BY <2>2, PassedKept DEF Idle
    <3>2. CASE Score
      <4>1. efficiencyScore' = EfficiencyScore(Card) /\ UNCHANGED <<returned, file>> /\ pc' \in Late
        BY <3>2 DEF Score, Goto, outputVars, Late
      <4>2. Card.passed <=> C!Passed
        BY DEF Card
      <4> HIDE DEF Card
      <4>3. efficiencyScore' # 0 => C!Passed
        BY <4>1, <4>2, ScoreOfFailure
      <4> QED
        BY <3>1, <4>1, <4>3 DEF Scored
    <3>3. CASE Return
      <4>1. returned' = Snapshot /\ UNCHANGED <<file, efficiencyScore>> /\ pc' \in Late
        BY <3>3 DEF Return, Goto, Late
      <4>2. Snapshot.efficiencyScore = efficiencyScore /\ (Snapshot.passed <=> C!Passed)
        BY DEF Snapshot
      <4> QED
        BY <3>1, <4>1, <4>2 DEF Scored
    <3>4. ASSUME NEW ok \in BOOLEAN, WriteJSON(ok) PROVE Scored'
      <4>1. file' \in {file, Snapshot} /\ UNCHANGED <<returned, efficiencyScore>> /\ pc' \in Late
        BY <3>4 DEF WriteJSON, Goto, Late
      <4>2. Snapshot.efficiencyScore = efficiencyScore /\ (Snapshot.passed <=> C!Passed)
        BY DEF Snapshot
      <4> QED
        BY <3>1, <4>1, <4>2 DEF Scored
    <3>5. CASE CloseStop \/ LastSample \/ Exit
      <4>1. UNCHANGED <<returned, file, efficiencyScore>> /\ pc' \in Late
        BY <3>5 DEF CloseStop, LastSample, Exit, Goto, outputVars, Late
      <4> QED
        BY <3>1, <4>1 DEF Scored
    <3>6. CASE Tick \/ Sample \/ SamplerStops \/ Cancel \/ UNCHANGED vars
      <4>1. UNCHANGED <<returned, file, efficiencyScore, pc>>
        BY <3>6 DEF Tick, Sample, SamplerStops, Cancel, vars, mainVars, outputVars
      <4> QED
        BY <3>1, <4>1 DEF Scored
    <3> QED
      BY <2>2, <3>2, <3>3, <3>4, <3>5, <3>6 DEF Finishing
  <2> QED
    BY <2>1, <2>2, Steps DEF Inv
<1> QED
  BY <1>1, <1>2, InvHolds, PTL DEF Spec

(* No scorecard, neither the one on stdout nor the one in the file, has an *)
(* efficiency score unless all gates pass, and then the program exits with *)
(* no failure.                                                             *)
THEOREM ScoresNeedGates == Spec => []ScoreNeedsGates
<1>1. Inv /\ Scored => ScoreNeedsGates
  <2> SUFFICES ASSUME Inv, Scored, NEW card \in {returned, file}, card.efficiencyScore > 0
               PROVE  card.passed /\ ~Breached /\ exitCode # 1
    BY DEF ScoreNeedsGates
  <2>1. card.efficiencyScore # 0
    OBVIOUS
  <2>2. card.passed /\ C!Passed /\ ~Doomed
    BY <2>1 DEF Scored, Late, Doomed
  <2>3. ~Breached
    BY <2>2, BreachedIsFailed DEF Inv
  <2>4. exitCode # 1
    BY <2>2 DEF Inv, Published
  <2> QED
    BY <2>2, <2>3, <2>4
<1> QED
  BY <1>1, InvHolds, ScoredHolds, PTL

-----------------------------------------------------------------------------
(* Where a run is.                                                         *)

LEMMA TableDomain == DOMAIN Scenarios = 1 .. 25 /\ Len(Scenarios) = 25
BY DEF Scenarios

(* A set of natural numbers that is not empty has a least element.         *)
LEMMA FirstOf ==
  ASSUME NEW T \in SUBSET Nat, T # {}
  PROVE  Min(T) \in T /\ \A m \in T : Min(T) <= m
<1>1. PICK n \in T : \A m \in T : ~ (<<m, n>> \in OpToRel(<, Nat))
  BY NatLessThanWellFounded, WFMin
<1>2. \A m \in T : ~ (m < n)
  BY <1>1 DEF OpToRel
<1>3. \A m \in T : n <= m
  BY <1>2
<1> QED
  BY <1>3 DEF Min

(* The loop goes on to the next planned scenario, and misses none.         *)
LEMMA AfterIsNext ==
  ASSUME NEW k \in Nat
  PROVE  /\ After(k) \in Planned \cup {26} /\ After(k) \in Nat
         /\ After(k) \in Planned => After(k) > k
         /\ \A i \in Planned : i > k => After(k) <= i
<1> DEFINE T == {i \in Planned : i > k} \cup {26}
<1>1. After(k) = Min(T)
  BY TableDomain DEF After
<1>2. Planned \subseteq 1 .. 25
  BY TableDomain DEF Planned
<1>3. T \in SUBSET Nat /\ T # {}
  <2>1. 26 \in T /\ 26 \in Nat
    OBVIOUS
  <2>2. \A t \in T : t \in Nat
    BY <1>2
  <2> QED
    BY <2>1, <2>2
<1>4. Min(T) \in T /\ \A m \in T : Min(T) <= m
  BY <1>3, FirstOf
<1>5. After(k) \in Nat
  <2> HIDE DEF T
  <2> QED
    BY <1>1, <1>3, <1>4
<1> QED
  BY <1>1, <1>2, <1>4, <1>5

AtScenario == {"refuse", "body", "end", "category"}

(* Where a run is: at which scenario, and what is decided about it.        *)
Placed ==
  /\ position \in Nat
  /\ pc \in {"start", "setup"} => position = 0 /\ scenario = ""
  /\ pc = "loop" => position \in Planned \cup {26}
  /\ pc \in AtScenario => position \in Planned
  /\ pc \in {"body", "end", "category"} => scenario = Current.name
  /\ outcome \in {""} \cup C!Statuses
  /\ pc \in {"end", "category"} => outcome # ""

LEMMA EntryFields ==
  ASSUME NEW k \in DOMAIN Scenarios
  PROVE  /\ Scenarios[k].hard = (Scenarios[k].name # "transport_interoperability")
         /\ Scenarios[k].name \in Names
<1>1. \E n, c, q, r, w : Scenarios[k] = Entry(n, c, q, r, w)
  BY TableDomain DEF Scenarios
<1> QED
  BY <1>1 DEF Entry, Names

LEMMA CategoriesPlanned ==
  ASSUME NEW k \in Planned
  PROVE  Scenarios[k].category \in Categories
BY DEF Planned, Allows, Categories

LEMMA StartingCalls == Starting => C!Next \/ UNCHANGED collectorVars
<1>1. UnknownProfile \/ SetupFails => C!GateStep
  BY DEF UnknownProfile, SetupFails, C!GateStep
<1>2. Setup => UNCHANGED collectorVars
  BY DEF Setup
<1>3. ASSUME NEW ok \in BOOLEAN, SetupCall(ok) PROVE C!TrafficStep
  BY <1>3 DEF SetupCall, C!TrafficStep, C!OperationKinds
<1>4. StartSampler => C!GateStep
  BY DEF StartSampler, C!GateStep
<1> QED
  BY <1>1, <1>2, <1>3, <1>4 DEF Starting, C!Next

LEMMA BodyCalls == Body => C!Next \/ UNCHANGED collectorVars
<1>1. ASSUME NEW kind \in C!OperationKinds, NEW ok \in BOOLEAN, BodyCall(kind, ok) PROVE C!TrafficStep
  BY <1>1 DEF BodyCall, C!TrafficStep
<1>2. ASSUME NEW req \in Sizes, NEW resp \in Sizes, NEW plaintext \in BOOLEAN, Message(req, resp, plaintext)
      PROVE  C!TrafficStep
  BY <1>2 DEF Message, C!TrafficStep
<1>3. BeginJob \/ FailManifestJob => C!JobStep
  <2>1. Job \in JobNames
    BY DEF Job, JobNames
  <2> QED
    BY <2>1 DEF BeginJob, FailManifestJob, C!JobStep
<1>4. ASSUME NEW ok \in BOOLEAN, EndManifestJob(ok) PROVE C!JobStep
  BY <1>4 DEF EndManifestJob, C!JobStep
<1>5. EndMeasuredJob => C!JobStep
  <2>1. (outcome = "passed") \in BOOLEAN
    OBVIOUS
  <2> QED
    BY <2>1 DEF EndMeasuredJob, C!JobStep
<1>6. ASSUME NEW counter \in C!ReliabilityCounters, NEW delta \in Deltas, RaiseViolation(counter, delta)
      PROVE  C!GateStep
  BY <1>6 DEF RaiseViolation, C!GateStep
<1>7. (\E f \in Fixtures : SetFixture(f)) \/ Unsupported \/ Fail \/ (\E latency \in Latencies : Pass(latency))
         => UNCHANGED collectorVars
  BY DEF SetFixture, Unsupported, Fail, Pass
<1> QED
  BY <1>1, <1>2, <1>3, <1>4, <1>5, <1>6, <1>7 DEF Body, C!Next

LEMMA ReportingCalls == Placed /\ Reporting => C!Next \/ UNCHANGED collectorVars
<1> SUFFICES ASSUME Placed, Reporting PROVE C!Next \/ UNCHANGED collectorVars
  OBVIOUS
<1>1. NoBrowser => C!GateStep
  BY DEF NoBrowser, C!GateStep
<1>2. BeginScenario => C!ScenarioStep
  <2>1. position \in DOMAIN Scenarios => Current.name \in Names
    BY EntryFields DEF Current
  <2> QED
    BY <2>1 DEF BeginScenario, C!ScenarioStep
<1>3. Judge => C!GateStep \/ UNCHANGED collectorVars
  BY DEF Judge, C!GateStep
<1>4. EndScenario => C!ScenarioStep
  <2>1. pc = "end" => outcome \in C!Statuses
    BY DEF Placed
  <2>2. pc = "end" => Current.hard \in BOOLEAN
    BY EntryFields, TableDomain DEF Placed, AtScenario, Current, Planned
  <2> QED
    BY <2>1, <2>2 DEF EndScenario, C!ScenarioStep
<1>5. SetCategory => C!ScenarioStep
  <2>1. pc = "category" => Current.hard \in BOOLEAN
    BY EntryFields, TableDomain DEF Placed, AtScenario, Current, Planned
  <2>2. pc = "category" => Current.category \in Categories
    BY CategoriesPlanned DEF Placed, AtScenario, Current
  <2>3. (outcome = "passed") \in BOOLEAN
    OBVIOUS
  <2> QED
    BY <2>1, <2>2, <2>3 DEF SetCategory, C!ScenarioStep
<1> QED
  BY <1>1, <1>2, <1>3, <1>4, <1>5 DEF Reporting, C!Next

LEMMA OtherCalls ==
  Finishing \/ Tick \/ Sample \/ SamplerStops \/ Cancel => C!Next \/ UNCHANGED collectorVars
BY DEF Finishing, Score, Return, CloseStop, LastSample, WriteJSON, Exit, Tick, Sample, SamplerStops,
       Cancel, C!Next, C!GateStep

-----------------------------------------------------------------------------
(* What a step does to where the run is, to the decision about the scenario*)
(* in progress and to what is recorded of the scenarios: it moves on, calls*)
(* the server, begins a scenario, sets a fixture, decides how the scenario *)
(* ends, records its result or reports it to the category.                 *)
marks == <<scenario, scenarioOps, scenarios, operations, categories, fixtures>>

Moves ==
  /\ UNCHANGED <<marks, outcome>>
  /\ \/ UNCHANGED <<pc, position>>
     \/ pc = "start" /\ pc' = "setup" /\ UNCHANGED position
     \/ pc = "setup" /\ pc' = "loop" /\ position' = After(0)
     \/ pc = "loop" /\ pc' = "refuse" /\ position \in DOMAIN Scenarios /\ UNCHANGED position
     \/ pc = "body" /\ pc' = "end" /\ outcome # "" /\ ~(Measured /\ activeJob # 0) /\ UNCHANGED position
     \/ pc \in {"start", "setup", "loop"} \cup Late /\ pc' \in Late /\ UNCHANGED position
Calls ==
  /\ pc \in {"setup", "body"} /\ outcome = "" /\ outcome' \in {"", "failed"}
  /\ pc = "body" => UNCHANGED outcome
  /\ scenarioOps' = scenarioOps + 1
  /\ \E ok \in BOOLEAN : operations' = Append(operations, [scenario |-> scenario, success |-> ok])
  /\ UNCHANGED <<pc, position, scenario, scenarios, categories, fixtures>>
Begins ==
  /\ pc \in {"loop", "refuse"} /\ pc' = "body" /\ position \in DOMAIN Scenarios
  /\ scenario' = Current.name /\ scenarioOps' = 0 /\ outcome' \in {"", "failed"}
  /\ UNCHANGED <<position, scenarios, operations, categories, fixtures>>
Sets ==
  /\ pc = "body" /\ \E f : fixtures' = fixtures \cup {f}
  /\ UNCHANGED <<pc, position, outcome, scenario, scenarioOps, scenarios, operations, categories>>
Decides ==
  /\ pc = "body" /\ outcome = "" /\ outcome' \in C!Statuses
  /\ outcome' = "passed" => Current.writes \subseteq fixtures
  /\ UNCHANGED <<marks, pc, position>>
Records ==
  /\ Ends /\ pc' = "category"
  /\ UNCHANGED <<position, outcome, scenario, scenarioOps, operations, categories, fixtures>>
Reports ==
  /\ pc = "category" /\ pc' = "loop" /\ position' = After(position)
  /\ C!SetCategory(Current.category, outcome = "passed", Current.hard, C!ScoreOf(outcome = "passed"))
  /\ UNCHANGED <<outcome, scenario, scenarioOps, scenarios, operations, fixtures>>

Progress == Moves \/ Calls \/ Begins \/ Sets \/ Decides \/ Records \/ Reports

LEMMA StartingMoves == Starting => Progress /\ UNCHANGED config
<1>1. UnknownProfile => Moves
  BY DEF UnknownProfile, Moves, Goto, Late, marks, C!AddInvalid, C!scenarioVars
<1>2. Setup => Moves
  BY DEF Setup, Moves, Goto, marks, collectorVars
<1>3. ASSUME NEW ok \in BOOLEAN, SetupCall(ok) PROVE Calls
  BY <1>3 DEF SetupCall, Calls, C!Observe
<1>4. SetupFails => Moves
  BY DEF SetupFails, Moves, Goto, Late, marks, C!AddInvalid, C!scenarioVars
<1>5. StartSampler => Moves
  BY DEF StartSampler, Moves, Goto, marks, C!AddResource, C!scenarioVars
<1>6. Starting => UNCHANGED config
  BY DEF Starting, UnknownProfile, Setup, SetupCall, SetupFails, StartSampler
<1> QED
  BY <1>1, <1>2, <1>3, <1>4, <1>5, <1>6 DEF Starting, Progress

LEMMA BodyMoves == Body => Progress /\ UNCHANGED config
<1>1. ASSUME NEW kind, NEW ok \in BOOLEAN, BodyCall(kind, ok) PROVE Calls
  BY <1>1 DEF BodyCall, Running, Calls, C!Observe, mainVars
<1>2. ASSUME NEW req, NEW resp, NEW plaintext, Message(req, resp, plaintext) PROVE Moves
  BY <1>2 DEF Message, Moves, C!ObserveWire, C!scenarioVars, marks, mainVars
<1>3. BeginJob => Moves
  BY DEF BeginJob, Moves, C!BeginAgentJob, C!scenarioVars, marks, mainVars
<1>4. ASSUME NEW f, SetFixture(f) PROVE Sets
  BY <1>4 DEF SetFixture, Running, Sets, collectorVars
<1>5. ASSUME NEW counter, NEW delta, RaiseViolation(counter, delta) PROVE Decides
  BY <1>5 DEF RaiseViolation, Running, Close, Decides, C!AddReliability, C!scenarioVars, C!Statuses, marks
<1>6. ASSUME NEW ok \in BOOLEAN, EndManifestJob(ok) PROVE Moves \/ Decides
  BY <1>6 DEF EndManifestJob, Running, Close, Moves, Decides, C!EndAgentJob, C!scenarioVars, C!Statuses, marks
<1>7. FailManifestJob => Decides
  BY DEF FailManifestJob, Running, Close, Decides, C!FailAgentJob, C!scenarioVars, C!Statuses, marks
<1>8. Unsupported => Decides
  BY DEF Unsupported, Close, Decides, collectorVars, C!Statuses, marks
<1>9. Fail => Decides
  BY DEF Fail, Running, Close, Decides, collectorVars, C!Statuses, marks
<1>10. ASSUME NEW latency, Pass(latency) PROVE Decides
  BY <1>10 DEF Pass, Running, Close, Decides, collectorVars, C!Statuses, marks
<1>11. EndMeasuredJob => Moves
  BY DEF EndMeasuredJob, Moves, C!EndAgentJob, C!scenarioVars, marks, mainVars
<1>12. Body => UNCHANGED config
  BY DEF Body, BodyCall, Message, BeginJob, SetFixture, RaiseViolation, EndManifestJob, FailManifestJob,
         Unsupported, Fail, Pass, EndMeasuredJob, Close
<1> QED
  BY <1>1, <1>2, <1>3, <1>4, <1>5, <1>6, <1>7, <1>8, <1>9, <1>10, <1>11, <1>12 DEF Body, Progress

LEMMA ReportingMoves == Reporting => Progress /\ UNCHANGED config
<1>1. NoBrowser => Moves
  BY DEF NoBrowser, Moves, Goto, marks, C!AddInvalid, C!scenarioVars
<1>2. BeginScenario => Begins
  BY DEF BeginScenario, Begins, Goto, C!BeginScenario
<1>3. Judge => Moves
  <2>1. Judge => UNCHANGED <<marks, outcome>>
    BY DEF Judge, marks, collectorVars, C!AddInvalid, C!scenarioVars
  <2> QED
    BY <2>1 DEF Judge, Moves, Goto
<1>4. EndScenario => Records
  BY DEF EndScenario, Records, Ends, Goto, C!EndScenarioStatus, C!jobVars, C!wireVars
<1>5. SetCategory => Reports
  BY DEF SetCategory, Reports, Goto, C!SetCategory, C!scenarioVars
<1>6. Reporting => UNCHANGED config
  BY DEF Reporting, NoBrowser, BeginScenario, Judge, EndScenario, SetCategory
<1> QED
  BY <1>1, <1>2, <1>3, <1>4, <1>5, <1>6 DEF Reporting, Progress

LEMMA OthersMove ==
  Finishing \/ Tick \/ Sample \/ SamplerStops \/ Cancel \/ UNCHANGED vars => Moves /\ UNCHANGED config
<1>1. Finishing => Moves
  BY DEF Finishing, Score, Return, CloseStop, LastSample, WriteJSON, Exit, Moves, Goto, Late, marks,
         collectorVars, C!AddResource, C!scenarioVars
<1>2. Tick \/ Sample \/ SamplerStops \/ Cancel \/ UNCHANGED vars => Moves
  BY DEF Tick, Sample, SamplerStops, Cancel, vars, Moves, marks, mainVars, collectorVars, C!AddResource, C!scenarioVars
<1>3. Finishing \/ Tick \/ Sample \/ SamplerStops \/ Cancel \/ UNCHANGED vars => UNCHANGED config
  BY DEF Finishing, Score, Return, CloseStop, LastSample, WriteJSON, Exit, Tick, Sample, SamplerStops, Cancel, vars
<1> QED
  BY <1>1, <1>2, <1>3

LEMMA EveryStepMoves == [Next]_vars => Progress /\ UNCHANGED config
BY StartingMoves, BodyMoves, ReportingMoves, OthersMove DEF Next, Main, Progress

LEMMA PlannedKept == UNCHANGED config => UNCHANGED Planned
BY DEF Planned, Allows

LEMMA PlacedKept == Placed /\ Progress /\ UNCHANGED config => Placed'
<1> SUFFICES ASSUME Placed, Progress, UNCHANGED config PROVE Placed'
  OBVIOUS
<1>1. Planned' = Planned
  BY PlannedKept
<1>2. 26 \notin DOMAIN Scenarios /\ Planned \subseteq Nat
  BY TableDomain DEF Planned
<1>3. CASE Moves
  <2>1. position' \in {position, After(0)} /\ (position' # position => pc = "setup" /\ pc' = "loop")
    BY <1>3 DEF Moves
  <2>2. After(0) \in Planned \cup {26} /\ After(0) \in Nat
    BY AfterIsNext
  <2>3. position' \in Nat
    BY <2>1, <2>2 DEF Placed
  <2>4. Current' = Current \/ pc' = "loop"
    BY <2>1 DEF Current
  <2> QED
    BY <1>1, <1>2, <1>3, <2>2, <2>3, <2>4 DEF Placed, Moves, marks, Late, AtScenario
<1>4. CASE Calls \/ Sets \/ Decides
  <2>1. UNCHANGED <<pc, position, scenario>> /\ pc \in {"setup", "body"} /\ outcome' \in {""} \cup C!Statuses
    BY <1>4 DEF Calls, Sets, Decides, marks, Placed, C!Statuses
  <2> QED
    BY <1>1, <2>1 DEF Placed, Current
<1>5. CASE Begins
  BY <1>1, <1>2, <1>5 DEF Begins, Placed, Current, AtScenario, C!Statuses
<1>6. CASE Records
  BY <1>1, <1>6 DEF Records, Ends, Placed, Current, AtScenario
<1>7. CASE Reports
  <2>1. After(position) \in Planned \cup {26} /\ After(position) \in Nat
    BY AfterIsNext DEF Placed
  <2> QED
    BY <1>1, <1>7, <2>1 DEF Reports, Placed, AtScenario
<1> QED
  BY <1>3, <1>4, <1>5, <1>6, <1>7 DEF Progress

LEMMA PlacedHolds == Spec => []Placed
<1>1. Init => Placed
  <2>1. Init => pc = "start" /\ position = 0 /\ outcome = "" /\ scenario = ""
    BY DEF Init, C!Init
  <2>2. position = 0 => position \in Nat
    OBVIOUS
  <2> QED
    BY <2>1, <2>2 DEF Placed, AtScenario
<1>2. Placed /\ [Next]_vars => Placed'
  BY PlacedKept, EveryStepMoves
<1> QED
  BY <1>1, <1>2, PTL DEF Spec

(* The run is a client of the collector as Collector.tla describes it.     *)
THEOREM RunUsesCollector == Spec => CollectorUsedAsSpecified
<1>1. Init => C!Init
  BY DEF Init
<1>2. Placed /\ [Next]_vars => [C!Next]_collectorVars
  <2>1. UNCHANGED vars => UNCHANGED collectorVars
    BY DEF vars
  <2> QED
    BY <2>1, StartingCalls, BodyCalls, ReportingCalls, OtherCalls DEF Next, Main
<1> QED
  BY <1>1, <1>2, PlacedHolds, PTL DEF Spec, CollectorUsedAsSpecified

-----------------------------------------------------------------------------
(* The collector a run uses.                                               *)

(* What is proved of the collector holds of the one a run uses.            *)
CP == INSTANCE CollectorProofs WITH ScenarioNames <- Names, CategoryNames <- Categories

(* Both instances describe the same collector.                             *)
LEMMA SameCollector ==
  /\ C!Init => CP!Init
  /\ [C!Next]_collectorVars => [CP!Next]_(CP!vars)
  /\ CP!TypeOK => C!TypeOK
<1>1. C!Init => CP!Init
  BY DEF C!Init, CP!Init, C!NoTraffic, CP!NoTraffic, C!ReliabilityCounters, CP!ReliabilityCounters
<1>2. C!JobStep => CP!JobStep
  BY DEF C!JobStep, CP!JobStep, C!BeginAgentJob, CP!BeginAgentJob, C!EndAgentJob, CP!EndAgentJob,
         C!FailAgentJob, CP!FailAgentJob, C!NewJob, CP!NewJob, C!NoTraffic, CP!NoTraffic, C!jobVars,
         CP!jobVars, C!scenarioVars, CP!scenarioVars, C!wireVars, CP!wireVars
<1>3. C!ScenarioStep => CP!ScenarioStep
  BY DEF C!ScenarioStep, CP!ScenarioStep, C!BeginScenario, CP!BeginScenario, C!EndScenarioStatus,
         CP!EndScenarioStatus, C!SetCategory, CP!SetCategory, C!Merge, CP!Merge, C!ScoreOf,
         CP!ScoreOf, C!Statuses, CP!Statuses, C!jobVars, CP!jobVars, C!scenarioVars,
         CP!scenarioVars, C!wireVars, CP!wireVars
<1>4. C!TrafficStep => CP!TrafficStep
  BY DEF C!TrafficStep, CP!TrafficStep, C!Observe, CP!Observe, C!ObserveWire, CP!ObserveWire,
         C!CountOperation, CP!CountOperation, C!CountMessage, CP!CountMessage, C!AddMessage,
         CP!AddMessage, C!EstimateTokens, CP!EstimateTokens, C!OperationKinds, CP!OperationKinds,
         C!jobVars, CP!jobVars, C!scenarioVars, CP!scenarioVars, C!wireVars, CP!wireVars
<1>5. C!GateStep => CP!GateStep
  BY DEF C!GateStep, CP!GateStep, C!AddReliability, CP!AddReliability, C!AddInvalid, CP!AddInvalid,
         C!AddResource, CP!AddResource, C!ReliabilityCounters, CP!ReliabilityCounters, C!jobVars,
         CP!jobVars, C!scenarioVars, CP!scenarioVars, C!wireVars, CP!wireVars
<1>6. [C!Next]_collectorVars => [CP!Next]_(CP!vars)
  BY <1>2, <1>3, <1>4, <1>5 DEF C!Next, CP!Next, collectorVars, CP!vars
<1>7. CP!TypeOK => C!TypeOK
  BY DEF C!TypeOK, CP!TypeOK, C!JobsOK, CP!JobsOK, C!ScenariosOK, CP!ScenariosOK, C!CategoriesOK,
         CP!CategoriesOK, C!TrafficOK, CP!TrafficOK, C!GatesOK, CP!GatesOK, C!Job, CP!Job,
         C!Scenario, CP!Scenario, C!ScenarioTags, CP!ScenarioTags, C!Operation, CP!Operation,
         C!WireSample, CP!WireSample, C!Category, CP!Category, C!Traffic, CP!Traffic, C!Statuses,
         CP!Statuses, C!ReliabilityCounters, CP!ReliabilityCounters
<1> QED
  BY <1>1, <1>6, <1>7

LEMMA CollectorTyped == Spec => []C!TypeOK
<1>1. CP!Spec => []CP!TypeOK
  BY CP!TypeCorrect, SamplesAssumption
<1> QED
  BY <1>1, SameCollector, RunUsesCollector, PTL DEF CollectorUsedAsSpecified, CP!Spec

(* What is proved of the collector holds of every run, whatever its        *)
(* scenarios do: an ended job is frozen, the jobs report no more than the  *)
(* run saw, a message in plaintext fails the run, a category is all or     *)
(* nothing and stays failed, and a failed run never passes later.          *)
THEOREM RunKeepsAccounts ==
  Spec => /\ [](CP!JobAccounting /\ CP!JobsWithinRun /\ CP!EncryptionGate /\ CP!CategoryGate)
          /\ CP!EndedJobFrozen /\ CP!CategoryFailureSticks /\ CP!VerdictNeverRecovers
<1>1. CP!Spec => []CP!JobAccounting
  BY CP!JobsConsistent, SamplesAssumption
<1>2. CP!Spec => []CP!JobsWithinRun
  BY CP!JobsStayWithinRun, SamplesAssumption
<1>3. CP!Spec => []CP!EncryptionGate
  BY CP!PlaintextFailsRun, SamplesAssumption
<1>4. CP!Spec => []CP!CategoryGate
  BY CP!CategoriesAllOrNothing, SamplesAssumption
<1>5. CP!Spec => CP!EndedJobFrozen
  BY CP!EndedJobsStayFrozen, SamplesAssumption
<1>6. CP!Spec => CP!CategoryFailureSticks
  BY CP!CategoriesStick, SamplesAssumption
<1>7. CP!Spec => CP!VerdictNeverRecovers
  BY CP!VerdictIsFinal, SamplesAssumption
<1>8. Spec => CP!Spec
  BY SameCollector, RunUsesCollector, PTL DEF CollectorUsedAsSpecified, CP!Spec
<1> QED
  BY <1>1, <1>2, <1>3, <1>4, <1>5, <1>6, <1>7, <1>8, PTL

-----------------------------------------------------------------------------
(* The names of the table.                                                 *)
TableNames == <<
  "identity_lifecycle", "discovery_bootstrap_events", "dm_round_trip_resume", "group_membership_history",
  "post_nested_thread", "concurrent_mixed_writers", "human_agent_parity", "disconnect_reconnect_load",
  "unauthorized_access", "growing_history", "presence_notifications", "security_isolation_abuse",
  "server_lifecycle", "server_permissions_discovery", "granular_permission_enforcement", "server_groups",
  "server_forums_notifications", "notification_durability_matrix", "declarative_batch",
  "delta_response_shaping", "protocol_discovery_schemas", "transport_interoperability",
  "agent_efficiency_jobs", "v2_scale_load", "browser_human_ui" >>

LEMMA Listed == \A k \in DOMAIN Scenarios : k \in 1 .. 25 /\ Scenarios[k].name = TableNames[k]
<1>1. DOMAIN TableNames = 1 .. 25
  BY DEF TableNames
<1> QED
  BY <1>1, TableDomain DEF Scenarios, TableNames, Entry

LEMMA ListedOnce ==
  ASSUME NEW i \in 1 .. 25, NEW j \in 1 .. 25, TableNames[i] = TableNames[j]
  PROVE  i = j
BY SMTT(60) DEF TableNames

LEMMA ListedNames ==
  ASSUME NEW i \in 1 .. 25
  PROVE  TableNames[i] # ""
<1>1. TableNames[i] \in {"identity_lifecycle", "discovery_bootstrap_events", "dm_round_trip_resume", "group_membership_history",
                         "post_nested_thread", "concurrent_mixed_writers", "human_agent_parity", "disconnect_reconnect_load",
                         "unauthorized_access", "growing_history", "presence_notifications", "security_isolation_abuse",
                         "server_lifecycle", "server_permissions_discovery", "granular_permission_enforcement", "server_groups",
                         "server_forums_notifications", "notification_durability_matrix", "declarative_batch",
                         "delta_response_shaping", "protocol_discovery_schemas", "transport_interoperability",
                         "agent_efficiency_jobs", "v2_scale_load", "browser_human_ui"}
  BY DEF TableNames
<1> HIDE DEF TableNames
<1> QED
  BY <1>1, Zenon

(* No two scenarios of the table have the same name, and each has one.     *)
LEMMA NamesDiffer ==
  /\ \A i, j \in DOMAIN Scenarios : Scenarios[i].name = Scenarios[j].name => i = j
  /\ \A i \in DOMAIN Scenarios : Scenarios[i].name # ""
BY Listed, ListedOnce, ListedNames

(* What is appended comes last, and leaves the rest where it was.          *)
LEMMA Appended ==
  ASSUME NEW S, NEW s \in Seq(S), NEW e
  PROVE  /\ DOMAIN Append(s, e) = DOMAIN s \cup {Len(s) + 1} /\ Len(s) + 1 \notin DOMAIN s
         /\ \A i \in DOMAIN s : Append(s, e)[i] = s[i]
         /\ Append(s, e)[Len(s) + 1] = e
         /\ DOMAIN s = 1 .. Len(s) /\ Len(s) \in Nat
<1>1. s \in Seq(S \cup {e}) /\ e \in S \cup {e}
  OBVIOUS
<1>2. /\ Append(s, e) \in Seq(S \cup {e})
      /\ \A i \in 1 .. Len(s) : Append(s, e)[i] = s[i]
      /\ Append(s, e)[Len(s) + 1] = e /\ Len(Append(s, e)) = Len(s) + 1
  BY <1>1, AppendProperties
<1>3. DOMAIN s = 1 .. Len(s) /\ DOMAIN Append(s, e) = 1 .. Len(Append(s, e)) /\ Len(s) \in Nat
  BY <1>1, <1>2, LenProperties
<1> QED
  BY <1>2, <1>3

CountIn(s, name) == Cardinality({k \in DOMAIN s : s[k].scenario = name})

LEMMA CountOfAppended ==
  ASSUME NEW S, NEW s \in Seq(S), NEW e, NEW name
  PROVE  /\ CountIn(s, name) \in Nat
         /\ e.scenario # name => CountIn(Append(s, e), name) = CountIn(s, name)
         /\ e.scenario = name => CountIn(Append(s, e), name) = CountIn(s, name) + 1
<1> DEFINE At(q) == {k \in DOMAIN q : q[k].scenario = name}
           last == Len(s) + 1
<1>1. /\ DOMAIN Append(s, e) = DOMAIN s \cup {last} /\ last \notin DOMAIN s
      /\ \A i \in DOMAIN s : Append(s, e)[i] = s[i]
      /\ Append(s, e)[last] = e
      /\ DOMAIN s = 1 .. Len(s) /\ Len(s) \in Nat
  BY Appended
<1> HIDE DEF last
<1>2. IsFiniteSet(DOMAIN s)
  BY <1>1, FS_Interval
<1>3. IsFiniteSet(At(s)) /\ last \notin At(s)
  BY <1>1, <1>2, FS_Subset
<1>4. Cardinality(At(s)) \in Nat /\ Cardinality(At(s) \cup {last}) = Cardinality(At(s)) + 1
  BY <1>3, FS_CardinalityType, FS_AddElement
<1>5. e.scenario # name => At(Append(s, e)) = At(s)
  BY <1>1
<1>6. e.scenario = name => At(Append(s, e)) = At(s) \cup {last}
  BY <1>1
<1> QED
  BY <1>4, <1>5, <1>6 DEF CountIn

LEMMA CountOfNone ==
  ASSUME NEW s, NEW name, \A k \in DOMAIN s : s[k].scenario # name
  PROVE  CountIn(s, name) = 0
<1>1. {k \in DOMAIN s : s[k].scenario = name} = {}
  OBVIOUS
<1> QED
  BY <1>1, FS_EmptySet DEF CountIn

-----------------------------------------------------------------------------
(* The scenarios that have been begun, and those whose result is recorded. *)
Started == {k \in Planned : k < position \/ (k = position /\ pc \in {"body", "end", "category"})}
Done == {k \in Planned : k < position \/ (k = position /\ pc = "category")}

(* Only a scenario that begins, and one that ends, change what was begun   *)
(* and what was done.                                                      *)
LEMMA Headway ==
  ASSUME Placed, Progress, UNCHANGED config
  PROVE  /\ ~Begins => Started' = Started
         /\ ~Records => Done' = Done
         /\ Begins => position \in Planned /\ position \notin Started /\ Started' = Started \cup {position}
         /\ Records => position \in Planned /\ position \notin Done /\ Done' = Done \cup {position}
         /\ pc = "body" => position \in Planned /\ position \notin Done
         /\ Done \subseteq DOMAIN Scenarios /\ Started \subseteq DOMAIN Scenarios
<1>1. Planned' = Planned /\ Planned \subseteq DOMAIN Scenarios
  BY PlannedKept DEF Planned
<1>2. \A k \in Planned : k \in Nat /\ k > 0
  BY <1>1, TableDomain
<1>3. position \in Nat /\ \A k \in Planned : k < position => k # position
  <2>1. position \in Nat
    BY DEF Placed
  <2> QED
    BY <1>2, <2>1
<1>4. CASE UNCHANGED <<pc, position>>
  <2>1. Started' = Started /\ Done' = Done
    BY <1>1, <1>4 DEF Started, Done
  <2>2. ~Begins /\ ~Records
    BY <1>4 DEF Begins, Records, Ends
  <2> QED
    BY <1>1, <1>3, <2>1, <2>2 DEF Done, Started, Placed, AtScenario
<1>5. CASE Moves /\ pc = "setup" /\ pc' = "loop" /\ position' = After(0)
  <2>1. \A k \in Planned : ~ (k < After(0))
    BY <1>2, AfterIsNext
  <2>2. \A k \in Planned : ~ (k < 0)
    BY <1>2
  <2>3. position = 0
    BY <1>5 DEF Placed
  <2>4. Started = {} /\ Done = {} /\ Started' = {} /\ Done' = {}
    BY <1>1, <1>5, <2>1, <2>2, <2>3 DEF Started, Done
  <2> QED
    BY <1>1, <1>5, <2>4 DEF Begins, Records, Ends
<1>6. CASE Moves /\ UNCHANGED position /\ pc' # pc
  <2>1. /\ pc \in {"body", "end", "category"} <=> pc' \in {"body", "end", "category"}
        /\ pc # "category" /\ pc' # "category"
    BY <1>6 DEF Moves, Late
  <2>2. Started' = Started /\ Done' = Done
    BY <1>1, <1>6, <2>1 DEF Started, Done
  <2>3. ~Begins /\ ~Records
    BY <1>6, <2>1 DEF Begins, Records, Ends, Moves
  <2> QED
    BY <1>1, <1>3, <2>2, <2>3 DEF Done, Started, Placed, AtScenario
<1>7. CASE Begins
  <2>1. /\ pc \notin {"body", "end", "category"} /\ pc' = "body" /\ position' = position
        /\ position \in Planned
    <3>1. 26 \notin DOMAIN Scenarios
      BY TableDomain
    <3> QED
      BY <1>7, <3>1 DEF Begins, Placed, AtScenario
  <2>2. Done' = Done /\ Started' = Started \cup {position} /\ position \notin Started /\ ~Records
    BY <1>1, <1>3, <2>1 DEF Started, Done, Records, Ends
  <2> QED
    BY <1>1, <1>7, <2>1, <2>2 DEF Done, Started
<1>8. CASE Records
  BY <1>1, <1>3, <1>8 DEF Begins, Started, Done, Placed, Records, Ends, AtScenario
<1>9. CASE Reports
  <2>1. position \in Planned
    BY <1>9 DEF Reports, Placed, AtScenario
  <2>2. \A k \in Planned : k < After(position) <=> k < position \/ k = position
    <3>1. After(position) \in Nat /\ After(position) > position
      BY <1>1, <2>1, AfterIsNext, TableDomain
    <3>2. \A k \in Planned : k > position => After(position) <= k
      BY <1>3, AfterIsNext
    <3> QED
      BY <1>2, <1>3, <3>1, <3>2
  <2> QED
    BY <1>1, <1>9, <2>1, <2>2 DEF Reports, Started, Done, Begins, Records, Ends
<1> QED
  BY <1>4, <1>5, <1>6, <1>7, <1>8, <1>9 DEF Progress, Moves, Calls, Sets, Decides

-----------------------------------------------------------------------------
(* Attribution.                                                            *)

(* Every result belongs to a scenario that is done, every operation to one *)
(* that was begun or to setup, and the count of the scenario in progress   *)
(* is of its operations.                                                   *)
ResultsDone == \A i \in DOMAIN scenarios : \E k \in Done : scenarios[i].name = Scenarios[k].name
OperationsStarted ==
  \A n \in DOMAIN operations :
     operations[n].scenario = "" \/ \E k \in Started : operations[n].scenario = Scenarios[k].name
Counting == pc \in {"body", "end"} => scenarioOps = CountIn(operations, scenario)
Counts == \A i \in DOMAIN scenarios : scenarios[i].operations = CountIn(operations, scenarios[i].name)

Attributed == ResultsDone /\ OperationsStarted /\ Counting /\ Counts

LEMMA AttributedKept ==
  ASSUME Placed, C!TypeOK, Attributed, Progress, UNCHANGED config
  PROVE  Attributed'
<1>1. /\ ~Begins => Started' = Started
      /\ ~Records => Done' = Done
      /\ Begins => position \in Planned /\ position \notin Started /\ Started' = Started \cup {position}
      /\ Records => position \in Planned /\ position \notin Done /\ Done' = Done \cup {position}
      /\ pc = "body" => position \in Planned /\ position \notin Done
      /\ Done \subseteq DOMAIN Scenarios /\ Started \subseteq DOMAIN Scenarios
  BY Headway
<1>2. /\ operations \in Seq(C!Operation) /\ scenarios \in Seq(C!Scenario)
  BY DEF C!TypeOK, C!TrafficOK, C!ScenariosOK
<1>3. Planned \subseteq DOMAIN Scenarios
  BY DEF Planned
<1>4. CASE Moves \/ Sets \/ Decides \/ Reports
  <2>1. UNCHANGED <<scenario, scenarioOps, scenarios, operations>>
    BY <1>4 DEF Moves, Sets, Decides, Reports, marks
  <2>2. ~Begins /\ ~Records
    BY <1>4 DEF Moves, Sets, Decides, Reports, Begins, Records, Ends, Late
  <2>3. pc' \in {"body", "end"} => pc \in {"body", "end"}
    BY <1>4 DEF Moves, Sets, Decides, Reports, Late
  <2> QED
    BY <1>1, <2>1, <2>2, <2>3 DEF Attributed, ResultsDone, OperationsStarted, Counting, Counts
<1>5. CASE Calls
  <2>1. PICK ok \in BOOLEAN : operations' = Append(operations, [scenario |-> scenario, success |-> ok])
    BY <1>5 DEF Calls
  <2> DEFINE e == [scenario |-> scenario, success |-> ok]
  <2>2. e.scenario = scenario /\ operations' = Append(operations, e)
    BY <2>1
  <2> HIDE DEF e
  <2>3. /\ DOMAIN operations' = DOMAIN operations \cup {Len(operations) + 1}
        /\ \A n \in DOMAIN operations : operations'[n] = operations[n]
        /\ operations'[Len(operations) + 1] = e
    BY <1>2, <2>2, Appended
  <2>4. \A name : /\ name # scenario => CountIn(operations', name) = CountIn(operations, name)
                  /\ name = scenario => CountIn(operations', name) = CountIn(operations, name) + 1
    BY <1>2, <2>2, CountOfAppended
  <2>5. /\ UNCHANGED <<pc, scenario, scenarios>> /\ scenarioOps' = scenarioOps + 1
        /\ pc \in {"setup", "body"} /\ ~Begins /\ ~Records
    BY <1>5 DEF Calls, Begins, Records, Ends
  <2>6. scenario = "" \/ \E k \in Started : scenario = Scenarios[k].name
    <3>1. pc = "body" => position \in Started /\ scenario = Scenarios[position].name
      BY <1>1 DEF Placed, Started, Current
    <3> QED
      BY <2>5, <3>1 DEF Placed
  <2>7. \A i \in DOMAIN scenarios : scenarios[i].name # scenario
    <3> TAKE i \in DOMAIN scenarios
    <3>1. PICK k \in Done : scenarios[i].name = Scenarios[k].name
      BY DEF Attributed, ResultsDone
    <3>2. CASE pc = "setup"
      BY <1>1, <2>5, <3>1, <3>2, NamesDiffer, Zenon DEF Placed
    <3>3. CASE pc = "body"
      BY <1>1, <1>3, <3>1, <3>3, NamesDiffer DEF Placed, Current
    <3> QED
      BY <2>5, <3>2, <3>3
  <2>8. ResultsDone'
    BY <1>1, <2>5 DEF Attributed, ResultsDone
  <2>9. OperationsStarted'
    BY <1>1, <2>2, <2>3, <2>5, <2>6 DEF Attributed, OperationsStarted
  <2>10. Counting'
    BY <2>4, <2>5 DEF Attributed, Counting
  <2>11. Counts'
    BY <2>4, <2>5, <2>7 DEF Attributed, Counts
  <2> QED
    BY <2>8, <2>9, <2>10, <2>11 DEF Attributed
<1>6. CASE Begins
  <2>1. /\ UNCHANGED <<scenarios, operations>> /\ scenario' = Scenarios[position].name /\ scenarioOps' = 0
        /\ pc' = "body" /\ ~Records
    BY <1>6 DEF Begins, Records, Ends, Current
  <2>2. \A n \in DOMAIN operations : operations[n].scenario # Scenarios[position].name
    <3>1. Scenarios[position].name # "" /\ \A k \in Started : Scenarios[k].name # Scenarios[position].name
      BY <1>1, <1>3, <1>6, NamesDiffer
    <3> QED
      BY <3>1 DEF Attributed, OperationsStarted
  <2>3. CountIn(operations, Scenarios[position].name) = 0
    BY <2>2, CountOfNone
  <2> QED
    BY <1>1, <1>6, <2>1, <2>3 DEF Attributed, ResultsDone, OperationsStarted, Counting, Counts
<1>7. CASE Records
  <2> DEFINE r == [name |-> scenario, status |-> outcome, passed |-> outcome = "passed",
                   hardGate |-> Current.hard, operations |-> scenarioOps]
  <2>1. /\ scenarios' = Append(scenarios, r) /\ r.name = scenario /\ r.operations = scenarioOps
        /\ pc = "end" /\ pc' = "category" /\ ~Begins /\ UNCHANGED <<operations, scenario, scenarioOps>>
    BY <1>7 DEF Records, Ends, Begins
  <2> HIDE DEF r
  <2>2. /\ DOMAIN scenarios' = DOMAIN scenarios \cup {Len(scenarios) + 1}
        /\ \A n \in DOMAIN scenarios : scenarios'[n] = scenarios[n]
        /\ scenarios'[Len(scenarios) + 1] = r
    BY <1>2, <2>1, Appended
  <2>3. scenario = Scenarios[position].name /\ scenarioOps = CountIn(operations, scenario)
    BY <2>1 DEF Attributed, Counting, Placed, Current
  <2>4. ResultsDone'
    BY <1>1, <1>7, <2>1, <2>2, <2>3 DEF Attributed, ResultsDone
  <2>5. Counts'
    BY <2>1, <2>2, <2>3 DEF Attributed, Counts
  <2> QED
    BY <1>1, <2>1, <2>4, <2>5 DEF Attributed, OperationsStarted, Counting
<1> QED
  BY <1>4, <1>5, <1>6, <1>7 DEF Progress

LEMMA AttributedHolds == Spec => []Attributed
<1>1. Init => Attributed
  <2> SUFFICES ASSUME Init PROVE Attributed
    OBVIOUS
  <2>1. scenarios = << >> /\ operations = << >> /\ pc = "start"
    BY DEF Init, C!Init
  <2> QED
    BY <2>1 DEF Attributed, ResultsDone, OperationsStarted, Counting, Counts
<1>2. Placed /\ C!TypeOK /\ Attributed /\ [Next]_vars => Attributed'
  BY AttributedKept, EveryStepMoves
<1> QED
  BY <1>1, <1>2, PlacedHolds, CollectorTyped, PTL DEF Spec

(* Every operation counts for the scenario it was made in, whatever the    *)
(* profile and however many operations there are.                          *)
THEOREM RunAttributesOperations == Spec => []OperationsAttributed
<1>1. Attributed => OperationsAttributed
  BY DEF Attributed, Counts, CountIn, OperationsAttributed
<1> QED
  BY <1>1, AttributedHolds, PTL

-----------------------------------------------------------------------------
(* The category gates.                                                     *)

(* The results that have been reported to their category.                  *)
Reported == IF pc = "category" THEN DOMAIN scenarios \ {Len(scenarios)} ELSE DOMAIN scenarios

(* A category has the results reported to it and passes if all of them do. *)
Gated(c) ==
  /\ c \in DOMAIN categories <=> \E i \in Reported : InCategory(i, c)
  /\ c \in DOMAIN categories =>
       (categories[c].passed <=> \A i \in Reported : InCategory(i, c) => scenarios[i].passed)

LastToReport ==
  pc = "category" =>
    /\ Len(scenarios) \in DOMAIN scenarios
    /\ scenarios[Len(scenarios)].name = Current.name
    /\ scenarios[Len(scenarios)].passed <=> outcome = "passed"

CategoriesFollow == (\A c \in Categories : Gated(c)) /\ LastToReport

LEMMA InItsCategory ==
  ASSUME NEW i \in DOMAIN scenarios, NEW k \in DOMAIN Scenarios, scenarios[i].name = Scenarios[k].name, NEW c
  PROVE  InCategory(i, c) <=> c = Scenarios[k].category
BY NamesDiffer DEF InCategory

(* What a report makes of the category it is for, and of the others.       *)
LEMMA ReportEffect ==
  ASSUME C!TypeOK, NEW name, NEW passed \in BOOLEAN, NEW hard, NEW score,
         C!SetCategory(name, passed, hard, score)
  PROVE  /\ DOMAIN categories' = DOMAIN categories \cup {name}
         /\ \A c \in DOMAIN categories : c # name => categories'[c].passed = categories[c].passed
         /\ name \notin DOMAIN categories => (categories'[name].passed <=> passed)
         /\ name \in DOMAIN categories => (categories'[name].passed <=> categories[name].passed /\ passed)
<1> DEFINE fresh == [passed |-> passed, hardGate |-> hard, score |-> score]
           next(n) == IF n # name THEN categories[n]
                      ELSE IF name \in DOMAIN categories THEN C!Merge(categories[name], passed, hard, score)
                      ELSE fresh
<1>1. categories' = [n \in DOMAIN categories \cup {name} |-> next(n)]
  BY DEF C!SetCategory
<1>2. fresh.passed <=> passed
  OBVIOUS
<1>3. C!Merge(categories[name], passed, hard, score).passed <=> categories[name].passed /\ passed
  BY DEF C!Merge
<1> HIDE DEF fresh
<1> QED
  BY <1>1, <1>2, <1>3

LEMMA CategoriesKept ==
  ASSUME Placed, C!TypeOK, Attributed, CategoriesFollow, Progress, UNCHANGED config
  PROVE  CategoriesFollow'
<1>1. scenarios \in Seq(C!Scenario)
  BY DEF C!TypeOK, C!ScenariosOK
<1>2. CASE Moves \/ Calls \/ Begins \/ Sets \/ Decides
  <2>1. /\ UNCHANGED <<scenarios, categories>>
        /\ pc = "category" => UNCHANGED <<pc, position, outcome>>
        /\ pc' = "category" => pc = "category"
    BY <1>2 DEF Moves, Calls, Begins, Sets, Decides, marks, Late
  <2>2. Reported' = Reported
    BY <2>1 DEF Reported
  <2>3. \A i, c : InCategory(i, c)' <=> InCategory(i, c)
    BY <2>1 DEF InCategory
  <2> QED
    BY <2>1, <2>2, <2>3 DEF CategoriesFollow, Gated, LastToReport, Current
<1>3. CASE Records
  <2> DEFINE r == [name |-> scenario, status |-> outcome, passed |-> outcome = "passed",
                   hardGate |-> Current.hard, operations |-> scenarioOps]
             last == Len(scenarios) + 1
  <2>1. /\ scenarios' = Append(scenarios, r) /\ r.name = scenario /\ (r.passed <=> outcome = "passed")
        /\ pc = "end" /\ pc' = "category" /\ UNCHANGED <<categories, position, outcome>>
    BY <1>3 DEF Records, Ends
  <2> HIDE DEF r
  <2>2. /\ DOMAIN scenarios' = DOMAIN scenarios \cup {last} /\ last \notin DOMAIN scenarios
        /\ \A n \in DOMAIN scenarios : scenarios'[n] = scenarios[n]
        /\ scenarios'[last] = r
    BY <1>1, <2>1, Appended
  <2>3. Len(scenarios') = last
    BY <1>1, <2>1
  <2> HIDE DEF last
  <2>4. Reported' = DOMAIN scenarios /\ Reported = DOMAIN scenarios
    BY <2>1, <2>2, <2>3 DEF Reported
  <2>5. \A i \in DOMAIN scenarios : \A c : InCategory(i, c)' <=> InCategory(i, c)
    BY <2>2 DEF InCategory
  <2>6. \A c \in Categories : Gated(c)'
    BY <2>1, <2>2, <2>4, <2>5 DEF CategoriesFollow, Gated
  <2>7. LastToReport'
    BY <2>1, <2>2, <2>3 DEF LastToReport, Placed, Current
  <2> QED
    BY <2>6, <2>7 DEF CategoriesFollow
<1>4. CASE Reports
  <2> DEFINE name == Current.category
             passed == outcome = "passed"
             last == Len(scenarios)
  <2>1. /\ pc = "category" /\ pc' = "loop" /\ UNCHANGED scenarios
        /\ C!SetCategory(name, passed, Current.hard, C!ScoreOf(passed))
    BY <1>4 DEF Reports
  <2>2. /\ DOMAIN categories' = DOMAIN categories \cup {name}
        /\ \A c \in DOMAIN categories : c # name => categories'[c].passed = categories[c].passed
        /\ name \notin DOMAIN categories => (categories'[name].passed <=> passed)
        /\ name \in DOMAIN categories => (categories'[name].passed <=> categories[name].passed /\ passed)
    BY <2>1, ReportEffect
  <2>3. /\ last \in DOMAIN scenarios /\ (scenarios[last].passed <=> passed)
        /\ \A c : InCategory(last, c) <=> c = name
    <3>1. position \in DOMAIN Scenarios
      BY <2>1 DEF Placed, AtScenario, Planned
    <3> QED
      BY <2>1, <3>1, InItsCategory DEF CategoriesFollow, LastToReport, Current
  <2>4. Reported = DOMAIN scenarios \ {last} /\ Reported' = DOMAIN scenarios
    BY <2>1 DEF Reported
  <2>5. \A i, c : InCategory(i, c)' <=> InCategory(i, c)
    BY <2>1 DEF InCategory
  <2> HIDE DEF name, passed, last
  <2>6. ASSUME NEW c \in Categories PROVE Gated(c)'
    <3>1. Gated(c)
      BY DEF CategoriesFollow
    <3>2. CASE c # name
      BY <2>1, <2>2, <2>3, <2>4, <2>5, <3>1, <3>2 DEF Gated
    <3>3. CASE c = name
      <4>1. c \in DOMAIN categories' /\ \E i \in Reported' : InCategory(i, c)'
        BY <2>2, <2>3, <2>4, <2>5, <3>3
      <4>2. (\A i \in Reported' : InCategory(i, c)' => scenarios'[i].passed)
              <=> (\A i \in Reported : InCategory(i, c) => scenarios[i].passed) /\ passed
        BY <2>1, <2>3, <2>4, <2>5, <3>3
      <4> QED
        BY <2>2, <3>1, <3>3, <4>1, <4>2 DEF Gated
    <3> QED
      BY <3>2, <3>3
  <2> QED
    BY <2>1, <2>6 DEF CategoriesFollow, LastToReport
<1> QED
  BY <1>2, <1>3, <1>4 DEF Progress

LEMMA CategoriesHold == Spec => []CategoriesFollow
<1>1. Init => CategoriesFollow
  <2> SUFFICES ASSUME Init PROVE CategoriesFollow
    OBVIOUS
  <2>1. scenarios = << >> /\ DOMAIN categories = {} /\ pc = "start"
    BY DEF Init, C!Init
  <2> QED
    BY <2>1 DEF CategoriesFollow, Gated, LastToReport, Reported
<1>2. Placed /\ C!TypeOK /\ Attributed /\ CategoriesFollow /\ [Next]_vars => CategoriesFollow'
  BY CategoriesKept, EveryStepMoves
<1> QED
  BY <1>1, <1>2, PlacedHolds, CollectorTyped, AttributedHolds, PTL DEF Spec

(* Between scenarios a category passes exactly when all the scenarios of   *)
(* it that were run have passed, in every profile.                         *)
THEOREM RunGatesCategories == Spec => []CategoriesMatchScenarios
<1>1. C!TypeOK /\ CategoriesFollow => CategoriesMatchScenarios
  <2> SUFFICES ASSUME C!TypeOK, CategoriesFollow, pc # "category", NEW c \in Categories
               PROVE  LET inCategory == {i \in DOMAIN scenarios : InCategory(i, c)}
                      IN  /\ (c \in DOMAIN categories) = (inCategory # {})
                          /\ c \in DOMAIN categories =>
                               categories[c].passed = \A i \in inCategory : scenarios[i].passed
    BY DEF CategoriesMatchScenarios
  <2>1. Gated(c) /\ Reported = DOMAIN scenarios
    BY DEF CategoriesFollow, Reported
  <2>2. c \in DOMAIN categories => categories[c].passed \in BOOLEAN
    BY DEF C!TypeOK, C!CategoriesOK, C!Category
  <2> DEFINE S == {i \in DOMAIN scenarios : InCategory(i, c)}
             all == \A i \in S : scenarios[i].passed
  <2>3. c \in DOMAIN categories <=> S # {}
    BY <2>1 DEF Gated
  <2>4. c \in DOMAIN categories => (categories[c].passed <=> all)
    BY <2>1 DEF Gated
  <2>5. all \in BOOLEAN
    OBVIOUS
  <2>6. c \in DOMAIN categories => categories[c].passed = all
    <3> HIDE DEF all
    <3> QED
      BY <2>2, <2>4, <2>5
  <2>7. (c \in DOMAIN categories) = (S # {})
    <3> HIDE DEF S
    <3> QED
      BY <2>3
  <2> QED
    BY <2>6, <2>7
<1> QED
  BY <1>1, CollectorTyped, CategoriesHold, PTL

-----------------------------------------------------------------------------
(* Agent jobs.                                                             *)

SameNames == DOMAIN jobs' = DOMAIN jobs /\ \A i \in DOMAIN jobs : jobs'[i].name = jobs[i].name

(* No job begins or ends, and a manifest is only left with its job ended.  *)
JobsStay ==
  /\ activeJob' = activeJob /\ SameNames
  /\ \A i \in DOMAIN jobs : jobs'[i].passed <=> jobs[i].passed
  /\ pc = "body" /\ Declarative /\ outcome = "" /\ outcome' # "" => activeJob = 0 \/ ~Supported
JobBegins ==
  /\ pc = "body" /\ outcome = "" /\ ~Begun(Job) /\ (Measured \/ (Declarative /\ Supported))
  /\ jobs' = Append(jobs, C!NewJob(Job)) /\ activeJob' = Len(jobs) + 1
  /\ UNCHANGED <<pc, position, outcome, scenarios>>
JobEnds ==
  /\ pc = "body" /\ activeJob # 0 /\ activeJob' = 0 /\ SameNames
  /\ \A i \in DOMAIN jobs : i # activeJob => (jobs'[i].passed <=> jobs[i].passed)
  /\ \/ /\ Declarative /\ outcome = "" /\ outcome' = (IF jobs'[activeJob].passed THEN "" ELSE "failed")
     \/ /\ Measured /\ outcome # "" /\ outcome' = outcome
        /\ jobs'[activeJob].passed <=> outcome = "passed"
  /\ UNCHANGED <<pc, position, scenarios>>
JobFails ==
  /\ pc = "body" /\ Declarative /\ activeJob = 0 /\ activeJob' = 0 /\ SameNames
  /\ outcome = "" /\ outcome' = "failed"
  /\ \A i \in DOMAIN jobs : jobs[i].name # Job => (jobs'[i].passed <=> jobs[i].passed)
  /\ UNCHANGED <<pc, position, scenarios>>

JobProgress == JobsStay \/ JobBegins \/ JobEnds \/ JobFails

LEMMA ActiveIsJob ==
  ASSUME C!TypeOK
  PROVE  /\ jobs \in Seq(C!Job) /\ (activeJob # 0 => activeJob \in DOMAIN jobs)
         /\ DOMAIN jobs = 1 .. Len(jobs) /\ Len(jobs) \in Nat /\ 0 \notin DOMAIN jobs
<1>1. jobs \in Seq(C!Job) /\ activeJob \in Nat /\ (activeJob # 0 => activeJob = Len(jobs))
  BY DEF C!TypeOK, C!JobsOK
<1>2. DOMAIN jobs = 1 .. Len(jobs) /\ Len(jobs) \in Nat
  BY <1>1, LenProperties
<1>3. activeJob # 0 => activeJob \in 1 .. Len(jobs)
  BY <1>1, <1>2
<1>4. 0 \notin 1 .. Len(jobs)
  BY <1>2
<1> QED
  BY <1>1, <1>2, <1>3, <1>4

LEMMA CountingKeepsResult ==
  ASSUME NEW job \in C!Job
  PROVE  /\ \A kind, ok : /\ C!CountOperation(job, kind, ok).name = job.name
                          /\ C!CountOperation(job, kind, ok).passed = job.passed
         /\ \A req, resp : /\ C!CountMessage(job, req, resp).name = job.name
                           /\ C!CountMessage(job, req, resp).passed = job.passed
<1>1. ASSUME NEW kind, NEW ok
      PROVE  C!CountOperation(job, kind, ok).name = job.name /\ C!CountOperation(job, kind, ok).passed = job.passed
  <2> DEFINE counted == [job EXCEPT !.operations = @ + 1]
             failed == IF ok THEN counted ELSE [counted EXCEPT !.failedOperations = @ + 1]
  <2>1. DOMAIN counted = DOMAIN job /\ counted.name = job.name /\ counted.passed = job.passed
        /\ "name" \in DOMAIN job /\ "passed" \in DOMAIN job
    BY DEF C!Job
  <2>2. C!CountOperation(job, kind, ok) =
          IF kind = "maintenance" THEN [failed EXCEPT !.maintenanceOperations = @ + 1] ELSE failed
    BY DEF C!CountOperation
  <2> HIDE DEF counted
  <2>3. DOMAIN failed = DOMAIN job /\ failed.name = job.name /\ failed.passed = job.passed
    BY <2>1
  <2> HIDE DEF failed
  <2> QED
    BY <2>1, <2>2, <2>3
<1>2. ASSUME NEW req, NEW resp
      PROVE  C!CountMessage(job, req, resp).name = job.name /\ C!CountMessage(job, req, resp).passed = job.passed
  <2> DEFINE counted == [job EXCEPT !.traffic = C!AddMessage(@, req, resp)]
  <2>1. DOMAIN counted = DOMAIN job /\ counted.name = job.name /\ counted.passed = job.passed
        /\ "name" \in DOMAIN job /\ "passed" \in DOMAIN job
    BY DEF C!Job
  <2>2. C!CountMessage(job, req, resp) =
          [counted EXCEPT !.estimatedTokens = @ + C!EstimateTokens(req) + C!EstimateTokens(resp)]
    BY DEF C!CountMessage
  <2> HIDE DEF counted
  <2> QED
    BY <2>1, <2>2
<1> QED
  BY <1>1, <1>2

LEMMA JobsCounted ==
  ASSUME C!TypeOK, NEW job,
         jobs' = IF activeJob = 0 THEN jobs ELSE [jobs EXCEPT ![activeJob] = job],
         activeJob # 0 => job.name = jobs[activeJob].name /\ job.passed = jobs[activeJob].passed
  PROVE  SameNames /\ \A i \in DOMAIN jobs : jobs'[i].passed <=> jobs[i].passed
BY ActiveIsJob DEF SameNames

LEMMA JobsObserved ==
  ASSUME C!TypeOK
  PROVE  /\ \A kind, ok : C!Observe(kind, ok) =>
              activeJob' = activeJob /\ SameNames /\ \A i \in DOMAIN jobs : jobs'[i].passed <=> jobs[i].passed
         /\ \A req, resp, plaintext : C!ObserveWire(req, resp, plaintext) =>
              activeJob' = activeJob /\ SameNames /\ \A i \in DOMAIN jobs : jobs'[i].passed <=> jobs[i].passed
<1>1. activeJob # 0 => jobs[activeJob] \in C!Job
  BY ActiveIsJob
<1>2. ASSUME NEW kind, NEW ok, C!Observe(kind, ok)
      PROVE  activeJob' = activeJob /\ SameNames /\ \A i \in DOMAIN jobs : jobs'[i].passed <=> jobs[i].passed
  <2> DEFINE job == C!CountOperation(jobs[activeJob], kind, ok)
  <2>1. /\ activeJob' = activeJob
        /\ jobs' = IF activeJob = 0 THEN jobs ELSE [jobs EXCEPT ![activeJob] = job]
    BY <1>2 DEF C!Observe
  <2>2. activeJob # 0 => job.name = jobs[activeJob].name /\ job.passed = jobs[activeJob].passed
    BY <1>1, CountingKeepsResult
  <2> HIDE DEF job
  <2> QED
    BY <2>1, <2>2, JobsCounted
<1>3. ASSUME NEW req, NEW resp, NEW plaintext, C!ObserveWire(req, resp, plaintext)
      PROVE  activeJob' = activeJob /\ SameNames /\ \A i \in DOMAIN jobs : jobs'[i].passed <=> jobs[i].passed
  <2> DEFINE job == C!CountMessage(jobs[activeJob], req, resp)
  <2>1. /\ activeJob' = activeJob
        /\ jobs' = IF activeJob = 0 THEN jobs ELSE [jobs EXCEPT ![activeJob] = job]
    BY <1>3 DEF C!ObserveWire
  <2>2. activeJob # 0 => job.name = jobs[activeJob].name /\ job.passed = jobs[activeJob].passed
    BY <1>1, CountingKeepsResult
  <2> HIDE DEF job
  <2> QED
    BY <2>1, <2>2, JobsCounted
<1> QED
  BY <1>2, <1>3

LEMMA EndedJob ==
  ASSUME C!TypeOK, activeJob # 0, NEW ok \in BOOLEAN, C!EndAgentJob(ok)
  PROVE  /\ activeJob' = 0 /\ SameNames /\ (jobs'[activeJob].passed <=> ok)
         /\ \A i \in DOMAIN jobs : i # activeJob => (jobs'[i].passed <=> jobs[i].passed)
         /\ scenarios' = scenarios
<1>1. jobs \in Seq(C!Job) /\ activeJob \in DOMAIN jobs
  BY ActiveIsJob
<1>2. jobs' = [jobs EXCEPT ![activeJob] = [jobs[activeJob] EXCEPT !.passed = ok]]
  BY DEF C!EndAgentJob
<1>3. jobs[activeJob] \in C!Job
  BY <1>1
<1> DEFINE job == [jobs[activeJob] EXCEPT !.passed = ok]
<1>4. job.name = jobs[activeJob].name /\ (job.passed <=> ok)
  BY <1>3 DEF C!Job
<1>5. jobs' = [jobs EXCEPT ![activeJob] = job]
  BY <1>2
<1>6. activeJob' = 0 /\ scenarios' = scenarios
  BY DEF C!EndAgentJob, C!scenarioVars
<1> HIDE DEF job
<1> QED
  BY <1>1, <1>4, <1>5, <1>6 DEF SameNames

LEMMA FailedJob ==
  ASSUME C!TypeOK, NEW name, C!FailAgentJob(name)
  PROVE  /\ activeJob' = activeJob /\ SameNames /\ scenarios' = scenarios
         /\ \A i \in DOMAIN jobs : jobs[i].name # name => (jobs'[i].passed <=> jobs[i].passed)
<1> DEFINE named == {i \in DOMAIN jobs : jobs[i].name = name}
           failed(i) == i \in named /\ \A k \in named : k <= i
<1>1. /\ jobs' = [i \in DOMAIN jobs |-> IF failed(i) THEN [jobs[i] EXCEPT !.passed = FALSE] ELSE jobs[i]]
      /\ activeJob' = activeJob /\ scenarios' = scenarios
  BY DEF C!FailAgentJob, C!scenarioVars
<1>2. \A i \in DOMAIN jobs : [jobs[i] EXCEPT !.passed = FALSE].name = jobs[i].name
  <2>1. \A i \in DOMAIN jobs : jobs[i] \in C!Job
    BY ActiveIsJob
  <2> QED
    BY <2>1 DEF C!Job
<1>3. \A i \in DOMAIN jobs : jobs[i].name # name => ~failed(i)
  OBVIOUS
<1> HIDE DEF failed
<1> QED
  BY <1>1, <1>2, <1>3 DEF SameNames

LEMMA NoGateOfManifests == Declarative => Raises(Current.name) = {}
BY DEF Declarative, Raises

LEMMA BodyJobs == C!TypeOK /\ Body => JobProgress
<1> SUFFICES ASSUME C!TypeOK, Body PROVE JobProgress
  OBVIOUS
<1>1. ASSUME NEW kind, NEW ok, BodyCall(kind, ok) PROVE JobsStay
  BY <1>1, JobsObserved DEF BodyCall, JobsStay, mainVars
<1>2. ASSUME NEW req, NEW resp, NEW plaintext, Message(req, resp, plaintext) PROVE JobsStay
  BY <1>2, JobsObserved DEF Message, JobsStay, mainVars
<1>3. BeginJob => JobBegins
  BY DEF BeginJob, JobBegins, C!BeginAgentJob, C!scenarioVars, mainVars
<1>4. ASSUME NEW f, SetFixture(f) PROVE JobsStay
  BY <1>4 DEF SetFixture, JobsStay, SameNames, collectorVars
<1>5. ASSUME NEW counter, NEW delta, RaiseViolation(counter, delta) PROVE JobsStay
  <2>1. ~Declarative
    BY <1>5, NoGateOfManifests DEF RaiseViolation
  <2>2. UNCHANGED <<jobs, activeJob>>
    BY <1>5 DEF RaiseViolation, C!AddReliability, C!jobVars
  <2> QED
    BY <2>1, <2>2 DEF JobsStay, SameNames
<1>6. ASSUME NEW ok \in BOOLEAN, EndManifestJob(ok) PROVE JobEnds
  <2>1. /\ C!EndAgentJob(ok) /\ activeJob # 0 /\ Declarative /\ outcome = "" /\ pc = "body"
        /\ outcome' = (IF ok THEN "" ELSE "failed") /\ UNCHANGED <<pc, position>>
    BY <1>6 DEF EndManifestJob, Running, Close
  <2> QED
    BY <2>1, EndedJob DEF JobEnds
<1>7. FailManifestJob => JobFails
  <2> SUFFICES ASSUME FailManifestJob PROVE JobFails
    OBVIOUS
  <2>1. /\ C!FailAgentJob(Job) /\ activeJob = 0 /\ Declarative /\ outcome = "" /\ pc = "body"
        /\ outcome' = "failed" /\ UNCHANGED <<pc, position>>
    BY DEF FailManifestJob, Running, Close
  <2> QED
    BY <2>1, FailedJob DEF JobFails
<1>8. Unsupported => JobsStay
  BY DEF Unsupported, Close, JobsStay, SameNames, collectorVars
<1>9. Fail => JobsStay
  <2>1. Measured => ~Declarative
    BY DEF Measured, Declarative
  <2> QED
    BY <2>1 DEF Fail, Running, Close, JobsStay, SameNames, collectorVars
<1>10. ASSUME NEW latency, Pass(latency) PROVE JobsStay
  BY <1>10 DEF Pass, Close, JobsStay, SameNames, collectorVars
<1>11. EndMeasuredJob => JobEnds
  <2> SUFFICES ASSUME EndMeasuredJob PROVE JobEnds
    OBVIOUS
  <2>1. /\ C!EndAgentJob(outcome = "passed") /\ activeJob # 0 /\ Measured /\ outcome # "" /\ pc = "body"
        /\ UNCHANGED <<pc, position, outcome>>
    BY DEF EndMeasuredJob, mainVars
  <2>2. (outcome = "passed") \in BOOLEAN
    OBVIOUS
  <2> QED
    BY <2>1, <2>2, EndedJob DEF JobEnds
<1> QED
  BY <1>1, <1>2, <1>3, <1>4, <1>5, <1>6, <1>7, <1>8, <1>9, <1>10, <1>11 DEF Body, JobProgress

LEMMA OtherJobs ==
  C!TypeOK /\ (Starting \/ Reporting \/ Finishing \/ Tick \/ Sample \/ SamplerStops \/ Cancel \/ UNCHANGED vars)
    => JobsStay
<1> SUFFICES ASSUME C!TypeOK,
                    Starting \/ Reporting \/ Finishing \/ Tick \/ Sample \/ SamplerStops \/ Cancel \/ UNCHANGED vars
             PROVE  JobsStay
  OBVIOUS
<1>1. pc # "body" \/ outcome' = outcome
  BY DEF Starting, UnknownProfile, Setup, SetupCall, SetupFails, StartSampler, Reporting, NoBrowser,
         BeginScenario, Judge, EndScenario, SetCategory, Finishing, Score, Return, CloseStop, LastSample,
         WriteJSON, Exit, Tick, Sample, SamplerStops, Cancel, vars, mainVars
<1>2. ASSUME NEW ok \in BOOLEAN, SetupCall(ok) PROVE JobsStay
  BY <1>1, <1>2, JobsObserved DEF SetupCall, JobsStay
<1>3. CASE UNCHANGED <<jobs, activeJob>>
  BY <1>1, <1>3 DEF JobsStay, SameNames
<1>4. CASE Starting
  BY <1>2, <1>3, <1>4 DEF Starting, UnknownProfile, Setup, SetupFails, StartSampler, C!AddInvalid, C!AddResource,
                          C!jobVars, collectorVars
<1>5. CASE Reporting
  BY <1>3, <1>5 DEF Reporting, NoBrowser, BeginScenario, Judge, EndScenario, SetCategory, C!AddInvalid,
                    C!BeginScenario, C!EndScenarioStatus, C!SetCategory, C!jobVars, collectorVars
<1>6. CASE Finishing
  BY <1>3, <1>6 DEF Finishing, Score, Return, CloseStop, LastSample, WriteJSON, Exit, C!AddResource,
                    C!jobVars, collectorVars
<1>7. CASE Tick \/ Sample \/ SamplerStops \/ Cancel \/ UNCHANGED vars
  BY <1>3, <1>7 DEF Tick, Sample, SamplerStops, Cancel, vars, C!AddResource, C!jobVars, collectorVars
<1> QED
  BY <1>4, <1>5, <1>6, <1>7

LEMMA EveryStepOfJobs == C!TypeOK /\ [Next]_vars => JobProgress
BY BodyJobs, OtherJobs DEF Next, Main, JobProgress

-----------------------------------------------------------------------------
(* Jobs and their scenarios.                                               *)

Address == "address-to-first-collaboration"
Efficiency == "agent_efficiency_jobs"

(* The scenario in progress did not pass and is going to fail the run.     *)
Failing == pc \in {"body", "end"} /\ (outcome = "failed" \/ (outcome = "unsupported" /\ Current.hard))

(* Which job can be active, and where.                                     *)
ActiveInBody ==
  /\ activeJob # 0 => /\ pc = "body" /\ (Measured \/ (Declarative /\ Supported))
                      /\ jobs[activeJob].name = Job
  /\ pc = "body" /\ Declarative /\ outcome # "" => activeJob = 0

(* The measured job exists once its scenario has begun, and says what the  *)
(* scenario does.                                                          *)
AddressJobs ==
  \A i \in DOMAIN jobs : jobs[i].name = Address =>
    /\ \E k \in Started : Scenarios[k].name = Efficiency
    /\ pc \in {"body", "end"} /\ Measured /\ i # activeJob =>
         outcome # "" /\ (jobs[i].passed <=> outcome = "passed")
    /\ \A n \in DOMAIN scenarios : scenarios[n].name = Efficiency =>
         (jobs[i].passed <=> scenarios[n].passed)

(* A job that did not pass fails the run.                                  *)
FailedJobs ==
  \A i \in DOMAIN jobs : i # activeJob /\ ~jobs[i].passed => ~C!Passed \/ Failing

JobsTracked == ActiveInBody /\ AddressJobs /\ FailedJobs

LEMMA JobNamed ==
  /\ Measured => Job = Address /\ ~Declarative
  /\ Declarative => Job # Address /\ ~Measured
  /\ Measured <=> Current.name = Efficiency
BY DEF Job, Measured, Declarative, Address, Efficiency

LEMMA JobsBeHard == (Measured \/ Declarative) /\ position \in DOMAIN Scenarios => Current.hard
<1>1. Measured \/ Declarative => Current.name # "transport_interoperability"
  BY DEF Measured, Declarative
<1> QED
  BY <1>1, EntryFields DEF Current

(* What has begun and what is recorded of the measured scenario.           *)
LEMMA EfficiencyOnce ==
  ASSUME Placed, Attributed, position \in Planned, Current.name = Efficiency
  PROVE  /\ position \notin Started => ~ \E k \in Started : Scenarios[k].name = Efficiency
         /\ position \notin Done => ~ \E n \in DOMAIN scenarios : scenarios[n].name = Efficiency
<1>1. Started \subseteq DOMAIN Scenarios /\ Done \subseteq DOMAIN Scenarios /\ position \in DOMAIN Scenarios
  BY DEF Started, Done, Planned
<1> QED
  BY <1>1, NamesDiffer DEF Attributed, ResultsDone, Current

LEMMA SamePlace ==
  ASSUME UNCHANGED <<config, position>>
  PROVE  /\ Current' = Current /\ (Measured' <=> Measured) /\ (Declarative' <=> Declarative)
         /\ (Supported' <=> Supported) /\ Job' = Job
BY DEF Current, Measured, Declarative, Supported, Job

(* No job begins or ends.                                                  *)
LEMMA StayTracked ==
  ASSUME Placed, C!TypeOK, Attributed, JobsTracked, JobsStay, Progress, UNCHANGED config,
         ~C!Passed => ~C!Passed', Records => (outcome = "failed" \/ (outcome = "unsupported" /\ Current.hard) => ~C!Passed')
  PROVE  JobsTracked'
<1>1. /\ ~Begins => Started' = Started
      /\ ~Records => Done' = Done
      /\ Begins => position \in Planned /\ position \notin Started /\ Started' = Started \cup {position}
      /\ Records => position \in Planned /\ position \notin Done /\ Done' = Done \cup {position}
      /\ pc = "body" => position \in Planned /\ position \notin Done
      /\ Done \subseteq DOMAIN Scenarios /\ Started \subseteq DOMAIN Scenarios
  BY Headway
<1>2. /\ activeJob' = activeJob /\ DOMAIN jobs' = DOMAIN jobs
      /\ \A i \in DOMAIN jobs : jobs'[i].name = jobs[i].name /\ (jobs'[i].passed <=> jobs[i].passed)
      /\ activeJob # 0 => activeJob \in DOMAIN jobs
  BY ActiveIsJob DEF JobsStay, SameNames
<1>3. Begins \/ Started' = Started
  BY <1>1
<1>4. ActiveInBody'
  <2>1. CASE UNCHANGED <<pc, position>>
    <3>1. /\ (Measured' <=> Measured) /\ (Declarative' <=> Declarative)
          /\ (Supported' <=> Supported) /\ Job' = Job
      BY <2>1, SamePlace
    <3>2. activeJob # 0 => /\ pc = "body" /\ (Measured \/ (Declarative /\ Supported))
                           /\ jobs'[activeJob].name = Job
      BY <1>2 DEF JobsTracked, ActiveInBody
    <3>3. pc = "body" /\ Declarative /\ outcome' # "" => activeJob = 0
      BY JobNamed DEF JobsTracked, ActiveInBody, JobsStay
    <3> QED
      BY <1>2, <2>1, <3>1, <3>2, <3>3 DEF ActiveInBody
  <2>2. CASE pc # "body" /\ pc' # pc
    BY <1>2, <2>2 DEF JobsTracked, ActiveInBody
  <2>3. CASE pc = "body" /\ pc' # pc
    <3>1. pc' = "end" /\ outcome # "" /\ ~(Measured /\ activeJob # 0)
      BY <2>3 DEF Progress, Moves, Calls, Begins, Sets, Decides, Records, Ends, Reports, Late
    <3>2. activeJob = 0
      BY <2>3, <3>1 DEF JobsTracked, ActiveInBody
    <3> QED
      BY <1>2, <3>1, <3>2 DEF ActiveInBody
  <2>4. pc' = pc => position' = position
    BY DEF Progress, Moves, Calls, Begins, Sets, Decides, Records, Ends, Reports, marks, Late
  <2> QED
    BY <2>1, <2>2, <2>3, <2>4
<1>5. FailedJobs'
  <2>1. Failing => Failing' \/ Records
    <3>1. CASE UNCHANGED <<position, outcome>> /\ pc' \in {"body", "end"}
      BY <3>1 DEF Failing, Current
    <3>2. Failing => Records \/ (UNCHANGED <<position, outcome>> /\ pc' \in {"body", "end"})
      BY DEF Failing, Progress, Moves, Calls, Begins, Sets, Decides, Records, Ends, Reports, marks, Late, C!Statuses
    <3> QED
      BY <3>1, <3>2
  <2>2. Failing => Failing' \/ ~C!Passed'
    BY <2>1 DEF Failing
  <2> QED
    BY <1>2, <2>2 DEF JobsTracked, FailedJobs
<1>6. AddressJobs'
  <2> SUFFICES ASSUME NEW i \in DOMAIN jobs, jobs[i].name = Address
               PROVE  /\ \E k \in Started' : Scenarios[k].name = Efficiency
                      /\ pc' \in {"body", "end"} /\ Measured' /\ i # activeJob' =>
                           outcome' # "" /\ (jobs[i].passed <=> outcome' = "passed")
                      /\ \A n \in DOMAIN scenarios' : scenarios'[n].name = Efficiency =>
                           (jobs[i].passed <=> scenarios'[n].passed)
    BY <1>2 DEF AddressJobs
  <2>1. /\ \E k \in Started : Scenarios[k].name = Efficiency
        /\ pc \in {"body", "end"} /\ Measured /\ i # activeJob =>
             outcome # "" /\ (jobs[i].passed <=> outcome = "passed")
        /\ \A n \in DOMAIN scenarios : scenarios[n].name = Efficiency =>
             (jobs[i].passed <=> scenarios[n].passed)
    BY DEF JobsTracked, AddressJobs
  <2>2. \E k \in Started' : Scenarios[k].name = Efficiency
    BY <1>1, <2>1
  <2>3. CASE Begins
    <3>1. Current.name # Efficiency
      BY <1>1, <2>1, <2>3, EfficiencyOnce
    <3>2. ~Measured' /\ scenarios' = scenarios
      BY <2>3, <3>1, SamePlace, JobNamed DEF Begins
    <3> QED
      BY <2>1, <2>2, <3>2
  <2>4. CASE Records
    <3> DEFINE r == [name |-> scenario, status |-> outcome, passed |-> outcome = "passed",
                     hardGate |-> Current.hard, operations |-> scenarioOps]
    <3>1. /\ scenarios' = Append(scenarios, r) /\ r.name = Current.name /\ (r.passed <=> outcome = "passed")
          /\ pc = "end" /\ pc' = "category"
      BY <2>4 DEF Records, Ends, Placed
    <3> HIDE DEF r
    <3>2. scenarios \in Seq(C!Scenario)
      BY DEF C!TypeOK, C!ScenariosOK
    <3>3. /\ DOMAIN scenarios' = DOMAIN scenarios \cup {Len(scenarios) + 1}
          /\ \A n \in DOMAIN scenarios : scenarios'[n] = scenarios[n]
          /\ scenarios'[Len(scenarios) + 1] = r
      BY <3>1, <3>2, Appended
    <3>4. activeJob = 0 /\ i # 0
      BY <3>1, ActiveIsJob DEF JobsTracked, ActiveInBody
    <3>5. r.name = Efficiency => (jobs[i].passed <=> r.passed)
      BY <2>1, <3>1, <3>4, JobNamed
    <3> QED
      BY <2>1, <2>2, <3>1, <3>3, <3>5
  <2>5. CASE ~Begins /\ ~Records
    <3>1. scenarios' = scenarios
      BY <2>5 DEF Progress, Moves, Calls, Sets, Decides, Reports, marks
    <3>2. pc' \in {"body", "end"} => /\ pc \in {"body", "end"} /\ UNCHANGED position
                                     /\ outcome' = outcome \/ (pc = "body" /\ outcome = "")
      BY <2>5 DEF Progress, Moves, Calls, Sets, Decides, Reports, marks, Late
    <3>3. pc' \in {"body", "end"} => (Measured' <=> Measured)
      BY <3>2, SamePlace
    <3>4. pc' \in {"body", "end"} /\ Measured' /\ i # activeJob' =>
            outcome' # "" /\ (jobs[i].passed <=> outcome' = "passed")
      <4> SUFFICES ASSUME pc' \in {"body", "end"}, Measured', i # activeJob'
                   PROVE  outcome' # "" /\ (jobs[i].passed <=> outcome' = "passed")
        OBVIOUS
      <4>1. outcome # "" /\ (jobs[i].passed <=> outcome = "passed")
        BY <1>2, <2>1, <3>2, <3>3
      <4> QED
        BY <3>2, <4>1
    <3>5. \A n \in DOMAIN scenarios' : scenarios'[n].name = Efficiency =>
             (jobs[i].passed <=> scenarios'[n].passed)
      BY <2>1, <3>1
    <3> QED
      BY <2>2, <3>4, <3>5
  <2> QED
    BY <2>3, <2>4, <2>5
<1> QED
  BY <1>4, <1>5, <1>6 DEF JobsTracked

(* A job begins.                                                           *)
LEMMA BeginTracked ==
  ASSUME Placed, C!TypeOK, Attributed, JobsTracked, JobBegins, Progress, UNCHANGED config,
         ~C!Passed => ~C!Passed'
  PROVE  JobsTracked'
<1> DEFINE new == C!NewJob(Job)
           last == Len(jobs) + 1
<1>1. /\ pc = "body" /\ outcome = "" /\ (Measured \/ (Declarative /\ Supported)) /\ ~Begun(Job)
      /\ jobs' = Append(jobs, new) /\ activeJob' = last
      /\ UNCHANGED <<pc, position, outcome, scenarios>>
  BY DEF JobBegins
<1>2. new.name = Job
  BY DEF C!NewJob
<1> HIDE DEF new
<1>3. /\ DOMAIN jobs' = DOMAIN jobs \cup {last} /\ last \notin DOMAIN jobs
      /\ \A i \in DOMAIN jobs : jobs'[i] = jobs[i]
      /\ jobs'[last] = new
      /\ activeJob # 0 => activeJob \in DOMAIN jobs
  <2>1. jobs \in Seq(C!Job) /\ (activeJob # 0 => activeJob \in DOMAIN jobs)
    BY ActiveIsJob
  <2>2. /\ DOMAIN Append(jobs, new) = DOMAIN jobs \cup {Len(jobs) + 1} /\ Len(jobs) + 1 \notin DOMAIN jobs
        /\ \A i \in DOMAIN jobs : Append(jobs, new)[i] = jobs[i]
        /\ Append(jobs, new)[Len(jobs) + 1] = new
    BY <2>1, Appended
  <2> QED
    BY <1>1, <2>1, <2>2
<1> HIDE DEF last
<1>4. /\ Current' = Current /\ (Measured' <=> Measured) /\ (Declarative' <=> Declarative)
      /\ (Supported' <=> Supported) /\ Job' = Job
  BY <1>1, SamePlace
<1>5. activeJob = 0
  BY <1>1, <1>3 DEF JobsTracked, ActiveInBody, Begun
<1>6. Started' = Started /\ position \in Planned /\ position \in Started /\ position \notin Done
  <2>1. Started' = Started /\ position \in Planned /\ position \notin Done
    BY <1>1, Headway DEF Begins
  <2> QED
    BY <1>1, <2>1 DEF Started
<1>7. ActiveInBody'
  BY <1>1, <1>2, <1>3, <1>4 DEF ActiveInBody
<1>8. FailedJobs'
  BY <1>1, <1>3, <1>4, <1>5, ActiveIsJob DEF JobsTracked, FailedJobs, Failing
<1>9. AddressJobs'
  <2> SUFFICES ASSUME NEW i \in DOMAIN jobs', jobs'[i].name = Address
               PROVE  /\ \E k \in Started' : Scenarios[k].name = Efficiency
                      /\ pc' \in {"body", "end"} /\ Measured' /\ i # activeJob' =>
                           outcome' # "" /\ (jobs'[i].passed <=> outcome' = "passed")
                      /\ \A n \in DOMAIN scenarios' : scenarios'[n].name = Efficiency =>
                           (jobs'[i].passed <=> scenarios'[n].passed)
    BY DEF AddressJobs
  <2>1. CASE i = last
    <3>1. Measured /\ Current.name = Efficiency
      BY <1>1, <1>2, <1>3, <2>1, JobNamed
    <3>2. ~ \E n \in DOMAIN scenarios : scenarios[n].name = Efficiency
      BY <1>6, <3>1, EfficiencyOnce
    <3>3. Scenarios[position].name = Efficiency
      BY <3>1 DEF Current
    <3> QED
      BY <1>1, <1>6, <2>1, <3>2, <3>3
  <2>2. CASE i # last
    <3>1. i \in DOMAIN jobs /\ jobs'[i] = jobs[i]
      BY <1>3, <2>2
    <3>2. ~Measured
      BY <1>1, <3>1, JobNamed DEF Begun
    <3> QED
      BY <1>1, <1>4, <1>6, <3>1, <3>2 DEF JobsTracked, AddressJobs
  <2> QED
    BY <2>1, <2>2
<1> QED
  BY <1>7, <1>8, <1>9 DEF JobsTracked

(* A job ends, or one of the jobs before fails.                            *)
LEMMA EndTracked ==
  ASSUME Placed, C!TypeOK, Attributed, JobsTracked, JobEnds \/ JobFails, Progress, UNCHANGED config,
         ~C!Passed => ~C!Passed'
  PROVE  JobsTracked'
<1>1. /\ pc = "body" /\ activeJob' = 0 /\ DOMAIN jobs' = DOMAIN jobs
      /\ \A i \in DOMAIN jobs : jobs'[i].name = jobs[i].name
      /\ UNCHANGED <<pc, position, scenarios>>
  BY DEF JobEnds, JobFails, SameNames
<1>2. /\ Current' = Current /\ (Measured' <=> Measured) /\ (Declarative' <=> Declarative)
      /\ (Supported' <=> Supported) /\ Job' = Job
  BY <1>1, SamePlace
<1>3. Started' = Started /\ position \in Planned /\ position \notin Done
  BY <1>1, Headway DEF Begins
<1>4. position \in DOMAIN Scenarios
  BY <1>3 DEF Planned
<1>5. ActiveInBody'
  BY <1>1 DEF ActiveInBody
<1>6. FailedJobs'
  <2>1. CASE JobFails
    BY <1>1, <2>1 DEF JobFails, FailedJobs, Failing
  <2>2. CASE JobEnds
    <3>1. Failing => Failing'
      BY <1>1, <1>2, <2>2 DEF JobEnds, Failing
    <3>2. ~jobs'[activeJob].passed => Failing'
      <4>1. Current.hard
        BY <1>4, <2>2, JobsBeHard DEF JobEnds
      <4>2. CASE Declarative
        BY <1>1, <2>2, <4>2, JobNamed DEF JobEnds, Failing
      <4>3. CASE Measured
        <5>1. /\ outcome # "" /\ outcome' = outcome
              /\ jobs'[activeJob].passed <=> outcome = "passed"
          BY <2>2, <4>3, JobNamed DEF JobEnds
        <5>2. outcome \in {"passed", "failed", "unsupported"}
          BY <5>1 DEF Placed, C!Statuses
        <5> QED
          BY <1>1, <1>2, <4>1, <5>1, <5>2 DEF Failing
      <4> QED
        BY <2>2, <4>2, <4>3 DEF JobEnds
    <3>3. \A i \in DOMAIN jobs : i # activeJob => (jobs'[i].passed <=> jobs[i].passed)
      BY <2>2 DEF JobEnds
    <3>4. ASSUME NEW i \in DOMAIN jobs, ~jobs'[i].passed PROVE ~C!Passed' \/ Failing'
      <4>1. CASE i = activeJob
        BY <3>2, <3>4, <4>1
      <4>2. CASE i # activeJob
        BY <3>1, <3>3, <3>4, <4>2 DEF JobsTracked, FailedJobs
      <4> QED
        BY <4>1, <4>2
    <3> QED
      BY <1>1, <3>4 DEF FailedJobs
  <2> QED
    BY <2>1, <2>2
<1>7. AddressJobs'
  <2> SUFFICES ASSUME NEW i \in DOMAIN jobs, jobs[i].name = Address
               PROVE  /\ \E k \in Started' : Scenarios[k].name = Efficiency
                      /\ pc' \in {"body", "end"} /\ Measured' /\ i # activeJob' =>
                           outcome' # "" /\ (jobs'[i].passed <=> outcome' = "passed")
                      /\ \A n \in DOMAIN scenarios' : scenarios'[n].name = Efficiency =>
                           (jobs'[i].passed <=> scenarios'[n].passed)
    BY <1>1 DEF AddressJobs
  <2>1. /\ \E k \in Started : Scenarios[k].name = Efficiency
        /\ pc \in {"body", "end"} /\ Measured /\ i # activeJob =>
             outcome # "" /\ (jobs[i].passed <=> outcome = "passed")
        /\ \A n \in DOMAIN scenarios : scenarios[n].name = Efficiency =>
             (jobs[i].passed <=> scenarios[n].passed)
    BY DEF JobsTracked, AddressJobs
  <2>2. CASE Declarative
    <3>1. jobs'[i].passed <=> jobs[i].passed
      <4>1. activeJob # 0 => jobs[activeJob].name = Job
        BY DEF JobsTracked, ActiveInBody
      <4>2. jobs[i].name # Job
        BY <2>2, JobNamed
      <4>3. CASE JobEnds
        <5>1. i # activeJob
          BY <4>1, <4>2, <4>3 DEF JobEnds
        <5> QED
          BY <4>3, <5>1 DEF JobEnds
      <4>4. CASE JobFails
        BY <4>2, <4>4 DEF JobFails
      <4> QED
        BY <4>3, <4>4
    <3>2. ~Measured'
      BY <1>2, <2>2, JobNamed
    <3> QED
      BY <1>1, <1>3, <2>1, <3>1, <3>2
  <2>3. CASE Measured
    <3>1. ~ \E n \in DOMAIN scenarios : scenarios[n].name = Efficiency
      BY <1>3, <2>3, JobNamed, EfficiencyOnce
    <3>2. /\ outcome # "" /\ outcome' = outcome
          /\ \A j \in DOMAIN jobs : j # activeJob => (jobs'[j].passed <=> jobs[j].passed)
          /\ jobs'[activeJob].passed <=> outcome = "passed"
      BY <2>3, JobNamed DEF JobEnds, JobFails
    <3>3. jobs'[i].passed <=> outcome = "passed"
      <4>1. CASE i = activeJob
        BY <3>2, <4>1
      <4>2. CASE i # activeJob
        BY <1>1, <2>1, <2>3, <3>2, <4>2
      <4> QED
        BY <4>1, <4>2
    <3> QED
      BY <1>1, <1>3, <2>1, <3>1, <3>2, <3>3
  <2> QED
    BY <2>2, <2>3 DEF JobEnds, JobFails
<1> QED
  BY <1>5, <1>6, <1>7 DEF JobsTracked

(* Of a scenario that is recorded, a result that blocks fails the run.     *)
LEMMA RecordedBlocks ==
  ASSUME C!TypeOK, Records, outcome = "failed" \/ (outcome = "unsupported" /\ Current.hard)
  PROVE  ~C!Passed'
<1> DEFINE r == [name |-> scenario, status |-> outcome, passed |-> outcome = "passed",
                 hardGate |-> Current.hard, operations |-> scenarioOps]
<1>1. scenarios' = Append(scenarios, r) /\ UNCHANGED invalidReasons
  BY DEF Records, Ends
<1>2. C!BlockingScenario(r)
  BY DEF C!BlockingScenario
<1> HIDE DEF r
<1>3. scenarios \in Seq(C!Scenario)
  BY DEF C!TypeOK, C!ScenariosOK
<1> QED
  BY <1>1, <1>2, <1>3, EndsAdds

(* No step makes a run pass that does not.                                 *)
LEMMA NeverPassesAgain ==
  ASSUME Inv, [Next]_vars
  PROVE  ~C!Passed => ~C!Passed'
BY Steps, FailedStaysFailed DEF Inv

LEMMA JobsTrackedHolds == Spec => []JobsTracked
<1>1. Init => JobsTracked
  <2> SUFFICES ASSUME Init PROVE JobsTracked
    OBVIOUS
  <2>1. jobs = << >> /\ activeJob = 0 /\ pc = "start"
    BY DEF Init, C!Init
  <2> QED
    BY <2>1 DEF JobsTracked, ActiveInBody, AddressJobs, FailedJobs
<1>2. Inv /\ Placed /\ C!TypeOK /\ Attributed /\ JobsTracked /\ [Next]_vars => JobsTracked'
  <2> SUFFICES ASSUME Inv, Placed, C!TypeOK, Attributed, JobsTracked, [Next]_vars PROVE JobsTracked'
    OBVIOUS
  <2>1. Progress /\ UNCHANGED config /\ JobProgress /\ (~C!Passed => ~C!Passed')
    BY EveryStepMoves, EveryStepOfJobs, NeverPassesAgain
  <2>2. Records => (outcome = "failed" \/ (outcome = "unsupported" /\ Current.hard) => ~C!Passed')
    BY RecordedBlocks
  <2> QED
    BY <2>1, <2>2, StayTracked, BeginTracked, EndTracked DEF JobProgress
<1> QED
  BY <1>1, <1>2, InvHolds, PlacedHolds, CollectorTyped, AttributedHolds, PTL DEF Spec

(* A job is measured only while the function that began it runs, on every  *)
(* way out of it, and passes if and only if its scenario does; a run that  *)
(* passes has no failed job.                                               *)
THEOREM RunMeasuresJobs == Spec => []JobsFollowScenarios
<1>1. Inv /\ C!TypeOK /\ JobsTracked => JobsFollowScenarios
  <2> SUFFICES ASSUME Inv, C!TypeOK, JobsTracked PROVE JobsFollowScenarios
    OBVIOUS
  <2>1. activeJob # 0 => pc = "body" /\ (Measured \/ Declarative)
    BY DEF JobsTracked, ActiveInBody
  <2>2. ASSUME exitCode = 0, NEW i \in DOMAIN jobs PROVE jobs[i].passed
    <3>1. pc = "exited" /\ C!Passed
      BY <2>2 DEF Inv, Published
    <3>2. activeJob = 0 /\ ~Failing /\ i # 0
      BY <2>1, <3>1, ActiveIsJob DEF Failing
    <3> QED
      BY <3>1, <3>2 DEF JobsTracked, FailedJobs
  <2>3. ASSUME NEW i \in DOMAIN jobs, jobs[i].name = "address-to-first-collaboration",
               NEW k \in DOMAIN scenarios, scenarios[k].name = "agent_efficiency_jobs"
        PROVE  jobs[i].passed = scenarios[k].passed
    <3>1. jobs[i].passed <=> scenarios[k].passed
      BY <2>3 DEF JobsTracked, AddressJobs, Address, Efficiency
    <3>2. jobs[i] \in C!Job /\ scenarios[k] \in C!Scenario
      BY DEF C!TypeOK, C!JobsOK, C!ScenariosOK
    <3>3. jobs[i].passed \in BOOLEAN /\ scenarios[k].passed \in BOOLEAN
      BY <3>2 DEF C!Job, C!Scenario
    <3> QED
      BY <3>1, <3>3
  <2> QED
    BY <2>1, <2>2, <2>3 DEF JobsFollowScenarios
<1> QED
  BY <1>1, InvHolds, CollectorTyped, JobsTrackedHolds, PTL

-----------------------------------------------------------------------------
(* Fixtures.                                                               *)

(* What a scenario needs of the ones before it is left by scenarios of its *)
(* own category or of these.                                               *)
Needed(category) ==
  CASE category = "permissions" -> {"server"}
    [] category = "groups" -> {"server"}
    [] category = "forums" -> {"server", "groups"}
    [] category = "declarative" -> {"server", "groups", "forums"}
    [] category = "transport" -> {"server"}
    [] category = "efficiency" -> {"server"}
    [] category = "browser" -> {"server", "core"}
    [] OTHER -> {}

LEMMA ProfilesComplete ==
  ASSUME NEW p \in DOMAIN Profile, NEW category \in Profile[p].categories
  PROVE  Needed(category) \subseteq Profile[p].categories
BY DEF Profile, Needed

LEMMA WritersLeave ==
  /\ Scenarios[4].category = "core" /\ Scenarios[4].hard /\ "groupID" \in Scenarios[4].writes
  /\ Scenarios[5].category = "core" /\ Scenarios[5].hard /\ "postID" \in Scenarios[5].writes
  /\ Scenarios[13].category = "server" /\ Scenarios[13].hard /\ "serverID" \in Scenarios[13].writes
  /\ Scenarios[16].category = "groups" /\ Scenarios[16].hard /\ "groupIDV2" \in Scenarios[16].writes
  /\ Scenarios[17].category = "forums" /\ Scenarios[17].hard /\ "postIDV2" \in Scenarios[17].writes
BY DEF Scenarios, Entry

LEMMA OthersRead == \A k \in 1 .. 25 : k \notin {14, 16, 17, 20, 21, 22, 23, 25} => Scenarios[k].reads = {}
BY DEF Scenarios, Entry

LEMMA ReadersRead ==
  /\ Scenarios[14].category = "permissions" /\ Scenarios[14].reads = {"serverID"}
  /\ Scenarios[16].category = "groups" /\ Scenarios[16].reads = {"serverID"}
  /\ Scenarios[17].category = "forums" /\ Scenarios[17].reads = {"serverID", "groupIDV2"}
  /\ Scenarios[20].category = "declarative" /\ Scenarios[20].reads = {"serverID", "groupIDV2", "postIDV2"}
  /\ Scenarios[21].category = "transport" /\ Scenarios[21].reads = {"serverID"}
  /\ Scenarios[22].category = "transport" /\ Scenarios[22].reads = {"serverID"}
  /\ Scenarios[23].category = "efficiency" /\ Scenarios[23].reads = {"serverID"}
  /\ Scenarios[25].category = "browser" /\ Scenarios[25].reads = {"serverID", "groupID", "postID"}
BY DEF Scenarios, Entry

(* Every field a scenario reads is set by an earlier hard one of the same  *)
(* profile.                                                                *)
LEMMA Provided ==
  ASSUME NEW p, NEW k \in DOMAIN Scenarios, Allows(p, Scenarios[k].category),
         NEW f \in Scenarios[k].reads
  PROVE  \E j \in DOMAIN Scenarios :
           /\ j < k /\ Allows(p, Scenarios[j].category)
           /\ Scenarios[j].hard /\ f \in Scenarios[j].writes
<1>1. k \in {14, 16, 17, 20, 21, 22, 23, 25}
  BY OthersRead, TableDomain
<1>2. p \in DOMAIN Profile /\ Scenarios[k].category \in Profile[p].categories
  BY DEF Allows
<1>3. \A c \in Needed(Scenarios[k].category) : Allows(p, c)
  BY <1>2, ProfilesComplete DEF Allows
<1>4. \/ f = "serverID" /\ k > 13 /\ "server" \in Needed(Scenarios[k].category)
      \/ f = "groupID" /\ k > 4 /\ "core" \in Needed(Scenarios[k].category)
      \/ f = "postID" /\ k > 5 /\ "core" \in Needed(Scenarios[k].category)
      \/ f = "groupIDV2" /\ k > 16 /\ "groups" \in Needed(Scenarios[k].category)
      \/ f = "postIDV2" /\ k > 17 /\ "forums" \in Needed(Scenarios[k].category)
  <2>1. f = "serverID" => "server" \in Needed(Scenarios[k].category)
    BY <1>1, ReadersRead DEF Needed
  <2> QED
    BY <1>1, ReadersRead DEF Needed
<1>5. CASE f = "serverID"
  BY <1>3, <1>4, <1>5, WritersLeave, TableDomain
<1>6. CASE f = "groupID"
  BY <1>3, <1>4, <1>6, WritersLeave, TableDomain
<1>7. CASE f = "postID"
  BY <1>3, <1>4, <1>7, WritersLeave, TableDomain
<1>8. CASE f = "groupIDV2"
  BY <1>3, <1>4, <1>8, WritersLeave, TableDomain
<1>9. CASE f = "postIDV2"
  BY <1>3, <1>4, <1>9, WritersLeave, TableDomain
<1> QED
  BY <1>4, <1>5, <1>6, <1>7, <1>8, <1>9

-----------------------------------------------------------------------------
(* What a hard scenario that passed was to leave behind is there.          *)
Filled ==
  /\ \A k \in Done : Scenarios[k].hard => Scenarios[k].writes \subseteq fixtures \/ ~C!Passed
  /\ pc \in {"body", "end"} /\ outcome = "passed" => Current.writes \subseteq fixtures

LEMMA FilledKept ==
  ASSUME Placed, C!TypeOK, Filled, Progress, UNCHANGED config, ~C!Passed => ~C!Passed'
  PROVE  Filled'
<1>1. fixtures \subseteq fixtures'
  BY DEF Progress, Moves, Calls, Begins, Sets, Decides, Records, Reports, marks
<1>2. /\ ~Records => Done' = Done
      /\ Records => Done' = Done \cup {position}
  BY Headway
<1>3. \A k \in Done : Scenarios[k].hard => Scenarios[k].writes \subseteq fixtures' \/ ~C!Passed'
  BY <1>1 DEF Filled
<1>4. CASE Records
  <2>1. pc = "end" /\ pc' = "category" /\ outcome \in C!Statuses
    BY <1>4 DEF Records, Ends, Placed
  <2>2. outcome = "passed" => Current.writes \subseteq fixtures'
    BY <1>1, <2>1 DEF Filled
  <2>3. outcome # "passed" => (Current.hard => ~C!Passed')
    BY <1>4, <2>1, RecordedBlocks DEF C!Statuses
  <2>4. Scenarios[position].hard => Scenarios[position].writes \subseteq fixtures' \/ ~C!Passed'
    BY <2>2, <2>3 DEF Current
  <2> QED
    BY <1>2, <1>3, <1>4, <2>1, <2>4 DEF Filled
<1>5. CASE ~Records
  <2>1. ASSUME pc' \in {"body", "end"}, outcome' = "passed" PROVE Current'.writes \subseteq fixtures'
    <3>1. CASE Moves
      <4>1. pc \in {"body", "end"} /\ outcome = "passed" /\ Current' = Current
        <5>1. position' = position \/ pc' = "loop"
          BY <3>1 DEF Moves
        <5> QED
          BY <2>1, <3>1, <5>1 DEF Moves, Late, Current
      <4> QED
        BY <1>1, <4>1 DEF Filled
    <3>2. CASE Calls \/ Begins
      BY <2>1, <3>2 DEF Calls, Begins
    <3>3. CASE Sets
      <4>1. pc = "body" /\ outcome = "passed" /\ Current' = Current
        BY <2>1, <3>3 DEF Sets, Current
      <4> QED
        BY <1>1, <4>1 DEF Filled
    <3>4. CASE Decides
      <4>1. Current.writes \subseteq fixtures /\ Current' = Current
        BY <2>1, <3>4 DEF Decides, Current
      <4> QED
        BY <1>1, <4>1
    <3>5. CASE Reports
      BY <2>1, <3>5 DEF Reports
    <3> QED
      BY <1>5, <3>1, <3>2, <3>3, <3>4, <3>5 DEF Progress
  <2> QED
    BY <1>2, <1>3, <1>5, <2>1 DEF Filled
<1> QED
  BY <1>4, <1>5

LEMMA FilledHolds == Spec => []Filled
<1>1. Init => Filled
  <2> SUFFICES ASSUME Init PROVE Filled
    OBVIOUS
  <2>1. pc = "start" /\ position = 0
    BY DEF Init
  <2>2. \A k \in Planned : ~ (k < 0) /\ k # 0
    BY TableDomain DEF Planned
  <2> QED
    BY <2>1, <2>2 DEF Filled, Done
<1>2. Inv /\ Placed /\ C!TypeOK /\ Filled /\ [Next]_vars => Filled'
  BY EveryStepMoves, NeverPassesAgain, FilledKept
<1> QED
  BY <1>1, <1>2, InvHolds, PlacedHolds, CollectorTyped, PTL DEF Spec

(* In every profile, a field of the Harness a scenario reads has been set  *)
(* by an earlier one, unless the run has failed.                           *)
THEOREM RunFindsFixtures == Spec => []FixturesReady
<1>1. Placed /\ Filled => FixturesReady
  <2> SUFFICES ASSUME Placed, Filled, Running, C!Passed, NEW f \in Current.reads PROVE f \in fixtures
    BY DEF FixturesReady
  <2>1. position \in Planned /\ position \in Nat
    BY DEF Running, Placed, AtScenario
  <2>2. /\ position \in DOMAIN Scenarios /\ Allows(config.profile, Scenarios[position].category)
        /\ f \in Scenarios[position].reads
    BY <2>1 DEF Planned, Current
  <2>3. PICK j \in DOMAIN Scenarios : /\ j < position /\ Allows(config.profile, Scenarios[j].category)
                                      /\ Scenarios[j].hard /\ f \in Scenarios[j].writes
    BY <2>2, Provided
  <2>4. j \in Done
    BY <2>3 DEF Done, Planned
  <2> QED
    BY <2>3, <2>4 DEF Filled
<1> QED
  BY <1>1, PlacedHolds, FilledHolds, PTL

-----------------------------------------------------------------------------
(* The score, for every amount of effort: it stays between 0 and 100       *)
(* points and never rises with the effort.                                 *)

(* Dividing by more gives no more.                                         *)
LEMMA QuotientFalls ==
  ASSUME NEW a \in Nat, NEW m \in Nat \ {0}, NEW n \in Nat \ {0}, m <= n
  PROVE  a \div n <= a \div m
<1>1. /\ a \div m \in Nat /\ a \div n \in Nat
      /\ a < m * ((a \div m) + 1)
      /\ n * (a \div n) <= a
  BY Z3
<1> DEFINE p == a \div m   q == a \div n
<1>2. p \in Nat /\ q \in Nat /\ a < m * (p + 1) /\ n * q <= a
  BY <1>1
<1> HIDE DEF p, q
<1>3. SUFFICES ASSUME q >= p + 1 PROVE FALSE
  BY <1>2 DEF p, q
<1>4. m * (p + 1) <= n * q
  BY <1>2, <1>3, Z3
<1> QED
  BY <1>2, <1>4
(* A part of the score never exceeds its weight,                           *)
LEMMA ShareBounded ==
  ASSUME NEW weight \in Nat, NEW target \in Nat \ {0}, NEW amount \in Int
  PROVE  /\ Share(weight, target, amount) \in Int
         /\ 0 <= Share(weight, target, amount) /\ Share(weight, target, amount) <= 100 * weight
<1> DEFINE present == IF amount <= 0 THEN 1 ELSE amount
           top == 100 * weight
<1>1. present \in Nat \ {0} /\ top \in Nat
  OBVIOUS
<1> HIDE DEF present, top
<1>2. CASE present <= target
  BY <1>1, <1>2 DEF Share, present, top
<1>3. CASE present > target
  <2>1. top * target \in Nat /\ target <= present
    BY <1>1, <1>3
  <2>2. (top * target) \div present <= (top * target) \div target
    BY <1>1, <2>1, QuotientFalls
  <2>3. (top * target) \div target = top /\ (top * target) \div present \in Nat
    BY <1>1, <2>1, Z3
  <2>4. Share(weight, target, amount) = (top * target) \div present
    BY <1>1, <1>3 DEF Share, present, top
  <2> QED
    BY <1>1, <2>2, <2>3, <2>4 DEF top
<1> QED
  BY <1>1, <1>2, <1>3

(* and falls with the amount.                                              *)
LEMMA ShareFalls ==
  ASSUME NEW weight \in Nat, NEW target \in Nat \ {0}, NEW m \in Int, NEW n \in Int, m <= n
  PROVE  Share(weight, target, n) <= Share(weight, target, m)
<1> DEFINE p == IF m <= 0 THEN 1 ELSE m
           q == IF n <= 0 THEN 1 ELSE n
           top == 100 * weight
<1>1. p \in Nat \ {0} /\ q \in Nat \ {0} /\ p <= q /\ top \in Nat /\ top * target \in Nat
  BY Z3
<1>2. Share(weight, target, m) = IF p <= target THEN top ELSE (top * target) \div p
  BY DEF Share
<1>3. Share(weight, target, n) = IF q <= target THEN top ELSE (top * target) \div q
  BY DEF Share
<1>4. Share(weight, target, n) <= top
  BY ShareBounded
<1> HIDE DEF p, q, top
<1>5. CASE p <= target
  BY <1>1, <1>2, <1>4, <1>5
<1>6. CASE p > target
  <2>1. (top * target) \div q <= (top * target) \div p
    BY <1>1, QuotientFalls
  <2> QED
    BY <1>1, <1>2, <1>3, <1>6, <2>1
<1> QED
  BY <1>1, <1>5, <1>6

Counters == {"messageLoss", "orderingViolations", "failedResumes", "accessControlViolations"}

(* The scorecards EfficiencyScore may be given.                            *)
Cards ==
  [passed : BOOLEAN, reliability : [Counters -> Int], encryptionViolations : Int,
   successfulActions : Nat, operations : Nat, roundTrips : Nat,
   estimatedTotalTokens : Nat, firstCollaboration : Nat]

(* Less effort of every kind, no fewer successful actions and no gate that *)
(* fails: the card that is at least as good.                               *)
NoWorse(better, worse) ==
  /\ GatesPass(worse) => GatesPass(better)
  /\ better.successfulActions # 0
  /\ better.operations <= worse.operations
  /\ better.roundTrips <= worse.roundTrips
  /\ better.estimatedTotalTokens <= worse.estimatedTotalTokens
  /\ better.firstCollaboration <= worse.firstCollaboration

(* The four parts of a card's score.                                       *)
CallsPart(c) == Share(30, 40, c.operations)
TripsPart(c) == Share(20, 10, c.roundTrips)
TokensPart(c) == Share(25, 4000, c.estimatedTotalTokens)
TimePart(c) == Share(25, 5000, c.firstCollaboration)

LEMMA PartsBounded ==
  ASSUME NEW c \in Cards
  PROVE  /\ CallsPart(c) \in Int /\ 0 <= CallsPart(c) /\ CallsPart(c) <= 3000
         /\ TripsPart(c) \in Int /\ 0 <= TripsPart(c) /\ TripsPart(c) <= 2000
         /\ TokensPart(c) \in Int /\ 0 <= TokensPart(c) /\ TokensPart(c) <= 2500
         /\ TimePart(c) \in Int /\ 0 <= TimePart(c) /\ TimePart(c) <= 2500
<1>1. /\ c.operations \in Int /\ c.roundTrips \in Int
      /\ c.estimatedTotalTokens \in Int /\ c.firstCollaboration \in Int
  BY DEF Cards
<1>2. \A w \in Nat, t \in Nat \ {0}, a \in Int :
         Share(w, t, a) \in Int /\ 0 <= Share(w, t, a) /\ Share(w, t, a) <= 100 * w
  BY ShareBounded
<1>3. CallsPart(c) \in Int /\ 0 <= CallsPart(c) /\ CallsPart(c) <= 100 * 30
  BY <1>1, <1>2 DEF CallsPart
<1>4. TripsPart(c) \in Int /\ 0 <= TripsPart(c) /\ TripsPart(c) <= 100 * 20
  BY <1>1, <1>2 DEF TripsPart
<1>5. TokensPart(c) \in Int /\ 0 <= TokensPart(c) /\ TokensPart(c) <= 100 * 25
  BY <1>1, <1>2 DEF TokensPart
<1>6. TimePart(c) \in Int /\ 0 <= TimePart(c) /\ TimePart(c) <= 100 * 25
  BY <1>1, <1>2 DEF TimePart
<1> QED
  BY <1>3, <1>4, <1>5, <1>6

LEMMA ScoreOfParts ==
  ASSUME NEW c
  PROVE  EfficiencyScore(c) = IF ~GatesPass(c) \/ c.successfulActions = 0 THEN 0
                              ELSE CallsPart(c) + TripsPart(c) + TokensPart(c) + TimePart(c)
BY DEF EfficiencyScore, CallsPart, TripsPart, TokensPart, TimePart

(* A score is between 0 and 100 points, whatever the card ("The bounded    *)
(* efficiency score" of the README).                                       *)
THEOREM ScoreBounded ==
  ASSUME NEW c \in Cards
  PROVE  EfficiencyScore(c) \in Int /\ 0 <= EfficiencyScore(c) /\ EfficiencyScore(c) <= Perfect
<1> DEFINE sum == CallsPart(c) + TripsPart(c) + TokensPart(c) + TimePart(c)
<1>1. sum \in Int /\ 0 <= sum /\ sum <= 10000
  <2>1. /\ CallsPart(c) \in Int /\ 0 <= CallsPart(c) /\ CallsPart(c) <= 3000
        /\ TripsPart(c) \in Int /\ 0 <= TripsPart(c) /\ TripsPart(c) <= 2000
        /\ TokensPart(c) \in Int /\ 0 <= TokensPart(c) /\ TokensPart(c) <= 2500
        /\ TimePart(c) \in Int /\ 0 <= TimePart(c) /\ TimePart(c) <= 2500
    BY PartsBounded
  <2> QED
    BY <2>1
<1>2. EfficiencyScore(c) \in {0, sum}
  BY ScoreOfParts
<1> HIDE DEF sum
<1> QED
  BY <1>1, <1>2 DEF Perfect

(* "lower effort for equivalent successful work scores higher"             *)
(* (efficiency.go:6): a card that is no worse never has the lower score.   *)
THEOREM LessEffortScoresNoLess ==
  ASSUME NEW c \in Cards, NEW d \in Cards, NoWorse(c, d)
  PROVE  EfficiencyScore(d) <= EfficiencyScore(c)
<1>1. /\ c.operations \in Int /\ d.operations \in Int /\ c.operations <= d.operations
      /\ c.roundTrips \in Int /\ d.roundTrips \in Int /\ c.roundTrips <= d.roundTrips
  BY DEF Cards, NoWorse
<1>2. /\ c.estimatedTotalTokens \in Int /\ d.estimatedTotalTokens \in Int
      /\ c.estimatedTotalTokens <= d.estimatedTotalTokens
      /\ c.firstCollaboration \in Int /\ d.firstCollaboration \in Int
      /\ c.firstCollaboration <= d.firstCollaboration
  BY DEF Cards, NoWorse
<1>3. CallsPart(d) <= CallsPart(c)
  BY <1>1, ShareFalls DEF CallsPart
<1>4. TripsPart(d) <= TripsPart(c)
  BY <1>1, ShareFalls DEF TripsPart
<1>5. TokensPart(d) <= TokensPart(c)
  BY <1>2, ShareFalls DEF TokensPart
<1>6. TimePart(d) <= TimePart(c)
  BY <1>2, ShareFalls DEF TimePart
<1>7. /\ CallsPart(d) + TripsPart(d) + TokensPart(d) + TimePart(d)
           <= CallsPart(c) + TripsPart(c) + TokensPart(c) + TimePart(c)
      /\ 0 <= CallsPart(c) + TripsPart(c) + TokensPart(c) + TimePart(c)
  BY <1>3, <1>4, <1>5, <1>6, PartsBounded
<1>8. CASE GatesPass(d) /\ d.successfulActions # 0
  BY <1>7, <1>8, ScoreOfParts DEF NoWorse
<1>9. CASE ~(GatesPass(d) /\ d.successfulActions # 0)
  BY <1>7, <1>9, ScoreOfParts
<1> QED
  BY <1>8, <1>9

=============================================================================
