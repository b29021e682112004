---------------------------- MODULE MCCollector ----------------------------
(***************************************************************************)
(* Instances of the collector for TLC: a few calls of each method.         *)
(***************************************************************************)
EXTENDS Collector

CONSTANTS
  MaxJobs, MaxScenarios, MaxOperations, MaxMessages, MaxInvalid,
                  \* bounds on how often each method is called and how far a counter goes
  MaxRecords      \* bound on what is recorded in all lists together

Raised == Cardinality({c \in ReliabilityCounters : reliability[c] # 0})
Recorded == Len(jobs) + Len(scenarios) + Len(operations) + Len(wire) + invalidReasons + Raised

WithinBounds ==
  /\ Len(jobs) <= MaxJobs /\ Len(scenarios) <= MaxScenarios
  /\ Len(operations) <= MaxOperations /\ Len(wire) <= MaxMessages
  /\ invalidReasons <= MaxInvalid + encryptionViolations
  /\ Raised <= MaxInvalid
  /\ \A c \in ReliabilityCounters : reliability[c] \in -MaxInvalid .. MaxInvalid
  /\ Recorded <= MaxRecords

(* Collector's Next, one disjunct for each method, as far as the bounds go. *)
BoundedNext ==
  \/ \E name \in JobNames : BeginAgentJob(name) /\ WithinBounds'
  \/ \E passed \in BOOLEAN : EndAgentJob(passed)
  \/ \E name \in JobNames : FailAgentJob(name)
  \/ \E name \in ScenarioNames : BeginScenario(name)
  \/ \E status \in Statuses, hard \in BOOLEAN : EndScenarioStatus(status, hard) /\ WithinBounds'
  \/ \E name \in CategoryNames, passed, hard \in BOOLEAN :
        SetCategory(name, passed, hard, ScoreOf(passed))
  \/ \E kind \in OperationKinds, ok \in BOOLEAN : Observe(kind, ok) /\ WithinBounds'
  \/ \E req, resp \in Sizes, plaintext \in BOOLEAN :
        ObserveWire(req, resp, plaintext) /\ WithinBounds'
  \/ \E counter \in ReliabilityCounters, delta \in Deltas :
        AddReliability(counter, delta) /\ WithinBounds'
  \/ AddInvalid /\ WithinBounds'
  \/ AddResource

BoundedSpec == Init /\ [][BoundedNext]_vars

=============================================================================
