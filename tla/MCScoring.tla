----------------------------- MODULE MCScoring -----------------------------
(***************************************************************************)
(* Scorecards of growing effort, to compare the scores they get.           *)
(***************************************************************************)
EXTENDS Scoring

CONSTANTS
  Calls,      \* how many operations a step adds
  Tokens,     \* the token estimates of a step's messages
  Latencies,  \* times to the first collaboration
  MaxCalls, MaxTokens \* bounds on the totals

VARIABLE card

NoViolations ==
  [c \in {"messageLoss", "orderingViolations", "accessControlViolations"} |-> 0]

Init ==
  card = [passed |-> TRUE, reliability |-> NoViolations, encryptionViolations |-> 0,
          successfulActions |-> 0, operations |-> 0, roundTrips |-> 0,
          estimatedTotalTokens |-> 0, firstCollaboration |-> 0]

(* Operations, of which all or none succeed; an operation may take no      *)
(* message, or several.                                                    *)
Operate(calls, ok) ==
  /\ card.operations + calls <= MaxCalls
  /\ card' = [card EXCEPT !.operations = @ + calls,
                          !.successfulActions = @ + (IF ok THEN calls ELSE 0)]

Exchange(calls, tokens) ==
  /\ card.roundTrips + calls <= MaxCalls /\ card.estimatedTotalTokens + tokens <= MaxTokens
  /\ card' = [card EXCEPT !.roundTrips = @ + calls, !.estimatedTotalTokens = @ + tokens]

Collaborate(ms) ==
  /\ card.firstCollaboration = 0
  /\ card' = [card EXCEPT !.firstCollaboration = ms]

Violate ==
  /\ card.passed
  /\ \/ card' = [card EXCEPT !.passed = FALSE]
     \/ card' = [card EXCEPT !.encryptionViolations = 1]
     \/ \E c \in DOMAIN NoViolations : card' = [card EXCEPT !.reliability[c] = 1]

Next ==
  \/ \E calls \in Calls, ok \in BOOLEAN : Operate(calls, ok)
  \/ \E calls \in Calls, tokens \in Tokens : Exchange(calls, tokens)
  \/ \E ms \in Latencies : Collaborate(ms)
  \/ Violate

Spec == Init /\ [][Next]_card

(* efficiency.go:7 "omitted data cannot improve the result": leaving out   *)
(* the time to the first collaboration.                                    *)
OmissionDoesNotPay ==
  EfficiencyScore([card EXCEPT !.firstCollaboration = 0]) <= EfficiencyScore(card)

=============================================================================
