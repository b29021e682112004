------------------------------ MODULE Scoring ------------------------------
(***************************************************************************)
(* EfficiencyScore of efficiency.go, as a function of the scorecard's      *)
(* fields it reads.  The code computes with floats; here a score is a      *)
(* number of hundredths of a point, each of its four parts rounded down.   *)
(***************************************************************************)
EXTENDS Integers

Perfect == 10000

(* weight * cap(target / amount), where an amount that is missing (0, or   *)
(* below) is taken to be 1.                                                *)
Share(weight, target, amount) ==
  LET present == IF amount <= 0 THEN 1 ELSE amount
  IN  IF present <= target THEN 100 * weight ELSE (100 * weight * target) \div present

(* Operators whose name has an underscore are faults: variants of the      *)
(* definition they are named for that the checks tell apart from the code. *)
GatesPass_CountersOnly(card) ==
  /\ card.reliability["messageLoss"] <= 0
  /\ card.reliability["orderingViolations"] <= 0
  /\ card.reliability["accessControlViolations"] <= 0
  /\ card.encryptionViolations <= 0

GatesPass(card) ==
  /\ card.passed
  /\ card.reliability["messageLoss"] <= 0
  /\ card.reliability["orderingViolations"] <= 0
  /\ card.reliability["accessControlViolations"] <= 0
  /\ card.encryptionViolations <= 0

EfficiencyScore(card) ==
  IF ~GatesPass(card) \/ card.successfulActions = 0 THEN 0
  ELSE Share(30, 40, card.operations) + Share(20, 10, card.roundTrips)
         + Share(25, 4000, card.estimatedTotalTokens) + Share(25, 5000, card.firstCollaboration)

=============================================================================
