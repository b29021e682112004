------------------------------ MODULE Verdict ------------------------------
(***************************************************************************)
(* What a benchmark run promises: gates may be broken while it runs, and   *)
(* at its end one exit code is published, 0 exactly when none was, or 2 if *)
(* the scorecard could not be written.  Nothing changes after that.        *)
(***************************************************************************)
EXTENDS Integers

VARIABLES
  breached,  \* whether a gate was broken
  code       \* the exit code, -1 while the program runs

vars == <<breached, code>>

Init == breached = FALSE /\ code = -1

Breach ==
  /\ code = -1
  /\ breached' = TRUE
  /\ UNCHANGED code

Publish ==
  /\ code = -1
  /\ code' \in {IF breached THEN 1 ELSE 0, 2}
  /\ UNCHANGED breached

Next == Breach \/ Publish

Spec == Init /\ [][Next]_vars

=============================================================================
