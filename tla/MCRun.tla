------------------------------- MODULE MCRun -------------------------------
(***************************************************************************)
(* Instances of a benchmark run for TLC.                                   *)
(***************************************************************************)
EXTENDS Run

(* One lost message and one message too many. *)
MCDeltas == {-1, 1}

(* Clients with every capability, and with none. *)
Starts(profiles, flags, drivers, cancellable, calls, messages, failures) ==
  [profile : profiles, flag : flags, capabilities : {Capabilities, {}}, driver : drivers,
   cancellable : {cancellable}, calls : {calls}, messages : {messages},
   failures : {failures}]

(* Short profiles with everything that can happen to a run at once, longer *)
(* ones with less of it.                                                   *)
MCSettings ==
  Starts({"reliability", "nosuch"}, BOOLEAN, {FALSE}, TRUE, 1, 1, 2)
  \cup Starts({"efficiency"}, {FALSE}, {FALSE}, TRUE, 1, 1, 1)
  \cup Starts({"load"}, {FALSE}, {FALSE}, FALSE, 1, 1, 2)
  \cup Starts({"declarative"}, {FALSE}, {FALSE}, FALSE, 1, 0, 1)
  \cup Starts({"browser"}, {FALSE}, BOOLEAN, FALSE, 0, 0, 1)

(* What the two divergences from the documentation need. *)
Reliability == Starts({"reliability"}, {FALSE}, {FALSE}, FALSE, 0, 0, 1)
Load == Starts({"load"}, {FALSE}, {FALSE}, FALSE, 0, 0, 1)

=============================================================================
