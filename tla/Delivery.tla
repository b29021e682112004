------------------------------ MODULE Delivery ------------------------------
(***************************************************************************)
(* The three scenarios of benchmark.go that send many messages and then    *)
(* decide whether all of them arrived, in order: concurrentScenario with   *)
(* its writer goroutines, loadScenario with an absent reader, and          *)
(* growingHistoryScenario, which looks again and again while it sends.     *)
(*                                                                         *)
(* The server is external: it stores what it is sent in the order it is    *)
(* sent, but for the faults a benchmark is there to find.  A message is    *)
(* reduced to its sequence number, a comment to its time.                  *)
(***************************************************************************)
EXTENDS Integers, Sequences, FiniteSets, SequencesExt

CONSTANTS
  Writers,     \* the goroutines of concurrentScenario (3 in the code)
  Rounds,      \* messages, and comments, each of them sends (20 in the code)
  Load,        \* messages loadScenario sends (Workers * 100 in the code)
  HistoryMessages, HistoryComments,   \* what growingHistoryScenario sends
  Every,       \* it looks after each Every items (500 in the code)
  MaxFaults    \* bound on the server's faults

ASSUME WritersAssumption == IsFiniteSet(Writers) /\ "nobody" \notin Writers

(* Config.defaults replaces numbers below one.                             *)
ASSUME SizesAssumption ==
  Rounds \in Nat /\ {Load, HistoryMessages, HistoryComments, Every} \subseteq Nat \ {0}

VARIABLES
  scenario,    \* which of the three runs
  numbered,    \* whether the server gives messages sequence numbers
  pc,          \* what the scenario's own goroutine does next
  target,      \* what is being sent or looked at: "group" or "thread"
  sent,        \* items sent by a scenario without writers
  writers,     \* the writers: calls made, position, and errs' length when last read
  errs,        \* length of the slice errs the writers share
  mu,          \* the writer that holds mu, or "nobody"
  store,       \* what the server has stored, in its order
  faults,      \* how often the server has gone wrong
  reliability, \* what the scenario adds to the collector's counters
  outcome      \* "running", "passed" or "failed"

harness == <<pc, target, sent, writers, errs, mu, reliability, outcome>>
server == <<store, faults>>
vars == <<scenario, numbered, harness, server>>

Places == {"group", "thread"}
FaultKinds == {"refused", "unanswered", "dropped", "doubled", "swapped", "tied"}
Broken == {"refused", "unanswered"}     \* the faults for which the call returns an error

-----------------------------------------------------------------------------
(* The server.                                                             *)

Newest(items) == Max(ToSet(items) \cup {0})

Kept(items, fault) ==
  LET new == Newest(items) + 1
  IN  CASE fault \in {"refused", "dropped"} -> items
        [] fault \in {"none", "unanswered"} -> Append(items, new)
        [] fault = "doubled" -> Append(Append(items, new), new + 1)
        [] fault = "tied" -> Append(items, Newest(items))
        [] fault = "swapped" -> Append(Append(Front(items), new), Last(items))

FaultCount ==
  LET Of(f) == f["refused"] + f["unanswered"] + f["dropped"] + f["doubled"] + f["swapped"] + f["tied"]
  IN  Of(faults["group"]) + Of(faults["thread"])

(* The server handles a call that adds an item to a place.                 *)
Serve(place, fault) ==
  /\ fault \in {"tied", "swapped"} => store[place] # <<>>
  /\ store' = [store EXCEPT ![place] = Kept(@, fault)]
  /\ \/ fault = "none" /\ faults' = faults
     \/ /\ fault \in FaultKinds
        /\ FaultCount < MaxFaults
        /\ faults' = [faults EXCEPT ![place][fault] = @ + 1]

-----------------------------------------------------------------------------
(* The checks.                                                             *)

(* assertOrdered: messages without a sequence number are not compared.     *)
Ordered(messages) ==
  \A i \in 2 .. Len(messages) :
    messages[i] > 0 /\ messages[i - 1] > 0 => messages[i] > messages[i - 1]

(* assertCommentsOrdered, on comments that all answer the same post.       *)
CommentsOrdered(times) == \A i \in 2 .. Len(times) : times[i - 1] < times[i]

History(place) ==
  IF place = "thread" \/ numbered THEN store[place] ELSE [i \in DOMAIN store[place] |-> 0]

Expected ==
  CASE scenario = "concurrent" -> Cardinality(Writers) * Rounds
    [] scenario = "offline" -> Load
    [] scenario = "growing" -> sent

Loss(place) ==
  IF place = "group" /\ scenario # "growing" THEN Expected - Len(store[place]) ELSE 0

InOrder(place) ==
  /\ place = "thread" => CommentsOrdered(History(place))
  /\ place = "group" /\ scenario # "growing" => Ordered(History(place))

-----------------------------------------------------------------------------
(* Initial states and the end of a scenario.                               *)

Init ==
  /\ scenario \in {"concurrent", "offline", "growing"}
  /\ numbered \in BOOLEAN
  /\ pc = "prepare"
  /\ target = "group"
  /\ sent = 0
  /\ writers = [w \in Writers |-> [calls |-> 0, at |-> "call", length |-> 0]]
  /\ errs = 0
  /\ mu = "nobody"
  /\ store = [place \in Places |-> <<>>]
  /\ faults = [place \in Places |-> [kind \in FaultKinds |-> 0]]
  /\ reliability = [messageLoss |-> 0, orderingViolations |-> 0, failedResumes |-> 0]
  /\ outcome = "running"

Stop(verdict) == pc' = "done" /\ outcome' = verdict

(* The group, its members and the post; any of these calls may fail.       *)
Prepare ==
  /\ pc = "prepare"
  /\ \/ pc' = "send" /\ outcome' = outcome
     \/ Stop("failed")
  /\ UNCHANGED <<scenario, numbered, target, sent, writers, errs, mu, server, reliability>>

-----------------------------------------------------------------------------
(* The writers of concurrentScenario.                                      *)

Concurrent == scenario = "concurrent" /\ pc = "send"

Move(w, position) == writers' = [writers EXCEPT ![w].at = position]

CallsLeft(w) == writers[w].calls < 2 * Rounds

(* Messages and comments in turn; an error has to be noted.                *)
WriterCalls(w) ==
  /\ Concurrent
  /\ writers[w].at = "call"
  /\ CallsLeft(w)
  /\ \E fault \in FaultKinds \cup {"none"} :
       /\ Serve(IF writers[w].calls % 2 = 0 THEN "group" ELSE "thread", fault)
       /\ writers' = [writers EXCEPT ![w] =
                         [calls |-> @.calls + 1, at |-> IF fault \in Broken THEN "lock" ELSE "call",
                          length |-> @.length]]
  /\ UNCHANGED <<scenario, numbered, pc, target, sent, errs, mu, reliability, outcome>>

(* Operators whose name has an underscore are faults: variants of the       *)
(* definition they are named for that the checks tell apart from the code.  *)
Lock_NotTaken(w) ==
  /\ writers[w].at = "lock"
  /\ Move(w, "read")
  /\ UNCHANGED <<scenario, numbered, pc, target, sent, errs, mu, server, reliability, outcome>>

Lock(w) ==
  /\ writers[w].at = "lock"
  /\ mu = "nobody"
  /\ mu' = w
  /\ Move(w, "read")
  /\ UNCHANGED <<scenario, numbered, pc, target, sent, errs, server, reliability, outcome>>

(* errs = append(errs, x) reads the slice and writes a longer one.         *)
ReadErrs(w) ==
  /\ writers[w].at = "read"
  /\ writers' = [writers EXCEPT ![w] = [calls |-> @.calls, at |-> "write", length |-> errs]]
  /\ UNCHANGED <<scenario, numbered, pc, target, sent, errs, mu, server, reliability, outcome>>

WriteErrs_Locked(w) ==
  /\ writers[w].at = "write"
  /\ errs' = writers[w].length + 1
  /\ Move(w, "call")
  /\ UNCHANGED <<scenario, numbered, pc, target, sent, mu, server, reliability, outcome>>

WriteErrs(w) ==
  /\ writers[w].at = "write"
  /\ errs' = writers[w].length + 1
  /\ mu' = "nobody"
  /\ Move(w, "call")
  /\ UNCHANGED <<scenario, numbered, pc, target, sent, server, reliability, outcome>>

WriterDone(w) ==
  /\ Concurrent
  /\ writers[w].at = "call"
  /\ ~CallsLeft(w)
  /\ Move(w, "done")
  /\ UNCHANGED <<scenario, numbered, pc, target, sent, errs, mu, server, reliability, outcome>>

Wait_ForOne ==
  /\ Concurrent
  /\ \E w \in Writers : writers[w].at = "done"
  /\ IF errs > 0 THEN Stop("failed") ELSE pc' = "look" /\ outcome' = outcome
  /\ UNCHANGED <<scenario, numbered, target, sent, writers, errs, mu, server, reliability>>

Wait ==
  /\ Concurrent
  /\ \A w \in Writers : writers[w].at = "done"
  /\ IF errs > 0 THEN Stop("failed") ELSE pc' = "look" /\ outcome' = outcome
  /\ UNCHANGED <<scenario, numbered, target, sent, writers, errs, mu, server, reliability>>

-----------------------------------------------------------------------------
(* The scenarios without writers: an error ends them at once.              *)

Total ==
  IF scenario = "offline" THEN Load
  ELSE IF target = "group" THEN HistoryMessages ELSE HistoryComments

LooksAfter_Rounds(count) ==
  IF scenario = "offline" THEN count = Total ELSE count % Every = 0

(* Whether the scenario looks at what is stored after so many items.       *)
LooksAfter(count) ==
  IF scenario = "offline" THEN count = Total ELSE count % Every = 0 \/ count = Total

(* On with the same items, with the comments, or to the end.               *)
Proceed(count) ==
  IF scenario # "concurrent" /\ count < Total
    THEN pc' = "send" /\ sent' = count /\ UNCHANGED <<target, outcome>>
  ELSE IF target = "group" /\ scenario # "offline"
    THEN /\ target' = "thread"
         /\ sent' = 0
         /\ pc' = IF scenario = "growing" THEN "send" ELSE "look"
         /\ outcome' = outcome
  ELSE Stop("passed") /\ sent' = count /\ target' = target

Send ==
  /\ scenario # "concurrent" /\ pc = "send"
  /\ \E fault \in FaultKinds \cup {"none"} :
       /\ Serve(target, fault)
       /\ IF fault \in Broken THEN Stop("failed") /\ UNCHANGED <<target, sent>>
          ELSE IF LooksAfter(sent + 1)
            THEN /\ sent' = sent + 1
                 /\ pc' = IF scenario = "offline" THEN "resume" ELSE "look"
                 /\ UNCHANGED <<target, outcome>>
          ELSE Proceed(sent + 1)
  /\ UNCHANGED <<scenario, numbered, writers, errs, mu, reliability>>

(* agent-b comes back and resumes.                                         *)
Resume ==
  /\ pc = "resume"
  /\ \/ pc' = "look" /\ UNCHANGED <<reliability, outcome>>
     \/ Stop("failed") /\ reliability' = reliability
     \/ Stop("failed") /\ reliability' = [reliability EXCEPT !.failedResumes = @ + 1]
  /\ UNCHANGED <<scenario, numbered, target, sent, writers, errs, mu, server>>

-----------------------------------------------------------------------------
(* Looking: count first, then order.                                       *)

LookFails ==
  /\ pc = "look"
  /\ Stop("failed")
  /\ UNCHANGED <<scenario, numbered, target, sent, writers, errs, mu, server, reliability>>

Miscounted ==
  /\ pc = "look"
  /\ Len(store[target]) # Expected
  /\ reliability' = [reliability EXCEPT !.messageLoss = @ + Loss(target)]
  /\ Stop("failed")
  /\ UNCHANGED <<scenario, numbered, target, sent, writers, errs, mu, server>>

OutOfOrder ==
  /\ pc = "look"
  /\ Len(store[target]) = Expected
  /\ ~InOrder(target)
  /\ reliability' = [reliability EXCEPT !.orderingViolations = @ + 1]
  /\ Stop("failed")
  /\ UNCHANGED <<scenario, numbered, target, sent, writers, errs, mu, server>>

AllThere ==
  /\ pc = "look"
  /\ Len(store[target]) = Expected
  /\ InOrder(target)
  /\ Proceed(sent)
  /\ UNCHANGED <<scenario, numbered, writers, errs, mu, server, reliability>>

Look == LookFails \/ Miscounted \/ OutOfOrder \/ AllThere

Next ==
  \/ Prepare
  \/ \E w \in Writers :
       WriterCalls(w) \/ Lock(w) \/ ReadErrs(w) \/ WriteErrs(w) \/ WriterDone(w)
  \/ Wait
  \/ Send
  \/ Resume
  \/ Look

(* Goroutines are scheduled and calls are answered, or fail.               *)
Spec == Init /\ [][Next]_vars /\ WF_vars(Next)

-----------------------------------------------------------------------------
(* Properties.                                                             *)

Failures == LET Of(place) == faults[place]["refused"] + faults[place]["unanswered"]
            IN  Of("group") + Of("thread")
Missing(place) == faults[place]["dropped"] - faults[place]["doubled"]

(* What a scenario holds against a server has its cause in the server: an  *)
(* error of a writer in a call that failed, messages that are missing in   *)
(* one that was dropped, messages too many in one that was doubled, a      *)
(* wrong order in items that were moved or have the same number or time,   *)
(* and in that place, not in the other one.  The last is blamed though a   *)
(* server with a coarse clock is honest: assertCommentsOrdered takes equal *)
(* times for a violation (benchmark.go:679-699, 800-813, 870-905,          *)
(* 1120-1126).  It needs the histories to be read after the last writer    *)
(* has finished.                                                           *)
BlameHasCause ==
  /\ errs > 0 => Failures > 0
  /\ reliability.messageLoss > 0 => faults["group"]["dropped"] > 0
  /\ reliability.messageLoss < 0 => faults["group"]["doubled"] > 0
  /\ reliability.orderingViolations > 0 =>
       \E place \in Places : faults[place]["swapped"] > 0 \/ faults[place]["tied"] > 0
  /\ pc = "look" =>
       /\ Len(store[target]) < Expected => faults[target]["dropped"] > 0
       /\ Len(store[target]) > Expected => faults[target]["doubled"] > 0
       /\ ~InOrder(target) => faults[target]["swapped"] > 0 \/ faults[target]["tied"] > 0

(* No error of a writer gets lost: once the writers are waited for, errs   *)
(* holds as many errors as calls failed, and a scenario passes only if     *)
(* none did (benchmark.go:657-675).                                        *)
ErrorsComplete ==
  /\ scenario = "concurrent" /\ pc \in {"look", "done"} => errs = Failures
  /\ outcome = "passed" => Failures = 0

(* What counting vouches for: when a scenario passes, nothing is missing   *)
(* that is not made up for by a double, to the last item sent, and what it *)
(* compares is in order; and the message loss it reports is the number of  *)
(* messages the server lost, less the ones it stored twice                 *)
(* (benchmark.go:683-697, 808-813, 875-903).                               *)
CountIsExact ==
  /\ reliability.messageLoss # 0 => reliability.messageLoss = Missing("group")
  /\ outcome = "passed" =>
       \A place \in IF scenario = "offline" THEN {"group"} ELSE Places :
         /\ Missing(place) = 0
         /\ \/ faults[place]["tied"] + faults[place]["swapped"] = 0
            \/ place = "group" /\ (~numbered \/ scenario = "growing")

(* Every scenario ends, whatever the server does: no writer waits for mu   *)
(* or is waited for in vain.                                               *)
Terminates == <>(outcome # "running")

=============================================================================
