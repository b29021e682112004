--------------------------- MODULE DeliveryProofs ---------------------------
(***************************************************************************)
(* No error of a writer gets lost, an honest server is not blamed, and     *)
(* what is counted is so: for any number of writers, rounds and faults.    *)
(***************************************************************************)
EXTENDS Delivery, FiniteSetTheorems, SequenceTheorems, TLAPS

Positions == {"call", "lock", "read", "write", "done"}
Writer == [calls : Nat, at : Positions, length : Nat]
Counts == [Places -> [FaultKinds -> Nat]]

Typed ==
  /\ writers \in [Writers -> Writer]
  /\ errs \in Nat
  /\ faults \in Counts
  /\ target \in Places

(* The writers whose error is not in errs yet.                             *)
Noting == {w \in Writers : writers[w].at \in {"lock", "read", "write"}}
Locked == {"read", "write"}

(* Only the writer that holds mu is at errs, and what it has read of it    *)
(* still holds.                                                            *)
Exclusive ==
  \A w \in Writers :
    /\ writers[w].at \in Locked => mu = w
    /\ writers[w].at = "write" => writers[w].length = errs

(* Every failure is in errs, or is about to be.                            *)
Accounted ==
  scenario = "concurrent" =>
    /\ errs + Cardinality(Noting) = Failures
    /\ pc \in {"prepare", "look", "done"} => Noting = {}
    /\ pc = "look" \/ outcome = "passed" => errs = 0
    /\ pc # "resume"

(* The other scenarios end with the first failure.                         *)
Failing ==
  /\ pc = "done" <=> outcome # "running"
  /\ scenario # "concurrent" =>
       /\ Noting = {}
       /\ outcome # "failed" => Failures = 0

Inv == Typed /\ Exclusive /\ Accounted /\ Failing

-----------------------------------------------------------------------------
(* A call of a writer or of a scenario adds to Failures exactly if it      *)
(* returns an error.                                                       *)
LEMMA Served ==
  ASSUME Typed, NEW place \in Places, NEW fault \in FaultKinds \cup {"none"}, Serve(place, fault)
  PROVE  /\ faults' \in Counts
         /\ Failures \in Nat
         /\ fault \in Broken => Failures' = Failures + 1
         /\ fault \notin Broken => Failures' = Failures
<1>1. faults \in Counts BY DEF Typed
<1>2. \A p \in Places : \A k \in FaultKinds : faults[p][k] \in Nat BY <1>1 DEF Counts
<1>3. Failures \in Nat BY <1>2 DEF Failures, Places, FaultKinds
<1>4. CASE fault = "none"
  <2>1. faults' = faults BY <1>4 DEF Serve, FaultKinds
  <2> QED BY <2>1, <1>1, <1>3, <1>4 DEF Failures, Broken
<1>5. CASE fault \in FaultKinds
  <2>1. faults' = [faults EXCEPT ![place][fault] = @ + 1] BY <1>5 DEF Serve, FaultKinds
  <2>2. faults[place] \in [FaultKinds -> Nat] /\ faults[place][fault] \in Nat BY <1>1, <1>2, <1>5 DEF Counts
  <2>3. faults' \in Counts BY <1>1, <2>1, <2>2, <1>5 DEF Counts
  <2>4. \A p \in Places : \A k \in FaultKinds :
          faults'[p][k] = IF p = place /\ k = fault THEN faults[p][k] + 1 ELSE faults[p][k]
    BY <1>1, <2>1, <2>2, <1>5 DEF Counts
  <2>5. {"group", "thread"} = Places /\ {"refused", "unanswered"} \subseteq FaultKinds
    BY DEF Places, FaultKinds
  <2>6. \A p \in Places : \A k \in {"refused", "unanswered"} :
          /\ faults[p][k] \in Nat
          /\ faults'[p][k] = IF p = place /\ k = fault THEN faults[p][k] + 1 ELSE faults[p][k]
    BY <1>2, <2>4, <2>5
  <2>7. /\ fault \in Broken => Failures' = Failures + 1
        /\ fault \notin Broken => Failures' = Failures
    BY <2>5, <2>6 DEF Failures, Broken
  <2> QED BY <1>3, <2>3, <2>7
<1> QED BY <1>4, <1>5

-----------------------------------------------------------------------------
(* What a step of one writer does to the others.                           *)
LEMMA Stepped ==
  ASSUME Typed, NEW w \in Writers, NEW r \in Writer, writers' = [writers EXCEPT ![w] = r]
  PROVE  /\ writers' \in [Writers -> Writer]
         /\ writers'[w] = r
         /\ \A v \in Writers \ {w} : writers'[v] = writers[v]
  BY DEF Typed

LEMMA MoveSteps ==
  ASSUME Typed, NEW w \in Writers, NEW p \in Positions, Move(w, p)
  PROVE  /\ writers' \in [Writers -> Writer]
         /\ writers'[w].at = p /\ writers'[w].length = writers[w].length
         /\ \A v \in Writers \ {w} : writers'[v] = writers[v]
<1>1. writers \in [Writers -> Writer] /\ writers[w] \in Writer BY DEF Typed
<1>2. writers' = [writers EXCEPT ![w].at = p] BY DEF Move
<1>3. writers'[w] \in Writer /\ writers'[w].at = p /\ writers'[w].length = writers[w].length
  BY <1>1, <1>2 DEF Writer
<1>4. \A v \in Writers \ {w} : writers'[v] = writers[v] BY <1>1, <1>2
<1>5. DOMAIN writers' = Writers /\ writers' = [v \in Writers |-> writers'[v]] BY <1>1, <1>2
<1>6. \A v \in Writers : writers'[v] \in Writer BY <1>1, <1>3, <1>4
<1> QED BY <1>3, <1>4, <1>5, <1>6

LEMMA NotingIsFinite ==
  Cardinality(Noting) \in Nat /\ IsFiniteSet(Noting) /\ (Noting = {} => Cardinality(Noting) = 0)
<1>1. IsFiniteSet(Writers) BY WritersAssumption
<1>2. Noting \subseteq Writers BY DEF Noting
<1>3. IsFiniteSet(Noting) BY <1>1, <1>2, FS_Subset
<1> QED BY <1>3, FS_CardinalityType, FS_EmptySet

-----------------------------------------------------------------------------
LEMMA Initially == Init => Inv
<1> SUFFICES ASSUME Init PROVE Inv OBVIOUS
<1>1. writers = [w \in Writers |-> [calls |-> 0, at |-> "call", length |-> 0]] BY DEF Init
<1>2. \A w \in Writers : writers[w].at = "call" BY <1>1
<1>3. faults = [place \in Places |-> [kind \in FaultKinds |-> 0]] BY DEF Init
<1>4. Failures = 0 BY <1>3 DEF Failures, Places, FaultKinds
<1>5. Noting = {} BY <1>2 DEF Noting
<1>6. writers \in [Writers -> Writer] BY <1>1 DEF Writer, Positions
<1>7. faults \in Counts BY <1>3 DEF Counts
<1>8. errs = 0 /\ pc = "prepare" /\ outcome = "running" /\ target \in Places BY DEF Init, Places
<1>9. Typed BY <1>6, <1>7, <1>8 DEF Typed
<1>10. Exclusive BY <1>2 DEF Exclusive, Locked
<1>11. Accounted BY <1>4, <1>5, <1>8, NotingIsFinite DEF Accounted
<1>12. Failing BY <1>4, <1>5, <1>8 DEF Failing
<1> QED BY <1>9, <1>10, <1>11, <1>12 DEF Inv

(* Steps that leave the writers, errs and the server alone.                *)
LEMMA Quiet ==
  ASSUME Inv, UNCHANGED <<scenario, writers, errs, mu, faults>>, target' \in Places,
         pc' = "done" <=> outcome' # "running",
         outcome' # "failed" => outcome # "failed",
         scenario = "concurrent" =>
           /\ pc' \in {"prepare", "look", "done"} => Noting = {}
           /\ pc' = "look" \/ outcome' = "passed" => errs = 0
           /\ pc' # "resume"
  PROVE  Inv'
<1>1. Failures' = Failures /\ Noting' = Noting BY DEF Failures, Noting
<1>2. Typed' BY DEF Inv, Typed
<1>3. Exclusive' BY DEF Inv, Exclusive
<1>4. Accounted' BY <1>1 DEF Inv, Accounted
<1>5. Failing' BY <1>1 DEF Inv, Failing
<1> QED BY <1>2, <1>3, <1>4, <1>5 DEF Inv

LEMMA Calling ==
  ASSUME Inv, NEW w \in Writers, WriterCalls(w)
  PROVE  Inv'
<1>1. PICK fault \in FaultKinds \cup {"none"}, place \in Places :
        /\ Serve(place, fault)
        /\ writers' = [writers EXCEPT ![w] =
                         [calls |-> writers[w].calls + 1,
                          at |-> IF fault \in Broken THEN "lock" ELSE "call",
                          length |-> writers[w].length]]
  BY DEF WriterCalls, Places
<1>2. /\ scenario = "concurrent" /\ pc = "send" /\ writers[w].at = "call"
      /\ UNCHANGED <<scenario, pc, target, errs, mu, outcome>>
  BY DEF WriterCalls, Concurrent
<1>3. Typed /\ Exclusive /\ Accounted /\ Failing BY DEF Inv
<1> DEFINE r == [calls |-> writers[w].calls + 1,
                 at |-> IF fault \in Broken THEN "lock" ELSE "call",
                 length |-> writers[w].length]
<1>4. writers[w] \in Writer BY <1>3 DEF Typed
<1>5. r \in Writer /\ r.at \in {"lock", "call"} /\ r.length = writers[w].length
      /\ (r.at = "lock" <=> fault \in Broken)
  BY <1>4 DEF Writer, Positions
<1>6. writers' = [writers EXCEPT ![w] = r] BY <1>1
<1> HIDE DEF r
<1>7. /\ writers' \in [Writers -> Writer] /\ writers'[w] = r
      /\ \A v \in Writers \ {w} : writers'[v] = writers[v]
  BY <1>3, <1>5, <1>6, Stepped
<1>8. /\ faults' \in Counts /\ Failures \in Nat
      /\ fault \in Broken => Failures' = Failures + 1
      /\ fault \notin Broken => Failures' = Failures
  BY <1>1, <1>3, Served
<1>9. Typed' BY <1>2, <1>3, <1>7, <1>8 DEF Typed
<1>10. Exclusive' BY <1>2, <1>3, <1>5, <1>7 DEF Exclusive, Locked
<1>11. w \notin Noting BY <1>2 DEF Noting
<1>12. Accounted'
  <2>1. errs + Cardinality(Noting) = Failures BY <1>2, <1>3 DEF Accounted
  <2>2. CASE fault \in Broken
    <3>1. Noting' = Noting \cup {w} BY <2>2, <1>5, <1>7 DEF Noting
    <3>2. Cardinality(Noting') = Cardinality(Noting) + 1 BY <3>1, <1>11, NotingIsFinite, FS_AddElement
    <3> QED BY <3>2, <2>1, <2>2, <1>2, <1>3, <1>8, NotingIsFinite DEF Accounted, Typed, Failing
  <2>3. CASE fault \notin Broken
    <3>1. Noting' = Noting BY <2>3, <1>5, <1>7, <1>11 DEF Noting
    <3> QED BY <3>1, <2>1, <2>3, <1>2, <1>3, <1>8 DEF Accounted, Failing
  <2> QED BY <2>2, <2>3
<1>13. Failing' BY <1>2, <1>3 DEF Failing
<1> QED BY <1>9, <1>10, <1>12, <1>13 DEF Inv

(* A writer goes on without an error to note, before or after.             *)
LEMMA Moving ==
  ASSUME Inv, NEW w \in Writers, Lock(w) \/ WriterDone(w)
  PROVE  Inv'
<1>1. Typed /\ Exclusive /\ Accounted /\ Failing BY DEF Inv
<1>2. UNCHANGED <<scenario, pc, target, errs, faults, outcome>> BY DEF Lock, WriterDone, server
<1>3. Failures' = Failures BY <1>2 DEF Failures
<1>4. CASE Lock(w)
  <2>1. writers[w].at = "lock" /\ mu = "nobody" /\ mu' = w /\ Move(w, "read") BY <1>4 DEF Lock
  <2>2. /\ writers' \in [Writers -> Writer] /\ writers'[w].at = "read"
        /\ \A v \in Writers \ {w} : writers'[v] = writers[v]
    BY <2>1, <1>1, MoveSteps DEF Positions
  <2>3. \A v \in Writers : writers[v].at \notin Locked BY <2>1, <1>1, WritersAssumption DEF Exclusive
  <2>4. Exclusive' BY <2>1, <2>2, <2>3 DEF Exclusive, Locked
  <2>5. Noting' = Noting BY <2>1, <2>2 DEF Noting
  <2>6. Typed' BY <2>2, <1>1, <1>2 DEF Typed
  <2> QED BY <2>4, <2>5, <2>6, <1>1, <1>2, <1>3 DEF Inv, Accounted, Failing
<1>5. CASE WriterDone(w)
  <2>1. writers[w].at = "call" /\ mu' = mu /\ Move(w, "done") BY <1>5 DEF WriterDone
  <2>2. /\ writers' \in [Writers -> Writer] /\ writers'[w].at = "done"
        /\ \A v \in Writers \ {w} : writers'[v] = writers[v]
    BY <2>1, <1>1, MoveSteps DEF Positions
  <2>3. Exclusive' BY <2>1, <2>2, <1>1, <1>2 DEF Exclusive, Locked
  <2>4. Noting' = Noting BY <2>1, <2>2 DEF Noting
  <2>5. Typed' BY <2>2, <1>1, <1>2 DEF Typed
  <2> QED BY <2>3, <2>4, <2>5, <1>1, <1>2, <1>3 DEF Inv, Accounted, Failing
<1> QED BY <1>4, <1>5

LEMMA Reading ==
  ASSUME Inv, NEW w \in Writers, ReadErrs(w)
  PROVE  Inv'
<1>1. Typed /\ Exclusive /\ Accounted /\ Failing BY DEF Inv
<1>2. /\ UNCHANGED <<scenario, pc, target, errs, faults, outcome, mu>> /\ writers[w].at = "read"
      /\ writers' = [writers EXCEPT ![w] = [calls |-> writers[w].calls, at |-> "write", length |-> errs]]
  BY DEF ReadErrs, server
<1>3. Failures' = Failures BY <1>2 DEF Failures
<1> DEFINE r == [calls |-> writers[w].calls, at |-> "write", length |-> errs]
<1>4. writers[w] \in Writer /\ errs \in Nat BY <1>1 DEF Typed
<1>5. r \in Writer /\ r.at = "write" /\ r.length = errs BY <1>4 DEF Writer, Positions
<1>6. writers' = [writers EXCEPT ![w] = r] BY <1>2
<1> HIDE DEF r
<1>7. /\ writers' \in [Writers -> Writer] /\ writers'[w] = r
      /\ \A v \in Writers \ {w} : writers'[v] = writers[v]
  BY <1>1, <1>5, <1>6, Stepped
<1>8. Exclusive' BY <1>1, <1>2, <1>5, <1>7 DEF Exclusive, Locked
<1>9. Noting' = Noting BY <1>2, <1>5, <1>7 DEF Noting
<1>10. Typed' BY <1>1, <1>2, <1>7 DEF Typed
<1> QED BY <1>1, <1>2, <1>3, <1>8, <1>9, <1>10 DEF Inv, Accounted, Failing

(* The step that would lose an error if another writer had read errs too.  *)
LEMMA Writing ==
  ASSUME Inv, NEW w \in Writers, WriteErrs(w)
  PROVE  Inv'
<1>1. Typed /\ Exclusive /\ Accounted /\ Failing BY DEF Inv
<1>2. /\ UNCHANGED <<scenario, pc, target, faults, outcome>> /\ writers[w].at = "write" /\ mu' = "nobody"
      /\ errs' = writers[w].length + 1 /\ Move(w, "call")
  BY DEF WriteErrs, server
<1>3. Failures' = Failures BY <1>2 DEF Failures
<1>4. /\ writers' \in [Writers -> Writer] /\ writers'[w].at = "call"
      /\ \A v \in Writers \ {w} : writers'[v] = writers[v]
  BY <1>1, <1>2, MoveSteps DEF Positions
<1>5. mu = w /\ errs' = errs + 1 /\ errs \in Nat BY <1>1, <1>2 DEF Exclusive, Locked, Typed
<1>6. \A v \in Writers \ {w} : writers[v].at \notin Locked BY <1>1, <1>5 DEF Exclusive
<1>7. Exclusive' BY <1>4, <1>6 DEF Exclusive, Locked
<1>8. w \in Noting /\ Noting' = Noting \ {w} BY <1>2, <1>4 DEF Noting
<1>9. Cardinality(Noting') = Cardinality(Noting) - 1 BY <1>8, NotingIsFinite, FS_RemoveElement
<1>10. Typed' BY <1>1, <1>2, <1>4, <1>5 DEF Typed
<1>11. scenario = "concurrent" /\ pc \notin {"prepare", "look", "done"} /\ outcome = "running"
  BY <1>1, <1>8 DEF Accounted, Failing
<1>12. Accounted' BY <1>1, <1>2, <1>3, <1>5, <1>9, <1>11, NotingIsFinite DEF Accounted
<1>13. Failing' BY <1>2, <1>11 DEF Failing
<1> QED BY <1>7, <1>10, <1>12, <1>13 DEF Inv

(* The end of what a scenario without writers sends, or of a look.         *)
LEMMA Proceeding ==
  ASSUME NEW count, target \in Places, Proceed(count)
  PROVE  /\ target' \in Places
         /\ \/ pc' \in {"send", "look"} /\ outcome' = outcome
            \/ pc' = "done" /\ outcome' = "passed"
         /\ scenario = "concurrent" => pc' \in {"look", "done"}
<1>1. CASE scenario # "concurrent" /\ count < Total BY <1>1 DEF Proceed
<1>2. CASE ~(scenario # "concurrent" /\ count < Total) /\ target = "group" /\ scenario # "offline"
  BY <1>2 DEF Proceed, Places
<1>3. CASE ~(scenario # "concurrent" /\ count < Total) /\ ~(target = "group" /\ scenario # "offline")
  BY <1>3 DEF Proceed, Stop
<1> QED BY <1>1, <1>2, <1>3

LEMMA Sending ==
  ASSUME Inv, Send
  PROVE  Inv'
<1>1. Typed /\ Exclusive /\ Accounted /\ Failing BY DEF Inv
<1>2. scenario # "concurrent" /\ pc = "send" /\ UNCHANGED <<scenario, writers, errs, mu>> BY DEF Send
<1>3. outcome = "running" /\ Failures = 0 /\ Noting = {} BY <1>1, <1>2 DEF Failing
<1>4. Noting' = Noting BY <1>2 DEF Noting
<1>5. PICK fault \in FaultKinds \cup {"none"} :
        /\ Serve(target, fault)
        /\ IF fault \in Broken THEN Stop("failed") /\ UNCHANGED <<target, sent>>
           ELSE IF LooksAfter(sent + 1)
             THEN /\ sent' = sent + 1
                  /\ pc' = IF scenario = "offline" THEN "resume" ELSE "look"
                  /\ UNCHANGED <<target, outcome>>
           ELSE Proceed(sent + 1)
  BY DEF Send
<1>6. target \in Places BY <1>1 DEF Typed
<1>7. /\ faults' \in Counts
      /\ fault \notin Broken => Failures' = Failures
  BY <1>1, <1>5, <1>6, Served
<1>8. /\ target' \in Places
      /\ pc' = "done" <=> outcome' # "running"
      /\ fault \in Broken => outcome' = "failed"
  <2>1. CASE fault \in Broken BY <2>1, <1>5, <1>6 DEF Stop
  <2>2. CASE fault \notin Broken /\ LooksAfter(sent + 1) BY <2>2, <1>3, <1>5, <1>6
  <2>3. CASE fault \notin Broken /\ ~LooksAfter(sent + 1)
    <3>1. Proceed(sent + 1) BY <2>3, <1>5
    <3> QED BY <3>1, <2>3, <1>3, <1>6, Proceeding
  <2> QED BY <2>1, <2>2, <2>3
<1>9. Typed' BY <1>1, <1>2, <1>7, <1>8 DEF Typed
<1>10. Exclusive' BY <1>1, <1>2 DEF Exclusive
<1>11. Accounted' BY <1>2 DEF Accounted
<1>12. Failing' BY <1>2, <1>3, <1>4, <1>7, <1>8 DEF Failing
<1> QED BY <1>9, <1>10, <1>11, <1>12 DEF Inv

(* The waiting ends when nothing is left to be noted, and what follows     *)
(* adds no failure.                                                        *)
LEMMA Going ==
  ASSUME Inv, Prepare \/ Wait \/ Resume \/ Look
  PROVE  Inv'
<1>1. Typed /\ Accounted /\ Failing BY DEF Inv
<1>2. target \in Places BY <1>1 DEF Typed
<1>3. CASE Prepare
  <2>1. /\ pc = "prepare" /\ UNCHANGED <<scenario, target, writers, errs, mu, faults>>
        /\ (pc' = "send" /\ outcome' = outcome) \/ (pc' = "done" /\ outcome' = "failed")
    BY <1>3 DEF Prepare, Stop, server
  <2> QED BY <2>1, <1>1, <1>2, Quiet DEF Accounted, Failing
<1>4. CASE Wait
  <2>1. /\ scenario = "concurrent" /\ pc = "send" /\ \A w \in Writers : writers[w].at = "done"
        /\ UNCHANGED <<scenario, target, writers, errs, mu, faults>>
        /\ IF errs > 0 THEN pc' = "done" /\ outcome' = "failed" ELSE pc' = "look" /\ outcome' = outcome
    BY <1>4 DEF Wait, Concurrent, Stop, server
  <2>2. Noting = {} BY <2>1 DEF Noting
  <2>3. errs \in Nat BY <1>1 DEF Typed
  <2>4. outcome = "running" BY <2>1, <1>1 DEF Failing
  <2>5. CASE errs > 0 BY <2>1, <2>2, <2>4, <2>5, <1>2, Quiet
  <2>6. CASE errs = 0
    <3>1. pc' = "look" /\ outcome' = outcome BY <2>1, <2>6
    <3> QED BY <3>1, <2>1, <2>2, <2>4, <2>6, <1>2, Quiet
  <2> QED BY <2>3, <2>5, <2>6
<1>5. CASE Resume
  <2>1. /\ pc = "resume" /\ UNCHANGED <<scenario, target, writers, errs, mu, faults>>
        /\ (pc' = "look" /\ outcome' = outcome) \/ (pc' = "done" /\ outcome' = "failed")
    BY <1>5 DEF Resume, Stop, server
  <2> QED BY <2>1, <1>1, <1>2, Quiet DEF Accounted, Failing
<1>6. CASE LookFails \/ Miscounted \/ OutOfOrder
  <2>1. /\ pc = "look" /\ UNCHANGED <<scenario, target, writers, errs, mu, faults>>
        /\ pc' = "done" /\ outcome' = "failed"
    BY <1>6 DEF LookFails, Miscounted, OutOfOrder, Stop, server
  <2> QED BY <2>1, <1>1, <1>2, Quiet DEF Accounted, Failing
<1>7. CASE AllThere
  <2>1. /\ pc = "look" /\ Proceed(sent)
        /\ UNCHANGED <<scenario, writers, errs, mu, faults>>
    BY <1>7 DEF AllThere, server
  <2>2. /\ target' \in Places
        /\ \/ pc' \in {"send", "look"} /\ outcome' = outcome
           \/ pc' = "done" /\ outcome' = "passed"
        /\ scenario = "concurrent" => pc' \in {"look", "done"}
    BY <2>1, <1>2, Proceeding
  <2>3. outcome = "running" BY <2>1, <1>1 DEF Failing
  <2> QED BY <2>1, <2>2, <2>3, <1>1, Quiet DEF Accounted
<1> QED BY <1>3, <1>4, <1>5, <1>6, <1>7 DEF Look

LEMMA Stuttering ==
  ASSUME Inv, UNCHANGED vars
  PROVE  Inv'
<1>1. UNCHANGED <<scenario, writers, errs, mu, faults, target, pc, outcome>> BY DEF vars, harness, server
<1>2. Typed /\ Accounted /\ Failing BY DEF Inv
<1> QED BY <1>1, <1>2, Quiet DEF Typed, Accounted, Failing

LEMMA Preserved ==
  ASSUME Inv, [Next]_vars
  PROVE  Inv'
<1>1. ASSUME NEW w \in Writers,
             WriterCalls(w) \/ Lock(w) \/ ReadErrs(w) \/ WriteErrs(w) \/ WriterDone(w)
      PROVE  Inv'
  BY <1>1, Calling, Moving, Reading, Writing
<1>2. CASE Send BY <1>2, Sending
<1>3. CASE Prepare \/ Wait \/ Resume \/ Look BY <1>3, Going
<1>4. CASE UNCHANGED vars BY <1>4, Stuttering
<1> QED BY <1>1, <1>2, <1>3, <1>4 DEF Next

-----------------------------------------------------------------------------
(* What is stored, counted and found.                                      *)

Positive == Nat \ {0}

Topped(s) == \E n \in ToSet(s) \cup {0} : \A m \in ToSet(s) \cup {0} : m <= n
EndsHighest(s) == \A i \in DOMAIN s : s[i] <= s[Len(s)]
Shuffled(p) == faults[p]["tied"] + faults[p]["swapped"]

Stored(p) ==
  /\ store[p] \in Seq(Positive) /\ Topped(store[p])
  /\ Shuffled(p) = 0 => CommentsOrdered(store[p]) /\ EndsHighest(store[p])
  /\ Shuffled(p) # 0 => ~ CommentsOrdered(store[p])

(* The calls the writers have made: each sends Rounds items to a place.    *)
Made(p) ==
  {wk \in Writers \X (0 .. Rounds - 1) :
     2 * wk[2] + (IF p = "group" THEN 0 ELSE 1) < writers[wk[1]].calls}
Tried(p) ==
  IF scenario = "concurrent" THEN Cardinality(Made(p)) ELSE IF p = target THEN sent ELSE 0

(* Every call is accounted for, by what it stored or by its fault.         *)
Balance(p) == Len(store[p]) + faults[p]["refused"] + faults[p]["dropped"] - faults[p]["doubled"]
Counted(p) ==
  (p = target \/ target = "group") /\ (scenario = "concurrent" \/ outcome # "failed") =>
    Balance(p) = Tried(p)

Progress ==
  /\ scenario \in {"concurrent", "offline", "growing"} /\ sent \in Nat
  /\ \A w \in Writers :
       /\ writers[w].calls <= 2 * Rounds
       /\ writers[w].at = "done" => writers[w].calls = 2 * Rounds
  /\ scenario = "concurrent" =>
       /\ pc = "look" => \A w \in Writers : writers[w].at = "done"
       /\ target = "thread" => pc \in {"look", "done"}
  /\ scenario # "concurrent" /\ pc \in {"prepare", "send"} => sent < Total
  /\ scenario = "offline" => target = "group" /\ (pc \in {"resume", "look"} => sent = Load)
  /\ pc = "resume" => scenario = "offline"

Good(p) ==
  /\ Missing(p) = 0
  /\ Shuffled(p) = 0 \/ (p = "group" /\ (~numbered \/ scenario = "growing"))

Vouched ==
  /\ target = "thread" => Good("group")
  /\ outcome = "passed" => Good(target) /\ (scenario # "offline" => target = "thread")

Blamed ==
  /\ reliability \in [messageLoss : Int, orderingViolations : Nat, failedResumes : Nat]
  /\ reliability.messageLoss # 0 => pc = "done" /\ reliability.messageLoss = Missing("group")
  /\ reliability.orderingViolations # 0 => pc = "done" /\ \E p \in Places : Shuffled(p) # 0
  /\ scenario # "concurrent" => errs = 0

AllStored == store \in [Places -> Seq(Positive)] /\ \A p \in Places : Stored(p)
AllCounted == \A p \in Places : Counted(p)
Exact == AllStored /\ AllCounted /\ Progress /\ Vouched /\ Blamed

-----------------------------------------------------------------------------
(* What the server stores.                                                 *)

LEMMA Highest ==
  ASSUME NEW s \in Seq(Positive), Topped(s)
  PROVE  /\ Newest(s) \in Nat
         /\ \A i \in DOMAIN s : s[i] <= Newest(s)
         /\ s # << >> => Newest(s) \in Positive
         /\ s # << >> /\ EndsHighest(s) => Newest(s) = s[Len(s)]
<1> DEFINE T == ToSet(s) \cup {0}
<1>1. /\ Len(s) \in Nat /\ DOMAIN s = 1 .. Len(s) /\ \A i \in 1 .. Len(s) : s[i] \in Positive
  BY LenProperties, ElementOfSeq
<1>2. T = {s[i] : i \in 1 .. Len(s)} \cup {0} /\ T \subseteq Nat
  BY <1>1 DEF ToSet, Positive
<1>3. \E n \in T : \A m \in T : m <= n
  BY DEF Topped
<1>4. Newest(s) = CHOOSE n \in T : \A m \in T : n >= m
  BY DEF Newest, Max
<1> HIDE DEF T
<1>5. \E n \in T : \A m \in T : n >= m
  BY <1>2, <1>3
<1>6. Newest(s) \in T /\ \A m \in T : Newest(s) >= m
  BY <1>4, <1>5
<1>7. Newest(s) \in Nat /\ \A i \in DOMAIN s : s[i] <= Newest(s)
  BY <1>1, <1>2, <1>6 DEF Positive
<1>8. ASSUME s # << >> PROVE Len(s) \in DOMAIN s /\ s[Len(s)] \in Positive
  <2>1. Len(s) >= 1
    BY <1>1, <1>8, EmptySeq
  <2> QED
    BY <1>1, <2>1
<1>9. s # << >> => Newest(s) \in Positive
  BY <1>7, <1>8 DEF Positive
<1>10. ASSUME s # << >>, EndsHighest(s) PROVE Newest(s) = s[Len(s)]
  <2>1. Newest(s) # 0
    BY <1>9, <1>10 DEF Positive
  <2>2. PICK i \in DOMAIN s : Newest(s) = s[i]
    BY <1>1, <1>2, <1>6, <2>1
  <2>3. s[i] <= s[Len(s)] /\ s[Len(s)] <= s[i]
    BY <1>7, <1>8, <1>10, <2>2 DEF EndsHighest
  <2> QED
    BY <1>1, <1>8, <2>2, <2>3 DEF Positive
<1> QED
  BY <1>7, <1>9, <1>10

(* A list with one item more.                                              *)
LEMMA OneMore ==
  ASSUME NEW s \in Seq(Positive), NEW x \in Positive, Topped(s)
  PROVE  /\ Append(s, x) \in Seq(Positive) /\ Topped(Append(s, x))
         /\ Len(Append(s, x)) = Len(s) + 1 /\ Append(s, x) # << >>
         /\ ~ CommentsOrdered(s) => ~ CommentsOrdered(Append(s, x))
         /\ s # << >> /\ x <= s[Len(s)] => ~ CommentsOrdered(Append(s, x))
         /\ CommentsOrdered(s) /\ (\A i \in DOMAIN s : s[i] < x) =>
              CommentsOrdered(Append(s, x)) /\ EndsHighest(Append(s, x))
         /\ (\A i \in DOMAIN s : s[i] <= x) => \A i \in DOMAIN Append(s, x) : Append(s, x)[i] <= x
<1> DEFINE t == Append(s, x)
<1>1. /\ Len(s) \in Nat /\ DOMAIN s = 1 .. Len(s) /\ \A i \in 1 .. Len(s) : s[i] \in Positive
  BY LenProperties, ElementOfSeq
<1>2. /\ t \in Seq(Positive) /\ t # << >> /\ Len(t) = Len(s) + 1
      /\ \A i \in 1 .. Len(s) : t[i] = s[i]
      /\ t[Len(s) + 1] = x
  BY AppendProperties
<1>3. DOMAIN t = 1 .. Len(s) + 1
  BY <1>2, LenProperties
<1> HIDE DEF t
<1>4. \A i \in 1 .. Len(s) + 1 : i \in 1 .. Len(s) \/ i = Len(s) + 1
  BY <1>1
<1>5. ToSet(t) = ToSet(s) \cup {x}
  <2>1. ToSet(t) = {t[i] : i \in 1 .. Len(s) + 1} /\ ToSet(s) = {s[i] : i \in 1 .. Len(s)}
    BY <1>1, <1>3 DEF ToSet
  <2>2. Len(s) + 1 \in 1 .. Len(s) + 1 /\ \A i \in 1 .. Len(s) : i \in 1 .. Len(s) + 1
    BY <1>1
  <2> QED
    BY <1>2, <1>4, <2>1, <2>2
<1>6. Topped(t)
  <2>1. PICK n \in ToSet(s) \cup {0} : \A m \in ToSet(s) \cup {0} : m <= n
    BY DEF Topped
  <2>2. ToSet(s) \subseteq Nat /\ x \in Nat /\ n \in Nat
    BY <1>1 DEF ToSet, Positive
  <2>3. CASE n <= x
    <3>1. \A m \in ToSet(t) \cup {0} : m <= x
      BY <1>5, <2>1, <2>2, <2>3
    <3> QED
      BY <1>5, <3>1 DEF Topped
  <2>4. CASE ~ (n <= x)
    <3>1. \A m \in ToSet(t) \cup {0} : m <= n
      BY <1>5, <2>1, <2>2, <2>4
    <3> QED
      BY <1>5, <2>1, <3>1 DEF Topped
  <2> QED
    BY <2>3, <2>4
<1>7. ASSUME ~ CommentsOrdered(s) PROVE ~ CommentsOrdered(t)
  <2>1. PICK i \in 2 .. Len(s) : ~ (s[i - 1] < s[i])
    BY <1>7 DEF CommentsOrdered
  <2>2. i \in 2 .. Len(t) /\ i \in 1 .. Len(s) /\ i - 1 \in 1 .. Len(s)
    BY <1>1, <1>2
  <2> QED
    BY <1>2, <2>1, <2>2 DEF CommentsOrdered
<1>8. ASSUME s # << >>, x <= s[Len(s)] PROVE ~ CommentsOrdered(t)
  <2>1. Len(s) >= 1
    BY <1>1, <1>8, EmptySeq
  <2>2. Len(t) \in 2 .. Len(t) /\ Len(t) - 1 = Len(s) /\ Len(s) \in 1 .. Len(s)
    BY <1>1, <1>2, <2>1
  <2>3. ~ (t[Len(t) - 1] < t[Len(t)])
    BY <1>1, <1>2, <1>8, <2>2 DEF Positive
  <2> QED
    BY <2>2, <2>3 DEF CommentsOrdered
<1>9. ASSUME CommentsOrdered(s), \A i \in DOMAIN s : s[i] < x
      PROVE  CommentsOrdered(t) /\ EndsHighest(t)
  <2>1. \A i \in 2 .. Len(s) + 1 : t[i - 1] < t[i]
    <3> TAKE i \in 2 .. Len(s) + 1
    <3>1. CASE i \in 2 .. Len(s)
      <4>1. i \in 1 .. Len(s) /\ i - 1 \in 1 .. Len(s)
        BY <1>1, <3>1
      <4> QED
        BY <1>2, <1>9, <3>1, <4>1 DEF CommentsOrdered
    <3>2. CASE i = Len(s) + 1
      <4>1. i - 1 \in 1 .. Len(s)
        BY <1>1, <3>2
      <4> QED
        BY <1>1, <1>2, <1>9, <3>2, <4>1
    <3> QED
      BY <1>1, <3>1, <3>2
  <2>2. \A i \in 1 .. Len(s) + 1 : t[i] <= t[Len(s) + 1]
    <3>1. \A i \in 1 .. Len(s) : t[i] < x /\ t[i] \in Nat
      BY <1>1, <1>2, <1>9 DEF Positive
    <3>2. \A i \in 1 .. Len(s) : t[i] <= x
      BY <3>1 DEF Positive
    <3>3. x <= x
      BY DEF Positive
    <3> QED
      BY <1>2, <1>4, <3>2, <3>3
  <2> QED
    BY <1>2, <1>3, <2>1, <2>2 DEF CommentsOrdered, EndsHighest
<1>10. ASSUME \A i \in DOMAIN s : s[i] <= x PROVE \A i \in DOMAIN t : t[i] <= x
  BY <1>1, <1>2, <1>3, <1>4, <1>10 DEF Positive
<1> QED
  BY <1>2, <1>6, <1>7, <1>8, <1>9, <1>10 DEF t

Added(fault) == IF fault \in {"refused", "dropped"} THEN 0 ELSE IF fault = "doubled" THEN 2 ELSE 1

(* What is tied or swapped stays out of order, and only that.              *)
LEMMA KeptInOrder ==
  ASSUME NEW s \in Seq(Positive), NEW fault \in FaultKinds \cup {"none"}, Topped(s),
         fault \in {"tied", "swapped"} => s # << >>
  PROVE  /\ Kept(s, fault) \in Seq(Positive) /\ Topped(Kept(s, fault))
         /\ Len(Kept(s, fault)) = Len(s) + Added(fault)
         /\ ~ CommentsOrdered(s) => ~ CommentsOrdered(Kept(s, fault))
         /\ fault \notin {"tied", "swapped"} /\ CommentsOrdered(s) /\ EndsHighest(s) =>
              CommentsOrdered(Kept(s, fault)) /\ EndsHighest(Kept(s, fault))
         /\ fault \in {"tied", "swapped"} /\ (CommentsOrdered(s) => EndsHighest(s)) =>
              ~ CommentsOrdered(Kept(s, fault))
<1> DEFINE new == Newest(s) + 1
<1>1. /\ Newest(s) \in Nat /\ \A i \in DOMAIN s : s[i] <= Newest(s)
      /\ s # << >> => Newest(s) \in Positive
      /\ s # << >> /\ EndsHighest(s) => Newest(s) = s[Len(s)]
  BY Highest
<1>2. Len(s) \in Nat /\ DOMAIN s = 1 .. Len(s) /\ \A i \in 1 .. Len(s) : s[i] \in Positive
  BY LenProperties, ElementOfSeq
<1>3. new \in Positive /\ new + 1 \in Positive /\ \A i \in DOMAIN s : s[i] < new
  BY <1>1, <1>2 DEF Positive
<1>4. CASE fault \in {"refused", "dropped"}
  <2>1. Kept(s, fault) = s
    BY <1>4 DEF Kept
  <2>2. Added(fault) = 0 /\ fault \notin {"tied", "swapped"}
    BY <1>4 DEF Added
  <2> QED
    BY <1>2, <2>1, <2>2
<1>5. CASE fault \in {"none", "unanswered"}
  <2>1. Kept(s, fault) = Append(s, new)
    BY <1>5 DEF Kept
  <2>2. Added(fault) = 1 /\ fault \notin {"tied", "swapped"}
    BY <1>5 DEF Added
  <2> HIDE DEF new
  <2> QED
    BY <1>3, <2>1, <2>2, OneMore
<1>6. CASE fault = "doubled"
  <2> DEFINE t == Append(s, new)
             u == Append(t, new + 1)
  <2>1. Kept(s, fault) = u
    BY <1>6 DEF Kept
  <2>2. Added(fault) = 2 /\ fault \notin {"tied", "swapped"}
    BY <1>6 DEF Added
  <2> HIDE DEF new
  <2>3. /\ t \in Seq(Positive) /\ Topped(t) /\ Len(t) = Len(s) + 1
        /\ ~ CommentsOrdered(s) => ~ CommentsOrdered(t)
        /\ CommentsOrdered(s) => CommentsOrdered(t)
        /\ \A i \in DOMAIN t : t[i] <= new
    <3>1. \A i \in DOMAIN s : s[i] <= new
      BY <1>2, <1>3 DEF Positive
    <3> QED
      BY <1>3, <3>1, OneMore
  <2>4. \A i \in DOMAIN t : t[i] < new + 1
    <3> HIDE DEF t
    <3>1. DOMAIN t = 1 .. Len(t) /\ \A i \in 1 .. Len(t) : t[i] \in Positive
      BY <2>3, LenProperties, ElementOfSeq
    <3> QED
      BY <1>3, <2>3, <3>1 DEF Positive
  <2>5. /\ u \in Seq(Positive) /\ Topped(u) /\ Len(u) = Len(t) + 1
        /\ ~ CommentsOrdered(t) => ~ CommentsOrdered(u)
        /\ CommentsOrdered(t) => CommentsOrdered(u) /\ EndsHighest(u)
    <3> HIDE DEF t
    <3> QED
      BY <1>3, <2>3, <2>4, OneMore
  <2>6. Len(u) = Len(s) + 2
    BY <1>2, <2>3, <2>5
  <2> QED
    BY <2>1, <2>2, <2>3, <2>5, <2>6
<1>7. CASE fault = "tied"
  <2>1. Kept(s, fault) = Append(s, Newest(s))
    BY <1>7 DEF Kept
  <2>2. Added(fault) = 1 /\ s # << >>
    BY <1>7 DEF Added
  <2>3. /\ Kept(s, fault) \in Seq(Positive) /\ Topped(Kept(s, fault))
        /\ Len(Kept(s, fault)) = Len(s) + 1
        /\ ~ CommentsOrdered(s) => ~ CommentsOrdered(Kept(s, fault))
        /\ Newest(s) <= s[Len(s)] => ~ CommentsOrdered(Kept(s, fault))
    BY <1>1, <2>1, <2>2, OneMore
  <2>4. EndsHighest(s) => Newest(s) <= s[Len(s)]
    BY <1>1, <2>2
  <2> QED
    BY <1>7, <2>2, <2>3, <2>4
<1>8. CASE fault = "swapped"
  <2> DEFINE f == Front(s)
             t == Append(f, new)
             u == Append(t, s[Len(s)])
  <2>1. Kept(s, fault) = u /\ s # << >>
    BY <1>8 DEF Kept, Last
  <2>2. Added(fault) = 1
    BY <1>8 DEF Added
  <2>3. Len(s) >= 1 /\ Len(s) \in DOMAIN s
    <3>1. Len(s) >= 1
      BY <1>2, <2>1, EmptySeq
    <3> QED
      BY <1>2, <3>1
  <2>4. /\ f \in Seq(Positive) /\ Len(f) = Len(s) - 1
        /\ \A i \in 1 .. Len(s) - 1 : f[i] = s[i]
    <3>1. f = SubSeq(s, 1, Len(s) - 1)
      BY DEF Front
    <3>2. /\ 1 \in Int /\ Len(s) - 1 \in Int /\ \A i \in 1 .. Len(s) - 1 : s[i] \in Positive
      BY <1>2
    <3> HIDE DEF f
    <3>3. /\ f \in Seq(Positive) /\ Len(f) = IF 1 <= Len(s) - 1 THEN (Len(s) - 1) - 1 + 1 ELSE 0
          /\ \A i \in 1 .. (Len(s) - 1) - 1 + 1 : f[i] = s[1 + i - 1]
      BY <3>1, <3>2, SubSeqProperties
    <3>4. (Len(s) - 1) - 1 + 1 = Len(s) - 1 /\ (IF 1 <= Len(s) - 1 THEN (Len(s) - 1) - 1 + 1 ELSE 0) = Len(s) - 1
      BY <1>2, <2>3
    <3>5. \A i \in 1 .. Len(s) - 1 : 1 + i - 1 = i
      BY <1>2
    <3> QED
      BY <3>3, <3>4, <3>5
  <2> HIDE DEF f, new
  <2>5. /\ t \in Seq(Positive) /\ Len(t) = Len(s) /\ t[Len(s)] = new
        /\ \A i \in 1 .. Len(s) - 1 : t[i] = s[i]
    <3>1. /\ t \in Seq(Positive) /\ Len(t) = Len(f) + 1 /\ t[Len(f) + 1] = new
          /\ \A i \in 1 .. Len(f) : t[i] = f[i]
      BY <1>3, <2>4, AppendProperties
    <3>2. Len(f) + 1 = Len(s)
      BY <1>2, <2>4
    <3> QED
      BY <2>4, <3>1, <3>2
  <2>6. Topped(t)
    <3> HIDE DEF t
    <3>1. DOMAIN t = 1 .. Len(s) /\ Len(s) \in 1 .. Len(s)
      BY <1>2, <2>3, <2>5, LenProperties
    <3>2. \A i \in 1 .. Len(s) : t[i] <= new /\ 0 <= new
      <4> TAKE i \in 1 .. Len(s)
      <4>1. CASE i \in 1 .. Len(s) - 1
        <5>1. s[i] < new /\ s[i] \in Positive
          BY <1>2, <1>3
        <5> QED
          BY <1>3, <2>5, <4>1, <5>1 DEF Positive
      <4>2. CASE i = Len(s)
        BY <1>3, <2>5, <4>2 DEF Positive
      <4>3. i \in 1 .. Len(s) - 1 \/ i = Len(s)
        <5>1. Len(s) \in Nat
          BY <1>2
        <5>2. i \in Int /\ 1 <= i /\ i <= Len(s)
          BY <5>1
        <5> QED
          BY <5>1, <5>2
      <4> QED
        BY <4>1, <4>2, <4>3
    <3>3. \A m \in ToSet(t) \cup {0} : m <= new
      BY <2>3, <3>1, <3>2 DEF ToSet
    <3>4. new \in ToSet(t)
      BY <2>5, <3>1 DEF ToSet
    <3> QED
      BY <3>3, <3>4 DEF Topped
  <2>7. s[Len(s)] \in Positive /\ s[Len(s)] <= t[Len(t)] /\ t # << >>
    <3>1. s[Len(s)] \in Positive /\ s[Len(s)] <= new
      BY <1>2, <1>3, <2>3 DEF Positive
    <3>2. t # << >>
      <4> HIDE DEF t
      <4> QED
        BY <1>2, <2>3, <2>5, EmptySeq
    <3> QED
      BY <2>5, <3>1, <3>2
  <2>8. /\ u \in Seq(Positive) /\ Topped(u) /\ Len(u) = Len(t) + 1 /\ ~ CommentsOrdered(u)
    <3> HIDE DEF t
    <3> QED
      BY <2>5, <2>6, <2>7, OneMore
  <2> QED
    BY <1>8, <2>1, <2>2, <2>5, <2>8
<1> QED
  BY <1>4, <1>5, <1>6, <1>7, <1>8 DEF FaultKinds

-----------------------------------------------------------------------------
(* What a call does to the place it is about.                              *)

LEMMA FaultsCounted ==
  ASSUME Typed, NEW place \in Places, NEW fault \in FaultKinds \cup {"none"}, Serve(place, fault)
  PROVE  \A p \in Places : \A k \in FaultKinds :
           /\ faults[p][k] \in Nat /\ faults'[p][k] \in Nat
           /\ faults'[p][k] = IF p = place /\ k = fault THEN faults[p][k] + 1 ELSE faults[p][k]
<1>1. faults \in Counts BY DEF Typed
<1>2. \A p \in Places : \A k \in FaultKinds : faults[p][k] \in Nat BY <1>1 DEF Counts
<1>3. CASE fault = "none"
  <2>1. faults' = faults /\ fault \notin FaultKinds BY <1>3 DEF Serve, FaultKinds
  <2> QED BY <1>2, <2>1
<1>4. CASE fault \in FaultKinds
  <2>1. faults' = [faults EXCEPT ![place][fault] = @ + 1] BY <1>4 DEF Serve, FaultKinds
  <2>2. faults[place] \in [FaultKinds -> Nat] /\ faults[place][fault] \in Nat BY <1>1, <1>2, <1>4 DEF Counts
  <2>3. \A p \in Places : \A k \in FaultKinds :
          faults'[p][k] = IF p = place /\ k = fault THEN faults[p][k] + 1 ELSE faults[p][k]
    BY <1>1, <2>1, <2>2, <1>4 DEF Counts
  <2> QED BY <1>2, <2>2, <2>3
<1> QED BY <1>3, <1>4

LEMMA ServedExactly ==
  ASSUME Typed, AllStored, NEW place \in Places, NEW fault \in FaultKinds \cup {"none"},
         Serve(place, fault)
  PROVE  /\ AllStored'
         /\ \A p \in Places \ {place} : store'[p] = store[p] /\ faults'[p] = faults[p]
         /\ Balance(place) \in Int /\ Balance(place)' = Balance(place) + 1
<1> DEFINE s == store[place]
           t == Kept(s, fault)
<1>1. /\ store \in [Places -> Seq(Positive)] /\ store' = [store EXCEPT ![place] = t]
      /\ fault \in {"tied", "swapped"} => s # << >>
  BY DEF AllStored, Serve
<1>2. /\ s \in Seq(Positive) /\ Topped(s)
      /\ Shuffled(place) = 0 => CommentsOrdered(s) /\ EndsHighest(s)
      /\ Shuffled(place) # 0 => ~ CommentsOrdered(s)
  BY DEF AllStored, Stored
<1>3. /\ t \in Seq(Positive) /\ Topped(t) /\ Len(t) = Len(s) + Added(fault)
      /\ ~ CommentsOrdered(s) => ~ CommentsOrdered(t)
      /\ fault \notin {"tied", "swapped"} /\ CommentsOrdered(s) /\ EndsHighest(s) =>
           CommentsOrdered(t) /\ EndsHighest(t)
      /\ fault \in {"tied", "swapped"} /\ (CommentsOrdered(s) => EndsHighest(s)) =>
           ~ CommentsOrdered(t)
  BY <1>1, <1>2, KeptInOrder
<1>4. Len(s) \in Nat
  BY <1>2, LenProperties
<1> HIDE DEF s, t
<1>5. /\ store' \in [Places -> Seq(Positive)] /\ store'[place] = t
      /\ \A p \in Places \ {place} : store'[p] = store[p]
  BY <1>1, <1>3
<1>6. \A k \in FaultKinds :
        /\ faults[place][k] \in Nat /\ faults'[place][k] \in Nat
        /\ faults'[place][k] = IF k = fault THEN faults[place][k] + 1 ELSE faults[place][k]
  BY FaultsCounted
<1>7. \A p \in Places \ {place} : faults'[p] = faults[p]
  BY DEF Typed, Counts, Serve
<1>8. FaultKinds = {"refused", "unanswered", "dropped", "doubled", "swapped", "tied"}
  BY DEF FaultKinds
<1>9. /\ Shuffled(place) \in Nat /\ Shuffled(place)' \in Nat
      /\ fault \in {"tied", "swapped"} => Shuffled(place)' = Shuffled(place) + 1
      /\ fault \notin {"tied", "swapped"} => Shuffled(place)' = Shuffled(place)
  <2>1. /\ faults[place]["tied"] \in Nat /\ faults[place]["swapped"] \in Nat
        /\ faults'[place]["tied"] = IF "tied" = fault THEN faults[place]["tied"] + 1 ELSE faults[place]["tied"]
        /\ faults'[place]["swapped"] =
             IF "swapped" = fault THEN faults[place]["swapped"] + 1 ELSE faults[place]["swapped"]
    BY <1>6, <1>8
  <2> QED
    BY <2>1 DEF Shuffled
<1>10. Stored(place)'
  <2>1. Shuffled(place)' = 0 => CommentsOrdered(t) /\ EndsHighest(t)
    BY <1>2, <1>3, <1>9
  <2>2. Shuffled(place)' # 0 => ~ CommentsOrdered(t)
    BY <1>2, <1>3, <1>9
  <2>3. Shuffled(place)' = faults'[place]["tied"] + faults'[place]["swapped"]
    BY DEF Shuffled
  <2> QED
    BY <1>3, <1>5, <2>1, <2>2, <2>3 DEF Stored, Shuffled
<1>11. \A p \in Places \ {place} : Stored(p)'
  <2> TAKE p \in Places \ {place}
  <2>1. Stored(p) /\ store'[p] = store[p] /\ faults'[p] = faults[p]
    BY <1>5, <1>7 DEF AllStored
  <2> QED
    BY <2>1 DEF Stored, Shuffled
<1>12. Balance(place) \in Int /\ Balance(place)' = Balance(place) + 1
  <2> DEFINE r == faults[place]["refused"]
             d == faults[place]["dropped"]
             b == faults[place]["doubled"]
  <2>0. r \in Nat /\ d \in Nat /\ b \in Nat
    BY <1>6, <1>8
  <2>1. /\ faults'[place]["refused"] = IF "refused" = fault THEN r + 1 ELSE r
        /\ faults'[place]["dropped"] = IF "dropped" = fault THEN d + 1 ELSE d
        /\ faults'[place]["doubled"] = IF "doubled" = fault THEN b + 1 ELSE b
    BY <1>6, <1>8
  <2>2. Balance(place) = Len(s) + faults[place]["refused"] + faults[place]["dropped"] - faults[place]["doubled"]
    BY DEF Balance, s
  <2>3. Balance(place)' =
          Len(s) + Added(fault) + faults'[place]["refused"] + faults'[place]["dropped"] - faults'[place]["doubled"]
    BY <1>3, <1>5 DEF Balance
  <2>4. CASE fault = "refused"
    <3>1. /\ Added(fault) = 0 /\ faults'[place]["refused"] = (r + 1)
          /\ faults'[place]["dropped"] = d /\ faults'[place]["doubled"] = b
      BY <2>1, <2>4 DEF Added
    <3>2. Balance(place) = Len(s) + r + d - b
      BY <2>2
    <3>3. Balance(place)' = Len(s) + 0 + (r + 1) + d - (b)
      BY <2>3, <3>1
    <3> HIDE DEF r, d, b
    <3> QED
      BY <1>4, <2>0, <3>2, <3>3
  <2>5. CASE fault = "dropped"
    <3>1. /\ Added(fault) = 0 /\ faults'[place]["refused"] = r
          /\ faults'[place]["dropped"] = (d + 1) /\ faults'[place]["doubled"] = b
      BY <2>1, <2>5 DEF Added
    <3>2. Balance(place) = Len(s) + r + d - b
      BY <2>2
    <3>3. Balance(place)' = Len(s) + 0 + r + (d + 1) - (b)
      BY <2>3, <3>1
    <3> HIDE DEF r, d, b
    <3> QED
      BY <1>4, <2>0, <3>2, <3>3
  <2>6. CASE fault = "doubled"
    <3>1. /\ Added(fault) = 2 /\ faults'[place]["refused"] = r
          /\ faults'[place]["dropped"] = d /\ faults'[place]["doubled"] = b + 1
      BY <2>1, <2>6 DEF Added
    <3>2. Balance(place) = Len(s) + r + d - b
      BY <2>2
    <3>3. Balance(place)' = Len(s) + 2 + r + d - (b + 1)
      BY <2>3, <3>1
    <3> HIDE DEF r, d, b
    <3> QED
      BY <1>4, <2>0, <3>2, <3>3
  <2>7. CASE fault \notin {"refused", "dropped", "doubled"}
    <3>1. /\ Added(fault) = 1 /\ faults'[place]["refused"] = r
          /\ faults'[place]["dropped"] = d /\ faults'[place]["doubled"] = b
      BY <2>1, <2>7 DEF Added
    <3>2. Balance(place) = Len(s) + r + d - b
      BY <2>2
    <3>3. Balance(place)' = Len(s) + 1 + r + d - (b)
      BY <2>3, <3>1
    <3> HIDE DEF r, d, b
    <3> QED
      BY <1>4, <2>0, <3>2, <3>3
  <2> QED
    BY <2>4, <2>5, <2>6, <2>7
<1> QED
  BY <1>5, <1>7, <1>10, <1>11, <1>12 DEF AllStored

LEMMA MadeFinite ==
  ASSUME NEW p \in Places
  PROVE  IsFiniteSet(Made(p)) /\ Cardinality(Made(p)) \in Nat
<1>1. IsFiniteSet(Writers \X (0 .. Rounds - 1))
  <2>1. IsFiniteSet(0 .. Rounds - 1)
    BY SizesAssumption, FS_Interval
  <2> QED
    BY <2>1, WritersAssumption, FS_Product
<1>2. Made(p) \subseteq Writers \X (0 .. Rounds - 1)
  BY DEF Made
<1> QED
  BY <1>1, <1>2, FS_Subset, FS_CardinalityType

(* Once the writers have made all their calls, each place got Rounds items *)
(* from each of them.                                                      *)
LEMMA AllMade ==
  ASSUME NEW p \in Places, \A w \in Writers : writers[w].calls = 2 * Rounds
  PROVE  Cardinality(Made(p)) = Cardinality(Writers) * Rounds
<1>1. Made(p) = Writers \X (0 .. Rounds - 1)
  <2>1. \A wk \in Writers \X (0 .. Rounds - 1) :
          2 * wk[2] + (IF p = "group" THEN 0 ELSE 1) < writers[wk[1]].calls
    <3> TAKE wk \in Writers \X (0 .. Rounds - 1)
    <3>1. wk[1] \in Writers /\ wk[2] \in 0 .. Rounds - 1 /\ Rounds \in Nat
      BY SizesAssumption
    <3>2. 2 * wk[2] < 2 * Rounds /\ 2 * wk[2] + 1 < 2 * Rounds
      BY <3>1
    <3> QED
      BY <3>1, <3>2
  <2> QED
    BY <2>1 DEF Made
<1>2. IsFiniteSet(0 .. Rounds - 1) /\ Cardinality(0 .. Rounds - 1) = Rounds
  <2>1. Rounds \in Nat /\ 0 \in Int /\ Rounds - 1 \in Int
    BY SizesAssumption
  <2>2. Cardinality(0 .. Rounds - 1) = IF 0 > Rounds - 1 THEN 0 ELSE (Rounds - 1) - 0 + 1
    BY <2>1, FS_Interval
  <2>3. IsFiniteSet(0 .. Rounds - 1)
    BY <2>1, FS_Interval
  <2> QED
    BY <2>1, <2>2, <2>3
<1> QED
  BY <1>1, <1>2, WritersAssumption, FS_Product

(* A call of a writer is one more made to its place, and to no other.      *)
LEMMA OneMoreMade ==
  ASSUME NEW w \in Writers, NEW place \in Places,
         writers[w].calls \in Nat, writers[w].calls < 2 * Rounds,
         place = (IF writers[w].calls % 2 = 0 THEN "group" ELSE "thread"),
         writers'[w].calls = writers[w].calls + 1,
         \A v \in Writers \ {w} : writers'[v].calls = writers[v].calls
  PROVE  /\ Cardinality(Made(place)') = Cardinality(Made(place)) + 1
         /\ \A p \in Places \ {place} : Made(p)' = Made(p)
<1> DEFINE n == writers[w].calls
           turn(p) == IF p = "group" THEN 0 ELSE 1
           K == 0 .. Rounds - 1
<1>1. Rounds \in Nat
  BY SizesAssumption
<1>2. PICK k \in K : n = 2 * k + turn(place)
  <2>1. n = 2 * (n \div 2) + (n % 2) /\ n % 2 \in {0, 1} /\ n \div 2 \in Nat
    OBVIOUS
  <2>2. n \div 2 \in K
    BY <1>1, <2>1
  <2>3. turn(place) = n % 2
    <3>1. CASE n % 2 = 0
      BY <3>1
    <3>2. CASE n % 2 = 1
      <4>1. place = "thread"
        BY <3>2
      <4> QED
        BY <3>2, <4>1
    <3> QED
      BY <2>1, <3>1, <3>2
  <2> QED
    BY <2>1, <2>2, <2>3
<1>3. \A p \in Places : turn(p) \in {0, 1} /\ (p # place => turn(p) # turn(place))
  BY DEF Places
<1> HIDE DEF turn
<1>4. \A p \in Places : \A wk \in Writers \X K :
        /\ wk \in Made(p) <=> 2 * wk[2] + turn(p) < writers[wk[1]].calls
        /\ wk \in Made(p)' <=> 2 * wk[2] + turn(p) < writers'[wk[1]].calls
  BY DEF Made, turn
<1>5. \A p \in Places : Made(p) \subseteq Writers \X K /\ Made(p)' \subseteq Writers \X K
  BY DEF Made
<1>6. \A p \in Places : \A l \in K :
        2 * l + turn(p) < n + 1 <=> 2 * l + turn(p) < n \/ (p = place /\ l = k)
  <2> TAKE p \in Places
  <2> TAKE l \in K
  <2>1. n \in Nat /\ k \in Nat /\ l \in Nat /\ turn(p) \in {0, 1} /\ turn(place) \in {0, 1}
    BY <1>1, <1>2, <1>3
  <2>2. CASE p = place
    <3>1. n = 2 * k + turn(p)
      BY <1>2, <2>2
    <3>2. 2 * l + turn(p) < 2 * k + turn(p) + 1 <=> 2 * l + turn(p) < 2 * k + turn(p) \/ l = k
      BY <2>1
    <3> QED
      BY <2>2, <3>1, <3>2
  <2>3. CASE p # place
    <3>1. turn(p) # turn(place)
      BY <1>3, <2>3
    <3> QED
      BY <1>2, <2>1, <2>3, <3>1
  <2> QED
    BY <2>2, <2>3
<1> HIDE DEF n, K
<1>7. \A p \in Places \ {place} : Made(p)' = Made(p)
  <2> TAKE p \in Places \ {place}
  <2>1. \A wk \in Writers \X K : wk \in Made(p)' <=> wk \in Made(p)
    <3> TAKE wk \in Writers \X K
    <3>1. CASE wk[1] = w
      BY <1>4, <1>6, <3>1 DEF n
    <3>2. CASE wk[1] # w
      BY <1>4, <3>2
    <3> QED
      BY <3>1, <3>2
  <2> QED
    BY <1>5, <2>1
<1>8. << w, k >> \notin Made(place)
  <2>1. << w, k >> \in Writers \X K /\ << w, k >>[1] = w /\ << w, k >>[2] = k
    OBVIOUS
  <2>2. << w, k >> \in Made(place) <=> 2 * k + turn(place) < n
    BY <1>4, <2>1 DEF n
  <2>3. n \in Nat
    BY DEF n
  <2> QED
    BY <1>2, <2>2, <2>3
<1>9. Made(place)' = Made(place) \cup {<< w, k >>}
  <2>1. \A wk \in Writers \X K : wk \in Made(place)' <=> wk \in Made(place) \/ wk = << w, k >>
    <3> TAKE wk \in Writers \X K
    <3>1. CASE wk[1] = w
      <4>1. wk = << w, k >> <=> wk[2] = k
        BY <3>1
      <4> QED
        BY <1>4, <1>6, <3>1, <4>1 DEF n
    <3>2. CASE wk[1] # w
      BY <1>4, <3>2
    <3> QED
      BY <3>1, <3>2
  <2>2. << w, k >> \in Writers \X K
    OBVIOUS
  <2> QED
    BY <1>5, <2>1, <2>2
<1>10. Cardinality(Made(place) \cup {<< w, k >>}) = Cardinality(Made(place)) + 1
  <2>1. IsFiniteSet(Made(place))
    BY MadeFinite
  <2> HIDE DEF Made
  <2>2. Cardinality(Made(place) \cup {<< w, k >>}) =
          IF << w, k >> \in Made(place) THEN Cardinality(Made(place)) ELSE Cardinality(Made(place)) + 1
    BY ONLY <2>1, FS_AddElement
  <2> QED
    BY ONLY <1>8, <2>2
<1>11. Cardinality(Made(place)') = Cardinality(Made(place)) + 1
  BY ONLY <1>9, <1>10
<1> QED
  BY ONLY <1>7, <1>11

-----------------------------------------------------------------------------
(* The invariant.                                                          *)

LEMMA SomeTotal == Total \in Nat /\ Total > 0
<1>1. /\ Load \in Nat /\ Load > 0 /\ HistoryMessages \in Nat /\ HistoryMessages > 0
      /\ HistoryComments \in Nat /\ HistoryComments > 0
  BY SizesAssumption
<1> QED
  BY <1>1 DEF Total

LEMMA ExactInitially == Init => Exact
<1> SUFFICES ASSUME Init PROVE Exact
  OBVIOUS
<1>1. /\ scenario \in {"concurrent", "offline", "growing"} /\ pc = "prepare" /\ target = "group"
      /\ sent = 0 /\ errs = 0 /\ outcome = "running"
      /\ writers = [w \in Writers |-> [calls |-> 0, at |-> "call", length |-> 0]]
      /\ store = [place \in Places |-> <<>>]
      /\ faults = [place \in Places |-> [kind \in FaultKinds |-> 0]]
      /\ reliability = [messageLoss |-> 0, orderingViolations |-> 0, failedResumes |-> 0]
  BY DEF Init
<1>2. \A p \in Places : /\ store[p] = << >> /\ faults[p]["tied"] = 0 /\ faults[p]["swapped"] = 0
                        /\ faults[p]["refused"] = 0 /\ faults[p]["dropped"] = 0 /\ faults[p]["doubled"] = 0
  BY <1>1 DEF FaultKinds
<1>3. << >> \in Seq(Positive) /\ Len(<< >>) = 0 /\ DOMAIN << >> = {}
  BY EmptySeq
<1>4. Topped(<< >>) /\ CommentsOrdered(<< >>) /\ EndsHighest(<< >>)
  <2>1. ToSet(<< >>) \cup {0} = {0}
    BY <1>3 DEF ToSet
  <2>2. Topped(<< >>)
    BY <2>1 DEF Topped
  <2>3. CommentsOrdered(<< >>)
    BY <1>3 DEF CommentsOrdered
  <2> QED
    BY <1>3, <2>2, <2>3 DEF EndsHighest
<1>5. AllStored
  <2>1. store \in [Places -> Seq(Positive)]
    BY <1>1, <1>3
  <2>2. ASSUME NEW p \in Places PROVE Stored(p)
    <3>1. Shuffled(p) = 0
      BY <1>2 DEF Shuffled
    <3> QED
      BY <1>2, <1>3, <1>4, <3>1 DEF Stored
  <2> QED
    BY <2>1, <2>2 DEF AllStored
<1>6. \A w \in Writers : writers[w].calls = 0 /\ writers[w].at = "call"
  BY <1>1
<1>7. AllCounted
  <2> SUFFICES ASSUME NEW p \in Places PROVE Balance(p) = Tried(p)
    BY DEF AllCounted, Counted
  <2>1. Balance(p) = 0
    BY <1>2, <1>3 DEF Balance
  <2>2. Made(p) = {}
    <3>1. \A wk \in Writers \X (0 .. Rounds - 1) :
            ~ (2 * wk[2] + (IF p = "group" THEN 0 ELSE 1) < writers[wk[1]].calls)
      <4> TAKE wk \in Writers \X (0 .. Rounds - 1)
      <4>1. writers[wk[1]].calls = 0 /\ wk[2] \in Nat
        BY <1>6, SizesAssumption
      <4> QED
        BY <4>1
    <3> QED
      BY <3>1 DEF Made
  <2>3. Tried(p) = 0
    BY <1>1, <2>2, FS_EmptySet DEF Tried
  <2> QED
    BY <2>1, <2>3
<1>8. Progress
  <2>1. \A w \in Writers : writers[w].calls <= 2 * Rounds
    BY <1>6, SizesAssumption
  <2>2. sent < Total
    BY <1>1, SomeTotal
  <2> QED
    BY <1>1, <1>6, <2>1, <2>2 DEF Progress
<1>9. Vouched /\ Blamed
  BY <1>1 DEF Vouched, Blamed
<1> QED
  BY <1>5, <1>7, <1>8, <1>9 DEF Exact

(* What counting shows: the place looked at holds what was sent to it.     *)
LEMMA Looking ==
  ASSUME Inv, Exact, pc = "look"
  PROVE  /\ Len(store[target]) \in Nat /\ Expected \in Int /\ Missing(target) \in Int
         /\ Expected - Len(store[target]) = Missing(target)
         /\ Shuffled(target) \in Nat
         /\ target = "thread" \/ (numbered /\ scenario # "growing") =>
              (InOrder(target) <=> Shuffled(target) = 0)
         /\ target = "group" /\ (~ numbered \/ scenario = "growing") => InOrder(target)
<1>1. target \in Places /\ scenario \in {"concurrent", "offline", "growing"} /\ outcome = "running"
  BY DEF Inv, Typed, Exact, Progress, Failing
<1>2. \A p \in Places : \A k \in FaultKinds : faults[p][k] \in Nat
  BY DEF Inv, Typed, Counts
<1>3. /\ faults[target]["refused"] \in Nat /\ faults[target]["dropped"] \in Nat
      /\ faults[target]["doubled"] \in Nat /\ faults[target]["tied"] \in Nat
      /\ faults[target]["swapped"] \in Nat
  BY <1>1, <1>2 DEF FaultKinds
<1>4. Failures = 0
  <2>1. CASE scenario = "concurrent"
    BY <2>1, FS_EmptySet DEF Inv, Accounted
  <2>2. CASE scenario # "concurrent"
    BY <1>1, <2>2 DEF Inv, Failing
  <2> QED
    BY <2>1, <2>2
<1>5. faults[target]["refused"] = 0
  <2>1. \A p \in {"group", "thread"} : faults[p]["refused"] \in Nat /\ faults[p]["unanswered"] \in Nat
    BY <1>2 DEF FaultKinds, Places
  <2> DEFINE gr == faults["group"]["refused"]
             gu == faults["group"]["unanswered"]
             tr == faults["thread"]["refused"]
             tu == faults["thread"]["unanswered"]
  <2>2. gr \in Nat /\ gu \in Nat /\ tr \in Nat /\ tu \in Nat /\ (gr + gu) + (tr + tu) = 0
    BY <1>4, <2>1 DEF Failures
  <2>3. gr = 0 /\ tr = 0
    <3> HIDE DEF gr, gu, tr, tu
    <3> QED
      BY <2>2
  <2> QED
    BY <1>1, <2>3 DEF Places
<1>6. Balance(target) = Tried(target)
  BY <1>1 DEF Exact, AllCounted, Counted
<1>7. Tried(target) = Expected /\ Expected \in Int
  <2>1. CASE scenario = "concurrent"
    <3>1. \A w \in Writers : writers[w].calls = 2 * Rounds
      <4>1. \A w \in Writers : writers[w].at = "done"
        BY <2>1 DEF Exact, Progress
      <4>2. \A w \in Writers : writers[w].at = "done" => writers[w].calls = 2 * Rounds
        <5>1. Progress
          BY DEF Exact
        <5> QED
          BY <5>1 DEF Progress
      <4> QED
        BY <4>1, <4>2
    <3>2. Tried(target) = Cardinality(Writers) * Rounds
      BY <1>1, <2>1, <3>1, AllMade DEF Tried
    <3>3. Cardinality(Writers) \in Nat
      BY WritersAssumption, FS_CardinalityType
    <3> QED
      BY <2>1, <3>2, <3>3, SizesAssumption DEF Expected
  <2>2. CASE scenario = "offline"
    <3>1. sent = Load /\ sent \in Nat
      BY <2>2 DEF Exact, Progress
    <3> QED
      BY <2>2, <3>1 DEF Tried, Expected
  <2>3. CASE scenario = "growing"
    <3>1. sent \in Nat
      BY DEF Exact, Progress
    <3> QED
      BY <2>3, <3>1 DEF Tried, Expected
  <2> QED
    BY <1>1, <2>1, <2>2, <2>3
<1>8. /\ store[target] \in Seq(Positive)
      /\ Shuffled(target) = 0 => CommentsOrdered(store[target])
      /\ Shuffled(target) # 0 => ~ CommentsOrdered(store[target])
  BY <1>1 DEF Exact, AllStored, Stored
<1>9. Len(store[target]) \in Nat
  BY <1>8, LenProperties
<1>10. Expected - Len(store[target]) = Missing(target) /\ Missing(target) \in Int
  <2>1. Balance(target) = Len(store[target]) + faults[target]["refused"] + faults[target]["dropped"]
                          - faults[target]["doubled"]
    BY DEF Balance
  <2>2. Missing(target) = faults[target]["dropped"] - faults[target]["doubled"]
    BY DEF Missing
  <2> QED
    BY <1>3, <1>5, <1>6, <1>7, <1>9, <2>1, <2>2
<1>11. Shuffled(target) \in Nat
  BY <1>3 DEF Shuffled
<1>12. CASE target = "thread"
  <2>1. InOrder(target) <=> CommentsOrdered(store[target])
    <3>1. History(target) = store[target]
      BY <1>12 DEF History
    <3>2. InOrder(target) <=> CommentsOrdered(History(target))
      BY <1>12 DEF InOrder, CommentsOrdered
    <3> QED
      BY <3>1, <3>2
  <2> QED
    BY <1>7, <1>8, <1>9, <1>10, <1>11, <1>12, <2>1
<1>13. CASE target = "group"
  <2>1. CASE scenario = "growing"
    <3>1. InOrder(target)
      BY <1>13, <2>1 DEF InOrder
    <3> QED
      BY <1>7, <1>9, <1>10, <1>11, <1>13, <2>1, <3>1
  <2>2. CASE scenario # "growing"
    <3>1. InOrder(target) <=> Ordered(History(target))
      BY <1>13, <2>2 DEF InOrder
    <3>2. CASE numbered
      <4>1. History(target) = store[target]
        BY <3>2 DEF History
      <4>2. Ordered(store[target]) <=> CommentsOrdered(store[target])
        <5>1. \A i \in 2 .. Len(store[target]) :
                store[target][i] \in Positive /\ store[target][i - 1] \in Positive
          <6> TAKE i \in 2 .. Len(store[target])
          <6>1. i \in 1 .. Len(store[target]) /\ i - 1 \in 1 .. Len(store[target])
            BY <1>9
          <6> QED
            BY <1>8, <6>1, ElementOfSeq
        <5>2. \A i \in 2 .. Len(store[target]) :
                /\ store[target][i] > 0 /\ store[target][i - 1] > 0
                /\ store[target][i] > store[target][i - 1] <=> store[target][i - 1] < store[target][i]
          BY <5>1 DEF Positive
        <5> QED
          BY <5>2 DEF Ordered, CommentsOrdered
      <4> QED
        BY <1>7, <1>8, <1>9, <1>10, <1>11, <1>13, <2>2, <3>1, <3>2, <4>1, <4>2
    <3>3. CASE ~ numbered
      <4>1. Ordered(History(target))
        <5>1. History(target) = [i \in DOMAIN store[target] |-> 0]
          BY <1>13, <3>3 DEF History
        <5>2. DOMAIN store[target] = 1 .. Len(store[target])
          BY <1>8, LenProperties
        <5>3. [i \in DOMAIN store[target] |-> 0] \in Seq(Nat)
              /\ Len([i \in DOMAIN store[target] |-> 0]) = Len(store[target])
          BY <1>9, <5>2
        <5>4. \A i \in 2 .. Len(store[target]) : ~ ([j \in DOMAIN store[target] |-> 0][i] > 0)
          BY <1>9, <5>2
        <5> QED
          BY <5>1, <5>3, <5>4 DEF Ordered
      <4> QED
        BY <1>7, <1>9, <1>10, <1>11, <1>13, <2>2, <3>1, <3>3, <4>1
    <3> QED
      BY <3>2, <3>3
  <2> QED
    BY <2>1, <2>2
<1> QED
  BY <1>1, <1>12, <1>13 DEF Places

(* Steps that leave alone what the server has stored.                      *)
LEMMA Unserved ==
  ASSUME AllStored, UNCHANGED server
  PROVE  /\ AllStored'
         /\ \A p \in Places : /\ Balance(p)' = Balance(p)
                              /\ Missing(p)' = Missing(p)
                              /\ Shuffled(p)' = Shuffled(p)
<1>1. store' = store /\ faults' = faults
  BY DEF server
<1> QED
  BY <1>1 DEF AllStored, Stored, Shuffled, Balance, Missing

(* No call, no difference to what was tried.                               *)
LEMMA NoneMade ==
  ASSUME \A w \in Writers : writers'[w].calls = writers[w].calls
  PROVE  \A p \in Places : Made(p)' = Made(p)
<1> TAKE p \in Places
<1>1. \A wk \in Writers \X (0 .. Rounds - 1) : writers'[wk[1]].calls = writers[wk[1]].calls
  OBVIOUS
<1> QED
  BY <1>1 DEF Made

(* A call of a writer.                                                     *)
LEMMA ExactCalling ==
  ASSUME Inv, Exact, NEW w \in Writers, WriterCalls(w)
  PROVE  Exact'
<1>1. PICK fault \in FaultKinds \cup {"none"}, place \in Places :
        /\ Serve(place, fault)
        /\ place = (IF writers[w].calls % 2 = 0 THEN "group" ELSE "thread")
        /\ writers' = [writers EXCEPT ![w] =
                         [calls |-> writers[w].calls + 1,
                          at |-> IF fault \in Broken THEN "lock" ELSE "call",
                          length |-> writers[w].length]]
  BY DEF WriterCalls, Places
<1>2. /\ scenario = "concurrent" /\ pc = "send" /\ writers[w].calls < 2 * Rounds
      /\ UNCHANGED <<scenario, numbered, pc, target, sent, errs, mu, reliability, outcome>>
  BY DEF WriterCalls, Concurrent, CallsLeft
<1>3. /\ AllStored /\ AllCounted /\ Progress /\ Vouched /\ Blamed
      /\ Typed /\ Failing
  BY DEF Exact, Inv
<1>4. writers \in [Writers -> Writer] /\ writers[w].calls \in Nat /\ writers[w] \in Writer
  BY <1>3 DEF Typed, Writer
<1>5. outcome = "running"
  BY <1>2, <1>3 DEF Failing
<1>6. target = "group"
  BY <1>2, <1>3 DEF Progress, Typed, Places
<1>7. /\ writers'[w].calls = writers[w].calls + 1 /\ writers'[w].at \in {"lock", "call"}
      /\ \A v \in Writers \ {w} : writers'[v] = writers[v]
  BY <1>1, <1>4
<1>8. /\ AllStored'
      /\ \A p \in Places \ {place} : store'[p] = store[p] /\ faults'[p] = faults[p]
      /\ Balance(place) \in Int /\ Balance(place)' = Balance(place) + 1
  BY <1>1, <1>3, ServedExactly
<1>9. /\ Cardinality(Made(place)') = Cardinality(Made(place)) + 1
      /\ \A p \in Places \ {place} : Made(p)' = Made(p)
  BY <1>1, <1>2, <1>4, <1>7, OneMoreMade
<1>10. AllCounted'
  <2> SUFFICES ASSUME NEW p \in Places PROVE Balance(p)' = Cardinality(Made(p)')
    BY <1>2 DEF AllCounted, Counted, Tried
  <2>1. Balance(p) = Cardinality(Made(p))
    BY <1>2, <1>3, <1>6 DEF AllCounted, Counted, Tried
  <2>2. CASE p = place
    BY <2>1, <2>2, <1>8, <1>9
  <2>3. CASE p # place
    <3>1. Balance(p)' = Balance(p)
      BY <2>3, <1>8 DEF Balance
    <3> QED
      BY <2>1, <2>3, <3>1, <1>9
  <2> QED
    BY <2>2, <2>3
<1>11. Progress'
  <2>1. \A v \in Writers :
          writers'[v].calls <= 2 * Rounds /\ (writers'[v].at = "done" => writers'[v].calls = 2 * Rounds)
    <3> TAKE v \in Writers
    <3>1. CASE v = w
      <4>1. writers'[w].calls <= 2 * Rounds
        BY <1>2, <1>4, <1>7, SizesAssumption
      <4> QED
        BY <3>1, <4>1, <1>7
    <3>2. CASE v # w
      BY <3>2, <1>3, <1>7 DEF Progress
    <3> QED
      BY <3>1, <3>2
  <2> QED
    BY <2>1, <1>2, <1>3, <1>6 DEF Progress
<1>12. Vouched'
  BY <1>2, <1>5, <1>6 DEF Vouched
<1>13. Blamed'
  BY <1>2, <1>3 DEF Blamed
<1> QED
  BY <1>8, <1>10, <1>11, <1>12, <1>13 DEF Exact

(* The steps of a writer that call nobody.                                 *)
LEMMA ExactNoting ==
  ASSUME Inv, Exact, NEW w \in Writers, Lock(w) \/ ReadErrs(w) \/ WriteErrs(w) \/ WriterDone(w)
  PROVE  Exact'
<1>1. /\ AllStored /\ AllCounted /\ Progress /\ Vouched /\ Blamed
      /\ Typed /\ Accounted /\ Failing
  BY DEF Exact, Inv
<1>2. UNCHANGED <<scenario, numbered, pc, target, sent, reliability, outcome>> /\ UNCHANGED server
  BY DEF Lock, ReadErrs, WriteErrs, WriterDone
<1>3. scenario = "concurrent" /\ pc \notin {"look", "done"}
  <2>1. CASE Lock(w) \/ ReadErrs(w) \/ WriteErrs(w)
    <3>1. w \in Noting
      BY <2>1 DEF Lock, ReadErrs, WriteErrs, Noting
    <3> QED
      BY <3>1, <1>1 DEF Accounted, Failing
  <2>2. CASE WriterDone(w)
    BY <2>2 DEF WriterDone, Concurrent
  <2> QED
    BY <2>1, <2>2
<1>4. \A v \in Writers :
        /\ writers[v] \in Writer /\ writers'[v].calls = writers[v].calls
        /\ writers'[v].at = "done" => writers[v].at = "done" \/ (WriterDone(w) /\ v = w)
  <2>1. writers \in [Writers -> Writer]
    BY <1>1 DEF Typed
  <2>2. CASE Lock(w)
    BY <2>1, <2>2 DEF Lock, Move, Writer
  <2>3. CASE ReadErrs(w)
    BY <2>1, <2>3 DEF ReadErrs, Writer
  <2>4. CASE WriteErrs(w)
    BY <2>1, <2>4 DEF WriteErrs, Move, Writer
  <2>5. CASE WriterDone(w)
    <3>1. writers' = [writers EXCEPT ![w].at = "done"]
      BY <2>5 DEF WriterDone, Move
    <3> QED
      BY <2>1, <2>5, <3>1 DEF Writer
  <2> QED
    BY <2>2, <2>3, <2>4, <2>5
<1>5. target = "group" /\ outcome = "running"
  BY <1>1, <1>3 DEF Progress, Typed, Places, Failing
<1>6. AllStored' /\ \A p \in Places : Balance(p)' = Balance(p)
  BY <1>1, <1>2, Unserved
<1>7. AllCounted'
  <2>1. \A p \in Places : Made(p)' = Made(p)
    BY <1>4, NoneMade
  <2> QED
    BY <2>1, <1>1, <1>2, <1>6 DEF AllCounted, Counted, Tried
<1>8. Progress'
  <2>1. \A v \in Writers :
          writers'[v].calls <= 2 * Rounds /\ (writers'[v].at = "done" => writers'[v].calls = 2 * Rounds)
    <3> TAKE v \in Writers
    <3>1. writers[v].calls <= 2 * Rounds /\ (writers[v].at = "done" => writers[v].calls = 2 * Rounds)
      BY <1>1 DEF Progress
    <3>2. ASSUME WriterDone(w), v = w PROVE writers[v].calls = 2 * Rounds
      <4>1. ~ (writers[w].calls < 2 * Rounds)
        BY <3>2 DEF WriterDone, CallsLeft
      <4>2. writers[w].calls \in Nat /\ 2 * Rounds \in Nat
        BY <1>4, SizesAssumption DEF Writer
      <4> QED
        BY <3>1, <3>2, <4>1, <4>2
    <3> QED
      BY <3>1, <3>2, <1>4
  <2> QED
    BY <2>1, <1>1, <1>2, <1>3 DEF Progress
<1>9. Vouched'
  BY <1>2, <1>5 DEF Vouched
<1>10. Blamed'
  BY <1>1, <1>2, <1>3 DEF Blamed
<1> QED
  BY <1>6, <1>7, <1>8, <1>9, <1>10 DEF Exact

(* A scenario without writers sends one item more.                         *)
LEMMA ExactSending ==
  ASSUME Inv, Exact, Send
  PROVE  Exact'
<1>1. /\ AllStored /\ AllCounted /\ Progress /\ Vouched /\ Blamed
      /\ Typed /\ Failing
  BY DEF Exact, Inv
<1>2. /\ scenario # "concurrent" /\ pc = "send"
      /\ UNCHANGED <<scenario, numbered, writers, errs, mu, reliability>>
  BY DEF Send
<1>3. PICK fault \in FaultKinds \cup {"none"}, place \in Places :
        /\ place = target /\ Serve(place, fault)
        /\ IF fault \in Broken THEN Stop("failed") /\ UNCHANGED <<target, sent>>
           ELSE IF LooksAfter(sent + 1)
             THEN /\ sent' = sent + 1
                  /\ pc' = IF scenario = "offline" THEN "resume" ELSE "look"
                  /\ UNCHANGED <<target, outcome>>
           ELSE Proceed(sent + 1)
  BY <1>1 DEF Send, Typed
<1>4. /\ target \in Places /\ outcome = "running" /\ scenario \in {"offline", "growing"}
      /\ sent \in Nat /\ sent < Total /\ Total \in Nat
      /\ scenario = "offline" => target = "group" /\ Total = Load
  BY <1>1, <1>2, SomeTotal DEF Typed, Failing, Progress, Total
<1>5. /\ AllStored'
      /\ \A p \in Places \ {place} : store'[p] = store[p] /\ faults'[p] = faults[p]
      /\ Balance(place) \in Int /\ Balance(place)' = Balance(place) + 1
  BY <1>1, <1>3, ServedExactly
<1>6. /\ target' = target
      /\ \/ pc' = "done" /\ outcome' = "failed" /\ sent' = sent
         \/ /\ sent' = sent + 1 /\ outcome' = outcome
            /\ \/ scenario = "growing" /\ pc' = "look"
               \/ scenario = "offline" /\ pc' = "resume" /\ sent' = Load
               \/ pc' = "send" /\ sent' < Total
  <2>1. CASE fault \in Broken
    BY <1>3, <2>1 DEF Stop
  <2>2. CASE fault \notin Broken /\ LooksAfter(sent + 1)
    <3>1. /\ sent' = sent + 1 /\ pc' = (IF scenario = "offline" THEN "resume" ELSE "look")
          /\ UNCHANGED <<target, outcome>>
      BY <1>3, <2>2
    <3>2. scenario = "offline" => sent + 1 = Load
      BY <1>4, <2>2 DEF LooksAfter
    <3> QED
      BY <1>4, <3>1, <3>2
  <2>3. CASE fault \notin Broken /\ ~ LooksAfter(sent + 1)
    <3>1. Proceed(sent + 1)
      BY <1>3, <2>3
    <3>2. sent + 1 # Total
      BY <2>3 DEF LooksAfter
    <3>3. sent + 1 < Total
      BY <1>4, <3>2
    <3> QED
      BY <1>2, <3>1, <3>3 DEF Proceed
  <2> QED
    BY <2>1, <2>2, <2>3
<1>7. AllCounted'
  <2> SUFFICES ASSUME NEW p \in Places, p = target \/ target = "group", outcome' # "failed"
               PROVE  Balance(p)' = IF p = target THEN sent' ELSE 0
    BY <1>2, <1>6 DEF AllCounted, Counted, Tried
  <2>1. sent' = sent + 1
    BY <1>6
  <2>2. Balance(p) = IF p = target THEN sent ELSE 0
    BY <1>1, <1>2, <1>4 DEF AllCounted, Counted, Tried
  <2>3. CASE p = target
    BY <2>1, <2>2, <2>3, <1>3, <1>5
  <2>4. CASE p # target
    <3>1. Balance(p)' = Balance(p)
      BY <2>4, <1>3, <1>5 DEF Balance
    <3> QED
      BY <2>2, <2>4, <3>1
  <2> QED
    BY <2>3, <2>4
<1>8. Progress'
  <2>1. Total' = Total
    BY <1>2, <1>6 DEF Total
  <2>2. sent' \in Nat
    BY <1>4, <1>6
  <2>3. \A v \in Writers :
          writers'[v].calls <= 2 * Rounds /\ (writers'[v].at = "done" => writers'[v].calls = 2 * Rounds)
    BY <1>1, <1>2 DEF Progress
  <2>4. pc' \in {"prepare", "send"} => sent' < Total
    BY <1>6
  <2>5. scenario = "offline" => target' = "group" /\ (pc' \in {"resume", "look"} => sent' = Load)
    BY <1>4, <1>6
  <2>6. pc' = "resume" => scenario = "offline"
    BY <1>6
  <2> QED
    BY <2>1, <2>2, <2>3, <2>4, <2>5, <2>6, <1>2, <1>4 DEF Progress
<1>9. Vouched'
  <2>1. outcome' # "passed"
    BY <1>4, <1>6
  <2>2. ASSUME target = "thread" PROVE Good("group")'
    <3>1. Good("group")
      BY <2>2, <1>1 DEF Vouched
    <3>2. faults'["group"] = faults["group"]
      BY <2>2, <1>3, <1>5 DEF Places
    <3> QED
      BY <3>1, <3>2, <1>2 DEF Good, Missing, Shuffled
  <2> QED
    BY <2>1, <2>2, <1>6 DEF Vouched
<1>10. Blamed'
  BY <1>1, <1>2 DEF Blamed
<1> QED
  BY <1>5, <1>7, <1>8, <1>9, <1>10 DEF Exact

(* All is there: on with the same items, with the comments, or to the end. *)
LEMMA ExactThere ==
  ASSUME Inv, Exact, AllThere
  PROVE  Exact'
<1>1. /\ AllStored /\ AllCounted /\ Progress /\ Vouched /\ Blamed
      /\ Typed /\ Failing
  BY DEF Exact, Inv
<1>2. /\ pc = "look" /\ Len(store[target]) = Expected /\ InOrder(target) /\ Proceed(sent)
      /\ UNCHANGED <<scenario, numbered, writers, errs, mu, reliability>> /\ UNCHANGED server
  BY DEF AllThere
<1>3. /\ target \in Places /\ outcome = "running" /\ sent \in Nat
      /\ scenario \in {"concurrent", "offline", "growing"}
      /\ scenario = "offline" => target = "group"
  BY <1>1, <1>2 DEF Typed, Failing, Progress
<1>4. Good(target)
  <2>1. /\ Len(store[target]) \in Nat /\ Missing(target) \in Int
        /\ Expected - Len(store[target]) = Missing(target)
        /\ target = "thread" \/ (numbered /\ scenario # "growing") =>
             (InOrder(target) <=> Shuffled(target) = 0)
    BY <1>2, Looking
  <2>2. Missing(target) = 0
    BY <2>1, <1>2
  <2>3. Shuffled(target) = 0 \/ (target = "group" /\ (~numbered \/ scenario = "growing"))
    BY <2>1, <1>2, <1>3 DEF Places
  <2> QED
    BY <2>2, <2>3 DEF Good
<1>5. /\ AllStored'
      /\ \A p \in Places : /\ Balance(p)' = Balance(p)
                           /\ Missing(p)' = Missing(p)
                           /\ Shuffled(p)' = Shuffled(p)
  BY <1>1, <1>2, Unserved
<1>6. \A p \in Places : Good(p)' <=> Good(p)
  BY <1>2, <1>5 DEF Good
<1>7. \A p \in Places : Made(p)' = Made(p)
  BY <1>2, NoneMade
<1>8. Blamed'
  BY <1>1, <1>2 DEF Blamed
<1>9. \A v \in Writers :
        writers'[v].calls <= 2 * Rounds /\ (writers'[v].at = "done" => writers'[v].calls = 2 * Rounds)
  BY <1>1, <1>2 DEF Progress
<1>10. CASE scenario # "concurrent" /\ sent < Total
  <2>1. pc' = "send" /\ sent' = sent /\ target' = target /\ outcome' = outcome
    BY <1>2, <1>10 DEF Proceed
  <2>2. AllCounted'
    BY <2>1, <1>1, <1>2, <1>5, <1>7 DEF AllCounted, Counted, Tried
  <2>3. Total' = Total
    BY <2>1, <1>2 DEF Total
  <2>4. Progress'
    BY <2>1, <2>3, <1>2, <1>3, <1>9, <1>10 DEF Progress
  <2>5. Vouched'
    BY <2>1, <1>1, <1>3, <1>6 DEF Vouched, Places
  <2> QED
    BY <2>2, <2>4, <2>5, <1>5, <1>8 DEF Exact
<1>11. CASE ~(scenario # "concurrent" /\ sent < Total) /\ target = "group" /\ scenario # "offline"
  <2>1. /\ target' = "thread" /\ sent' = 0 /\ outcome' = outcome
        /\ pc' = IF scenario = "growing" THEN "send" ELSE "look"
    BY <1>2, <1>11 DEF Proceed
  <2>2. AllCounted'
    <3> SUFFICES Balance("thread")' = IF scenario = "concurrent" THEN Cardinality(Made("thread")') ELSE 0
      BY <2>1, <1>2 DEF AllCounted, Counted, Tried
    <3>1. "thread" \in Places /\ "thread" # target
      BY <1>11 DEF Places
    <3>2. Balance("thread") = IF scenario = "concurrent" THEN Cardinality(Made("thread")) ELSE 0
      BY <3>1, <1>1, <1>3, <1>11 DEF AllCounted, Counted, Tried
    <3> QED
      BY <3>1, <3>2, <1>5, <1>7
  <2>3. scenario = "growing" => sent' < Total'
    <3>1. HistoryComments \in Nat /\ HistoryComments > 0
      BY SizesAssumption
    <3> QED
      BY <3>1, <2>1, <1>2 DEF Total
  <2>4. Progress'
    <3>1. scenario = "concurrent" => \A w \in Writers : writers'[w].at = "done"
      BY <1>1, <1>2 DEF Progress
    <3> QED
      BY <3>1, <2>1, <2>3, <1>2, <1>3, <1>9, <1>11 DEF Progress
  <2>5. Vouched'
    BY <2>1, <1>3, <1>4, <1>6, <1>11 DEF Vouched, Places
  <2> QED
    BY <2>2, <2>4, <2>5, <1>5, <1>8 DEF Exact
<1>12. CASE ~(scenario # "concurrent" /\ sent < Total) /\ ~(target = "group" /\ scenario # "offline")
  <2>1. pc' = "done" /\ outcome' = "passed" /\ sent' = sent /\ target' = target
    BY <1>2, <1>12 DEF Proceed, Stop
  <2>2. AllCounted'
    BY <2>1, <1>1, <1>2, <1>3, <1>5, <1>7 DEF AllCounted, Counted, Tried
  <2>3. Progress'
    BY <2>1, <1>2, <1>3, <1>9 DEF Progress
  <2>4. Good(target)'
    BY <2>1, <1>2, <1>3, <1>4, <1>5 DEF Good
  <2>5. Vouched'
    <3>1. target' = "thread" => Good("group")'
      BY <2>1, <1>1, <1>6 DEF Vouched, Places
    <3>2. scenario # "offline" => target' = "thread"
      BY <2>1, <1>3, <1>12 DEF Places
    <3> QED
      BY <2>4, <3>1, <3>2, <1>2 DEF Vouched
  <2> QED
    BY <2>2, <2>3, <2>5, <1>5, <1>8 DEF Exact
<1> QED
  BY <1>10, <1>11, <1>12

(* Steps that call nobody and go on with the same.                         *)
LEMMA Held ==
  ASSUME Inv, Exact, UNCHANGED <<scenario, numbered, target, sent, writers, errs>>, UNCHANGED server,
         outcome' = outcome \/ outcome' = "failed", Blamed',
         \/ pc' = "done"
         \/ pc = "prepare" /\ pc' = "send"
         \/ scenario = "concurrent" /\ pc' = "look" /\ \A w \in Writers : writers[w].at = "done"
         \/ pc = "resume" /\ pc' = "look"
  PROVE  Exact'
<1>1. /\ AllStored /\ AllCounted /\ Progress /\ Vouched
  BY DEF Exact
<1>2. /\ AllStored'
      /\ \A p \in Places : /\ Balance(p)' = Balance(p)
                           /\ Missing(p)' = Missing(p)
                           /\ Shuffled(p)' = Shuffled(p)
  BY <1>1, Unserved
<1>3. \A p \in Places : Made(p)' = Made(p)
  BY NoneMade
<1>4. AllCounted'
  BY <1>1, <1>2, <1>3 DEF AllCounted, Counted, Tried
<1>5. Progress'
  <2>1. Total' = Total
    BY DEF Total
  <2>2. \A v \in Writers :
          writers'[v].calls <= 2 * Rounds /\ (writers'[v].at = "done" => writers'[v].calls = 2 * Rounds)
    BY <1>1 DEF Progress
  <2>3. scenario = "concurrent" =>
          /\ pc' = "look" => \A w \in Writers : writers'[w].at = "done"
          /\ target' = "thread" => pc' \in {"look", "done"}
    BY <1>1 DEF Progress
  <2>4. scenario # "concurrent" /\ pc' \in {"prepare", "send"} => sent' < Total'
    BY <1>1, <2>1 DEF Progress
  <2>5. /\ scenario = "offline" => target' = "group" /\ (pc' \in {"resume", "look"} => sent' = Load)
        /\ pc' = "resume" => scenario = "offline"
    BY <1>1 DEF Progress
  <2> QED
    BY <2>2, <2>3, <2>4, <2>5, <1>1 DEF Progress
<1>6. Vouched'
  <2>1. \A p \in Places : Good(p)' <=> Good(p)
    BY <1>2 DEF Good
  <2>2. target' = "thread" => Good("group")'
    BY <1>1, <2>1 DEF Vouched, Places
  <2>3. ASSUME outcome' = "passed"
        PROVE  Good(target)' /\ (scenario # "offline" => target = "thread")
    <3>1. Good(target) /\ (scenario # "offline" => target = "thread")
      BY <2>3, <1>1 DEF Vouched
    <3>2. target \in Places
      BY DEF Inv, Typed
    <3> QED
      BY <3>1, <3>2, <1>2 DEF Good
  <2> QED
    BY <2>2, <2>3 DEF Vouched
<1> QED
  BY <1>2, <1>4, <1>5, <1>6 DEF Exact

LEMMA ExactGoing ==
  ASSUME Inv, Exact, Prepare \/ Wait \/ Resume \/ LookFails \/ Miscounted \/ OutOfOrder
  PROVE  Exact'
<1>1. Blamed /\ Typed /\ Failing /\ target \in Places
  BY DEF Exact, Inv, Typed
<1>2. reliability \in [messageLoss : Int, orderingViolations : Nat, failedResumes : Nat]
  BY <1>1 DEF Blamed
<1>3. CASE Prepare \/ Wait \/ LookFails
  <2>1. /\ UNCHANGED <<scenario, numbered, target, sent, writers, errs, reliability>>
        /\ UNCHANGED server
        /\ pc # "done"
        /\ \/ pc' = "done" /\ outcome' = "failed"
           \/ pc = "prepare" /\ pc' = "send" /\ outcome' = outcome
           \/ /\ scenario = "concurrent" /\ pc' = "look" /\ outcome' = outcome
              /\ \A w \in Writers : writers[w].at = "done"
    BY <1>3 DEF Prepare, Wait, LookFails, Stop, Concurrent
  <2>2. Blamed'
    BY <2>1, <1>1 DEF Blamed
  <2> QED
    BY <2>1, <2>2, Held
<1>4. CASE Resume
  <2>1. /\ UNCHANGED <<scenario, numbered, target, sent, writers, errs>>
        /\ UNCHANGED server
        /\ pc = "resume"
        /\ (pc' = "done" /\ outcome' = "failed") \/ (pc' = "look" /\ outcome' = outcome)
        /\ reliability' = reliability \/ reliability' = [reliability EXCEPT !.failedResumes = @ + 1]
    BY <1>4 DEF Resume, Stop
  <2>2. /\ reliability' \in [messageLoss : Int, orderingViolations : Nat, failedResumes : Nat]
        /\ reliability'.messageLoss = reliability.messageLoss
        /\ reliability'.orderingViolations = reliability.orderingViolations
    BY <2>1, <1>2
  <2>3. Blamed'
    BY <2>1, <2>2, <1>1 DEF Blamed
  <2> QED
    BY <2>1, <2>3, Held
<1>5. CASE Miscounted
  <2>1. /\ UNCHANGED <<scenario, numbered, target, sent, writers, errs>>
        /\ UNCHANGED server
        /\ pc = "look" /\ pc' = "done" /\ outcome' = "failed"
        /\ reliability' = [reliability EXCEPT !.messageLoss = @ + Loss(target)]
    BY <1>5 DEF Miscounted, Stop
  <2>2. reliability.messageLoss = 0 /\ reliability.orderingViolations = 0
    BY <2>1, <1>1 DEF Blamed
  <2>3. Loss(target) \in Int /\ (Loss(target) # 0 => Loss(target) = Missing("group"))
    <3>1. /\ Missing(target) \in Int /\ Expected - Len(store[target]) = Missing(target)
      BY <2>1, Looking
    <3>2. CASE target = "group" /\ scenario # "growing"
      <4>1. Loss(target) = Expected - Len(store["group"])
        BY <3>2 DEF Loss
      <4> QED
        BY <3>1, <3>2, <4>1
    <3>3. CASE ~ (target = "group" /\ scenario # "growing")
      <4>1. Loss(target) = 0
        BY <3>3 DEF Loss
      <4> QED
        BY <4>1
    <3> QED
      BY <3>2, <3>3
  <2> DEFINE L == Loss(target)
  <2> HIDE DEF L
  <2>4. L \in Int /\ reliability' = [reliability EXCEPT !.messageLoss = @ + L]
    BY <2>1, <2>3 DEF L
  <2>5. /\ reliability' \in [messageLoss : Int, orderingViolations : Nat, failedResumes : Nat]
        /\ reliability'.messageLoss = L
        /\ reliability'.orderingViolations = 0
    BY <2>2, <2>4, <1>2
  <2>6. Missing("group")' = Missing("group")
    BY <2>1 DEF Missing, server
  <2>7. Blamed'
    BY <2>1, <2>3, <2>5, <2>6, <1>1 DEF Blamed, L
  <2> QED
    BY <2>1, <2>7, Held
<1>6. CASE OutOfOrder
  <2>1. /\ UNCHANGED <<scenario, numbered, target, sent, writers, errs>>
        /\ UNCHANGED server
        /\ pc = "look" /\ pc' = "done" /\ outcome' = "failed" /\ ~ InOrder(target)
        /\ reliability' = [reliability EXCEPT !.orderingViolations = @ + 1]
    BY <1>6 DEF OutOfOrder, Stop
  <2>2. reliability.messageLoss = 0
    BY <2>1, <1>1 DEF Blamed
  <2>3. /\ reliability' \in [messageLoss : Int, orderingViolations : Nat, failedResumes : Nat]
        /\ reliability'.messageLoss = 0
    BY <2>1, <2>2, <1>2
  <2>4. Shuffled(target) # 0
    BY <2>1, <1>1, Looking DEF Places
  <2>5. \E p \in Places : Shuffled(p)' # 0
    BY <2>1, <2>4, <1>1 DEF Shuffled, server
  <2>6. Blamed'
    BY <2>1, <2>3, <2>5, <1>1 DEF Blamed
  <2> QED
    BY <2>1, <2>6, Held
<1> QED
  BY <1>3, <1>4, <1>5, <1>6

LEMMA ExactStuttering ==
  ASSUME Exact, UNCHANGED vars
  PROVE  Exact'
<1>1. /\ UNCHANGED <<scenario, numbered, pc, target, sent, writers, errs, store, faults, reliability>>
      /\ outcome' = outcome /\ UNCHANGED server
  BY DEF vars, harness, server
<1>2. AllStored /\ AllCounted /\ Progress /\ Vouched /\ Blamed
  BY DEF Exact
<1>3. /\ AllStored'
      /\ \A p \in Places : Balance(p)' = Balance(p) /\ Missing(p)' = Missing(p) /\ Shuffled(p)' = Shuffled(p)
  BY <1>1, <1>2, Unserved
<1>4. \A p \in Places : Made(p)' = Made(p)
  BY <1>1, NoneMade
<1>5. AllCounted'
  BY <1>1, <1>2, <1>3, <1>4 DEF AllCounted, Counted, Tried
<1>6. Progress'
  <2>1. Total' = Total
    BY <1>1 DEF Total
  <2> QED
    BY <2>1, <1>1, <1>2 DEF Progress
<1>7. Vouched' /\ Blamed'
  BY <1>1, <1>2 DEF Vouched, Blamed, Good, Missing, Shuffled
<1> QED
  BY <1>3, <1>5, <1>6, <1>7 DEF Exact

LEMMA ExactPreserved ==
  ASSUME Inv, Exact, [Next]_vars
  PROVE  Exact'
<1>1. ASSUME NEW w \in Writers,
             WriterCalls(w) \/ Lock(w) \/ ReadErrs(w) \/ WriteErrs(w) \/ WriterDone(w)
      PROVE  Exact'
  BY <1>1, ExactCalling, ExactNoting
<1>2. CASE Send
  BY <1>2, ExactSending
<1>3. CASE AllThere
  BY <1>3, ExactThere
<1>4. CASE Prepare \/ Wait \/ Resume \/ LookFails \/ Miscounted \/ OutOfOrder
  BY <1>4, ExactGoing
<1>5. CASE UNCHANGED vars
  BY <1>5, ExactStuttering
<1> QED
  BY <1>1, <1>2, <1>3, <1>4, <1>5 DEF Next, Look

-----------------------------------------------------------------------------
(* The invariants of the runs.                                             *)

LEMMA Reached == Spec => [](Inv /\ Exact)
<1>1. Inv /\ Exact /\ [Next]_vars => (Inv /\ Exact)'
  BY Preserved, ExactPreserved
<1> QED
  BY <1>1, Initially, ExactInitially, PTL DEF Spec

(* Every error a writer meets ends up in errs, and a scenario passes only  *)
(* if no call failed (benchmark.go:656-678).                               *)
THEOREM NoErrorIsLost == Spec => []ErrorsComplete
<1>1. Inv => ErrorsComplete
  BY NotingIsFinite DEF Inv, Typed, Accounted, Failing, ErrorsComplete
<1> QED
  BY <1>1, Reached, PTL

(* What a scenario that passes has counted is all that was sent, and in    *)
(* order where it compares; and the loss it reports is what the server     *)
(* lost (benchmark.go:683-697, 808-813, 875-903).                          *)
THEOREM CountsAreExact == Spec => []CountIsExact
<1>1. Inv /\ Exact => CountIsExact
  <2> SUFFICES ASSUME Inv, Exact PROVE CountIsExact
    OBVIOUS
  <2>1. Progress /\ Vouched /\ Blamed /\ target \in Places
    BY DEF Inv, Typed, Exact
  <2>2. reliability.messageLoss # 0 => reliability.messageLoss = Missing("group")
    BY <2>1 DEF Blamed
  <2>3. ASSUME outcome = "passed",
               NEW place \in IF scenario = "offline" THEN {"group"} ELSE Places
        PROVE  Good(place)
    <3>1. Good(target) /\ (scenario # "offline" => target = "thread")
      BY <2>1, <2>3 DEF Vouched
    <3>2. target = "thread" => Good("group")
      BY <2>1 DEF Vouched
    <3>3. scenario = "offline" => target = "group"
      BY <2>1 DEF Progress
    <3> QED
      BY <3>1, <3>2, <3>3, <2>3 DEF Places
  <2> QED
    BY <2>2, <2>3 DEF CountIsExact, Good, Shuffled
<1> QED
  BY <1>1, Reached, PTL

(* Nothing is held against a server that it has not done: who loses        *)
(* nothing is not found to have lost something, and who moves nothing and  *)
(* gives no two items the same number or time has not reordered anything   *)
(* (benchmark.go:679-699, 800-813, 870-905, 1120-1126).                    *)
THEOREM DeliveryBlameHasCause == Spec => []BlameHasCause
<1>1. Inv /\ Exact => BlameHasCause
  <2> SUFFICES ASSUME Inv, Exact PROVE BlameHasCause
    OBVIOUS
  <2>1. \A p \in Places :
          /\ faults[p]["dropped"] \in Nat /\ faults[p]["doubled"] \in Nat
          /\ faults[p]["swapped"] \in Nat /\ faults[p]["tied"] \in Nat
    BY DEF Inv, Typed, Counts, FaultKinds
  <2>2. Typed /\ Accounted /\ Blamed /\ target \in Places /\ "group" \in Places
    BY DEF Inv, Typed, Exact, Places
  <2>3. \A p \in Places :
          /\ Missing(p) > 0 => faults[p]["dropped"] > 0
          /\ Missing(p) < 0 => faults[p]["doubled"] > 0
          /\ Shuffled(p) # 0 => faults[p]["swapped"] > 0 \/ faults[p]["tied"] > 0
    BY <2>1 DEF Missing, Shuffled
  <2>4. errs > 0 => Failures > 0
    <3>1. CASE scenario = "concurrent"
      <4>1. errs \in Nat /\ Cardinality(Noting) \in Nat /\ errs + Cardinality(Noting) = Failures
        BY <2>2, <3>1, NotingIsFinite DEF Accounted, Typed
      <4> QED
        BY <4>1
    <3>2. CASE scenario # "concurrent"
      BY <2>2, <3>2 DEF Blamed
    <3> QED
      BY <3>1, <3>2
  <2>5. /\ reliability.messageLoss > 0 => faults["group"]["dropped"] > 0
        /\ reliability.messageLoss < 0 => faults["group"]["doubled"] > 0
    <3>1. reliability.messageLoss # 0 => reliability.messageLoss = Missing("group")
      BY <2>2 DEF Blamed
    <3>2. reliability.messageLoss \in Int
      BY <2>2 DEF Blamed
    <3> QED
      BY <2>2, <2>3, <3>1, <3>2
  <2>6. reliability.orderingViolations > 0 =>
          \E place \in Places : faults[place]["swapped"] > 0 \/ faults[place]["tied"] > 0
    <3>1. reliability.orderingViolations \in Nat
      BY <2>2 DEF Blamed
    <3> QED
      BY <2>2, <2>3, <3>1 DEF Blamed
  <2>7. ASSUME pc = "look"
        PROVE  /\ Len(store[target]) < Expected => faults[target]["dropped"] > 0
               /\ Len(store[target]) > Expected => faults[target]["doubled"] > 0
               /\ ~InOrder(target) => faults[target]["swapped"] > 0 \/ faults[target]["tied"] > 0
    <3>1. /\ Len(store[target]) \in Nat /\ Expected \in Int /\ Missing(target) \in Int
          /\ Expected - Len(store[target]) = Missing(target)
          /\ target = "thread" \/ (numbered /\ scenario # "growing") =>
               (InOrder(target) <=> Shuffled(target) = 0)
          /\ target = "group" /\ (~ numbered \/ scenario = "growing") => InOrder(target)
      BY <2>7, Looking
    <3>2. /\ Len(store[target]) < Expected => Missing(target) > 0
          /\ Len(store[target]) > Expected => Missing(target) < 0
      BY <3>1
    <3>3. ~InOrder(target) => Shuffled(target) # 0
      BY <2>2, <3>1 DEF Places
    <3> QED
      BY <2>2, <2>3, <3>2, <3>3
  <2> QED
    BY <2>4, <2>5, <2>6, <2>7 DEF BlameHasCause
<1> QED
  BY <1>1, Reached, PTL

=============================================================================
