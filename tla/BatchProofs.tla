---------------------------- MODULE BatchProofs ----------------------------
(***************************************************************************)
(* What BatchOrder promises, for every set of requests: its output is      *)
(* ordered by dependency and holds no operation twice, it accepts exactly  *)
(* the valid requests, and it keeps an order that is one already.          *)
(*                                                                         *)
(* The argument for the order is the usual one for a depth-first search:   *)
(* marks 1 and 2 are the frames of the stack and the operations put out,   *)
(* and all dependencies a frame has passed are visited, but for the one    *)
(* whose own frame is just above it.  For the verdict, the frames are a    *)
(* path of dependencies, which a call on a frame's own id closes to a      *)
(* cycle; and the operation of a cycle that was put out first would come   *)
(* before one it depends on.                                               *)
(***************************************************************************)
EXTENDS Batch, WellFoundedInduction, TLAPS

(* The types the search relies on. *)
Typed ==
  /\ \A id \in DOMAIN byID : byID[id] \in Operation /\ byID[id].id = id
  /\ state \in [Ids -> 0 .. 2]
  /\ stack \in Seq(Frames) /\ \A l \in DOMAIN stack : stack[l].op.id \in Ids
  /\ out \in Seq(Operation) /\ \A k \in DOMAIN out : out[k].id \in Ids
  /\ ops \in Seq(Operation) /\ DOMAIN byID \subseteq Ids

(* The marks of the frames and of the output. *)
Marks ==
  /\ \A l \in DOMAIN stack : state[stack[l].op.id] = 1
  /\ \A l, m \in DOMAIN stack : stack[l].op.id = stack[m].op.id => l = m
  /\ \A k \in DOMAIN out : state[out[k].id] = 2
  /\ \A id \in Ids : state[id] = 2 => \E k \in DOMAIN out : out[k].id = id

(* What a frame has passed. *)
Passed(l, m) ==
  \/ state[stack[l].op.dependsOn[m]] = 2
  \/ l + 1 \in DOMAIN stack /\ m + 1 = stack[l].at /\ stack[l].op.dependsOn[m] = stack[l + 1].op.id
Progress ==
  \A l \in DOMAIN stack : \A m \in DOMAIN stack[l].op.dependsOn : m < stack[l].at => Passed(l, m)

(* What the first loop has made sure of. *)
Collected ==
  /\ next \in Nat \ {0}
  /\ pc = "collect" => \A i \in DOMAIN ops : i < next => Complete(ops[i])
  /\ pc = "references" \/ pc = "visit" => \A i \in DOMAIN ops : Complete(ops[i])

SearchInv == Typed /\ Marks /\ Progress /\ DependenciesFirst /\ NothingTwice

searchVars == <<byID, state, stack, out, ops>>

-----------------------------------------------------------------------------
LEMMA InitOK == Init => SearchInv
<1> SUFFICES ASSUME Init PROVE SearchInv
  OBVIOUS
<1>1. stack = << >> /\ out = << >> /\ state = [id \in Ids |-> 0] /\ DOMAIN byID = {}
  BY DEF Init
<1>2. ops \in Seq(Operation)
  BY BatchesAssumption DEF Init
<1>3. stack \in Seq(Frames) /\ out \in Seq(Operation) /\ DOMAIN stack = {} /\ DOMAIN out = {}
  BY <1>1
<1>4. Typed
  BY <1>1, <1>2, <1>3 DEF Typed
<1>5. Marks /\ Progress
  BY <1>1, <1>3 DEF Marks, Progress
<1>6. DependenciesFirst /\ NothingTwice
  BY <1>3 DEF DependenciesFirst, NothingTwice
<1>7. QED
  BY <1>4, <1>5, <1>6 DEF SearchInv

LEMMA StutterOK == SearchInv /\ UNCHANGED searchVars => SearchInv'
BY DEF SearchInv, searchVars, Typed, Marks, Progress, Passed, DependenciesFirst, NothingTwice

(* The first loop. *)
LEMMA CollectOK == SearchInv /\ Collect => SearchInv'
<1> SUFFICES ASSUME SearchInv, Collect PROVE SearchInv'
  OBVIOUS
<1> DEFINE op == ops[next]
<1>1. CASE UNCHANGED searchVars
  BY <1>1, StutterOK
<1>2. CASE /\ Complete(op) /\ op.id \notin DOMAIN byID
           /\ byID' = [id \in DOMAIN byID \cup {op.id} |-> IF id = op.id THEN op ELSE byID[id]]
           /\ UNCHANGED <<ops, pc, state, stack, out, error>>
  <2>1. op \in Operation
    BY DEF SearchInv, Typed, Collect
  <2>2. op.id \in Ids
    BY <1>2, <2>1 DEF Complete, Operation
  <2>3. Typed'
    <3>1. \A id \in DOMAIN byID' : byID'[id] \in Operation /\ byID'[id].id = id
      BY <1>2, <2>1 DEF SearchInv, Typed
    <3>2. DOMAIN byID' \subseteq Ids
      BY <1>2, <2>2 DEF SearchInv, Typed
    <3>3. QED
      BY <1>2, <3>1, <3>2 DEF SearchInv, Typed
  <2>4. QED
    BY <1>2, <2>3 DEF SearchInv, Marks, Progress, Passed, DependenciesFirst, NothingTwice
<1>3. QED
  BY <1>1, <1>2 DEF Collect, Complain, searchVars

(* A call of visit, made with the frames `below' in place of the stack: the *)
(* same ones, the last of which may just have passed the call's id.        *)
Below(id, below) ==
  /\ below \in Seq(Frames) /\ Len(below) = Len(stack)
  /\ \A l \in DOMAIN stack : below[l].op = stack[l].op
  /\ \A l \in DOMAIN stack : l # Len(stack) => below[l].at = stack[l].at
  /\ stack # << >> =>
       \A m \in DOMAIN Top.op.dependsOn :
          m < below[Len(stack)].at => m < Top.at \/ (m + 1 = below[Len(stack)].at
                                                      /\ Top.op.dependsOn[m] = id)

(* A dependency passed by a frame that is not the last is visited, or is   *)
(* the next frame's; one passed by the last frame is visited, or is id.    *)
LEMMA PassedBelow ==
  ASSUME NEW id \in Ids, NEW below, SearchInv, Below(id, below),
         NEW l \in DOMAIN below, NEW m \in DOMAIN below[l].op.dependsOn, m < below[l].at
  PROVE  /\ l \in DOMAIN stack
         /\ \/ state[below[l].op.dependsOn[m]] = 2
            \/ /\ l < Len(stack) /\ m + 1 = below[l].at
               /\ below[l].op.dependsOn[m] = below[l + 1].op.id
            \/ l = Len(stack) /\ m + 1 = below[l].at /\ below[l].op.dependsOn[m] = id
<1>1. stack \in Seq(Frames)
  BY DEF SearchInv, Typed
<1>2. l \in DOMAIN stack /\ below[l].op = stack[l].op /\ m \in DOMAIN stack[l].op.dependsOn
  BY <1>1 DEF Below
<1>3. CASE l # Len(stack)
  <2>1. l < Len(stack) /\ l + 1 \in DOMAIN stack /\ below[l + 1].op = stack[l + 1].op
    BY <1>1, <1>2, <1>3 DEF Below
  <2>2. m < stack[l].at /\ below[l].at = stack[l].at
    BY <1>2, <1>3 DEF Below
  <2>3. Passed(l, m)
    BY <1>2, <2>2 DEF SearchInv, Progress
  <2>4. QED
    BY <1>2, <2>1, <2>2, <2>3 DEF Passed
<1>4. CASE l = Len(stack)
  <2>1. Top = stack[l] /\ stack # << >>
    BY <1>1, <1>2, <1>4 DEF Top
  <2>2. CASE m < stack[l].at
    <3>1. Passed(l, m)
      BY <1>2, <2>2 DEF SearchInv, Progress
    <3>2. l + 1 \notin DOMAIN stack
      BY <1>1, <1>4
    <3>3. QED
      BY <1>2, <3>1, <3>2 DEF Passed
  <2>3. CASE m + 1 = below[l].at /\ stack[l].op.dependsOn[m] = id
    BY <1>2, <1>4, <2>3
  <2>4. QED
    BY <1>2, <1>4, <2>1, <2>2, <2>3 DEF Below
<1>5. QED
  BY <1>3, <1>4

(* The id was visited: the call returns at once. *)
LEMMA ReturnOK ==
  ASSUME NEW id \in Ids, NEW below, SearchInv, Below(id, below), state[id] = 2,
         stack' = below, UNCHANGED <<ops, byID, state, out>>
  PROVE  SearchInv'
<1>1. stack \in Seq(Frames) /\ below \in Seq(Frames) /\ DOMAIN below = DOMAIN stack
  BY DEF SearchInv, Typed, Below
<1>2. Typed'
  BY <1>1 DEF SearchInv, Typed, Below
<1>3. Marks'
  BY <1>1 DEF SearchInv, Marks, Below
<1>4. Progress'
  <2> SUFFICES ASSUME NEW l \in DOMAIN below, NEW m \in DOMAIN below[l].op.dependsOn,
                      m < below[l].at
               PROVE  \/ state[below[l].op.dependsOn[m]] = 2
                      \/ l + 1 \in DOMAIN below /\ m + 1 = below[l].at
                           /\ below[l].op.dependsOn[m] = below[l + 1].op.id
    BY DEF Progress, Passed
  <2>1. l < Len(stack) => l + 1 \in DOMAIN below
    BY <1>1
  <2>2. QED
    BY <2>1, PassedBelow
<1>5. QED
  BY <1>2, <1>3, <1>4 DEF SearchInv, DependenciesFirst, NothingTwice

(* The id is new: it is marked, and the call's frame is pushed. *)
LEMMA PushOK ==
  ASSUME NEW id \in Ids, NEW below, SearchInv, Below(id, below),
         state[id] = 0, id \in DOMAIN byID,
         state' = [state EXCEPT ![id] = 1],
         stack' = Append(below, Frame(byID[id])),
         UNCHANGED <<ops, byID, out>>
  PROVE  SearchInv'
<1> DEFINE frame == Frame(byID[id])
           n == Len(stack) + 1
<1>1. /\ stack \in Seq(Frames) /\ below \in Seq(Frames) /\ DOMAIN below = DOMAIN stack
      /\ state \in [Ids -> 0 .. 2]
  BY DEF SearchInv, Typed, Below
<1>2. frame \in Frames /\ frame.op = byID[id] /\ frame.op.id = id /\ frame.at = 1
  BY DEF SearchInv, Typed, Frame, Frames
<1>3. /\ DOMAIN stack' = 1 .. n /\ stack'[n] = frame /\ stack' \in Seq(Frames)
      /\ DOMAIN stack = 1 .. Len(stack) /\ n \notin DOMAIN stack /\ n \in DOMAIN stack'
      /\ n = Len(stack) + 1
      /\ \A l \in DOMAIN stack : stack'[l] = below[l]
  BY <1>1, <1>2 DEF Below
<1>4. \A l \in DOMAIN stack' : l = n \/ l \in DOMAIN stack
  BY <1>1, <1>3
<1> HIDE DEF n, frame
<1>5. \A i \in Ids : state'[i] = IF i = id THEN 1 ELSE state[i]
  BY <1>1
<1>6. \A l \in DOMAIN stack : /\ stack'[l].op.id = stack[l].op.id /\ stack[l].op.id \in Ids
                              /\ stack[l].op.id # id
  BY <1>3 DEF SearchInv, Typed, Marks, Below
<1>7. \A k \in DOMAIN out : out[k].id # id /\ out[k].id \in Ids
  BY DEF SearchInv, Typed, Marks
<1>8. Typed'
  <2>1. state' \in [Ids -> 0 .. 2]
    BY <1>1
  <2>2. \A l \in DOMAIN stack' : stack'[l].op.id \in Ids
    BY <1>2, <1>3, <1>4, <1>6
  <2>3. QED
    BY <1>3, <2>1, <2>2 DEF SearchInv, Typed
<1>9. Marks'
  <2>1. \A l \in DOMAIN stack' : state'[stack'[l].op.id] = 1
    <3> SUFFICES ASSUME NEW l \in DOMAIN stack' PROVE state'[stack'[l].op.id] = 1
      OBVIOUS
    <3>1. CASE l = n
      BY <1>2, <1>3, <1>5, <3>1
    <3>2. CASE l \in DOMAIN stack
      BY <1>5, <1>6, <3>2 DEF SearchInv, Marks
    <3>3. QED
      BY <1>4, <3>1, <3>2
  <2>2. \A l, m \in DOMAIN stack' : stack'[l].op.id = stack'[m].op.id => l = m
    <3> SUFFICES ASSUME NEW l \in DOMAIN stack', NEW m \in DOMAIN stack',
                        stack'[l].op.id = stack'[m].op.id
                 PROVE  l = m
      OBVIOUS
    <3>1. CASE l \in DOMAIN stack /\ m \in DOMAIN stack
      BY <1>6, <3>1 DEF SearchInv, Marks
    <3>2. CASE l = n \/ m = n
      BY <1>2, <1>3, <1>4, <1>6, <3>2
    <3>3. QED
      BY <1>4, <3>1, <3>2
  <2>3. \A k \in DOMAIN out' : state'[out'[k].id] = 2
    BY <1>5, <1>7 DEF SearchInv, Marks
  <2>4. \A i \in Ids : state'[i] = 2 => \E k \in DOMAIN out' : out'[k].id = i
    BY <1>5 DEF SearchInv, Marks
  <2>5. QED
    BY <2>1, <2>2, <2>3, <2>4 DEF Marks
<1>10. Progress'
  <2> SUFFICES ASSUME NEW l \in DOMAIN stack', NEW m \in DOMAIN stack'[l].op.dependsOn,
                      m < stack'[l].at
               PROVE  Passed(l, m)'
    BY DEF Progress
  <2>1. stack'[l].op.dependsOn \in Seq(Ids)
    <3>1. stack'[l] \in Frames
      BY <1>3
    <3>2. QED
      BY <3>1 DEF Frames, Operation
  <2>2. l \in DOMAIN stack /\ stack'[l] = below[l]
    <3>1. m \in Nat \ {0}
      BY <2>1
    <3>2. CASE l = n
      BY <1>2, <1>3, <3>1, <3>2
    <3>3. QED
      BY <1>3, <1>4, <3>2
  <2>3. CASE state[below[l].op.dependsOn[m]] = 2
    <3>1. below[l].op.dependsOn[m] \in Ids /\ below[l].op.dependsOn[m] # id
      BY <2>1, <2>2, <2>3
    <3>2. QED
      BY <1>5, <2>2, <2>3, <3>1 DEF Passed
  <2>4. CASE l < Len(stack) /\ m + 1 = below[l].at /\ below[l].op.dependsOn[m] = below[l + 1].op.id
    <3>1. l + 1 \in DOMAIN stack /\ l + 1 \in DOMAIN stack'
      BY <1>1, <1>3, <2>2, <2>4 DEF n
    <3>2. QED
      BY <1>3, <2>2, <2>4, <3>1 DEF Passed
  <2>5. CASE l = Len(stack) /\ m + 1 = below[l].at /\ below[l].op.dependsOn[m] = id
    <3>1. l + 1 = n
      BY <1>3, <2>5
    <3>2. QED
      BY <1>2, <1>3, <2>2, <2>5, <3>1 DEF Passed
  <2>6. l \in DOMAIN below /\ m \in DOMAIN below[l].op.dependsOn /\ m < below[l].at
    BY <1>1, <2>2
  <2>7. \/ state[below[l].op.dependsOn[m]] = 2
        \/ l < Len(stack) /\ m + 1 = below[l].at /\ below[l].op.dependsOn[m] = below[l + 1].op.id
        \/ l = Len(stack) /\ m + 1 = below[l].at /\ below[l].op.dependsOn[m] = id
    BY <2>6, PassedBelow
  <2>8. QED
    BY <2>3, <2>4, <2>5, <2>7
<1>11. QED
  BY <1>8, <1>9, <1>10 DEF SearchInv, DependenciesFirst, NothingTwice

LEMMA VisitOK ==
  ASSUME NEW id \in Ids, NEW below, SearchInv, Below(id, below), Visit(id, below)
  PROVE  SearchInv'
<1>1. CASE UNCHANGED searchVars
  BY <1>1, StutterOK
<1>2. CASE state[id] = 2 /\ stack' = below /\ UNCHANGED <<ops, pc, byID, state, out, error>>
  BY <1>2, ReturnOK
<1>3. CASE /\ state[id] = 0 /\ id \in DOMAIN byID
           /\ state' = [state EXCEPT ![id] = 1]
           /\ stack' = Append(below, Frame(byID[id]))
           /\ UNCHANGED <<ops, pc, byID, out, error>>
  BY <1>3, PushOK
<1>4. QED
  BY <1>1, <1>2, <1>3 DEF Visit, Complain, searchVars

(* The two places that call visit do it as the lemmas above ask.           *)
LEMMA NextCall ==
  ASSUME SearchInv, Collected, VisitNext
  PROVE  /\ ops[next].id \in Ids /\ Below(ops[next].id, stack)
         /\ Visit(ops[next].id, stack)
<1>1. Visit(ops[next].id, stack) /\ next \in DOMAIN ops
  BY DEF VisitNext
<1>2. ops[next].id \in Ids
  <2>1. ops[next] \in Operation
    BY <1>1 DEF SearchInv, Typed
  <2>2. Complete(ops[next])
    BY <1>1 DEF Collected, VisitNext
  <2>3. QED
    BY <2>1, <2>2 DEF Complete, Operation
<1>3. Below(ops[next].id, stack)
  BY DEF SearchInv, Typed, VisitNext, Below
<1>4. QED
  BY <1>1, <1>2, <1>3

LEMMA DependencyCall ==
  ASSUME SearchInv, VisitDependency
  PROVE  /\ Top.op.dependsOn[Top.at] \in Ids \cap DependsOn(Top.op)
         /\ Below(Top.op.dependsOn[Top.at], Advanced)
         /\ Visit(Top.op.dependsOn[Top.at], Advanced)
<1> DEFINE id == Top.op.dependsOn[Top.at]
<1>1. stack \in Seq(Frames) /\ stack # << >> /\ Top = stack[Len(stack)] /\ Len(stack) \in DOMAIN stack
  BY DEF SearchInv, Typed, VisitDependency, Top
<1>2. Top \in Frames /\ Top.at \in DOMAIN Top.op.dependsOn
  BY <1>1 DEF VisitDependency
<1>3. Top.op \in Operation /\ Top.at \in Nat \ {0} /\ Top.op.dependsOn \in Seq(Ids)
  BY <1>2 DEF Frames, Operation
<1>4. id \in Ids \cap DependsOn(Top.op)
  BY <1>2, <1>3 DEF DependsOn
<1>5. [op |-> Top.op, at |-> Top.at + 1] \in Frames
  BY <1>3 DEF Frames
<1>6. /\ Advanced \in Seq(Frames) /\ Len(Advanced) = Len(stack)
      /\ Advanced[Len(stack)] = [op |-> Top.op, at |-> Top.at + 1]
      /\ \A l \in DOMAIN stack : l # Len(stack) => Advanced[l] = stack[l]
  BY <1>1, <1>5 DEF Advanced
<1>7. Below(id, Advanced)
  <2>1. \A l \in DOMAIN stack : Advanced[l].op = stack[l].op
    BY <1>1, <1>6
  <2>2. \A l \in DOMAIN stack : l # Len(stack) => Advanced[l].at = stack[l].at
    BY <1>6
  <2>3. \A m \in DOMAIN Top.op.dependsOn :
           m < Advanced[Len(stack)].at => m < Top.at \/ (m + 1 = Advanced[Len(stack)].at
                                                          /\ Top.op.dependsOn[m] = id)
    <3> SUFFICES ASSUME NEW m \in DOMAIN Top.op.dependsOn, m < Top.at + 1
                 PROVE  m < Top.at \/ (m + 1 = Top.at + 1 /\ Top.op.dependsOn[m] = id)
      BY <1>6
    <3>1. m \in Nat
      BY <1>3
    <3>2. m < Top.at \/ m = Top.at
      BY <1>3, <3>1
    <3>3. QED
      BY <3>2
  <2>4. QED
    BY <1>6, <2>1, <2>2, <2>3 DEF Below
<1>8. Visit(id, Advanced)
  BY DEF VisitDependency
<1>9. QED
  BY <1>4, <1>7, <1>8

LEMMA VisitNextOK == SearchInv /\ Collected /\ VisitNext => SearchInv'
BY NextCall, VisitOK

LEMMA VisitDependencyOK == SearchInv /\ VisitDependency => SearchInv'
BY DependencyCall, VisitOK

LEMMA LeaveOK == SearchInv /\ Leave => SearchInv'
<1> SUFFICES ASSUME SearchInv, Leave PROVE SearchInv'
  OBVIOUS
<1> DEFINE n == Len(stack)
           q == Len(out) + 1
<1>1. /\ stack \in Seq(Frames) /\ n \in DOMAIN stack /\ n \in Nat \ {0} /\ DOMAIN stack = 1 .. n
      /\ Top = stack[n] /\ state \in [Ids -> 0 .. 2] /\ out \in Seq(Operation)
  BY DEF SearchInv, Typed, Leave, Top
<1>2. Top.op \in Operation /\ Top.at \in Nat \ {0} /\ Top.op.dependsOn \in Seq(Ids)
  <2>1. Top \in Frames
    BY <1>1
  <2>2. QED
    BY <2>1 DEF Frames, Operation
<1>3. Top.op.id \in Ids /\ state[Top.op.id] = 1
  BY <1>1 DEF SearchInv, Typed, Marks
<1>4. /\ state' = [state EXCEPT ![Top.op.id] = 2] /\ out' = Append(out, Top.op)
      /\ stack' = SubSeq(stack, 1, n - 1) /\ UNCHANGED <<ops, byID>>
      /\ Top.at \notin DOMAIN Top.op.dependsOn
  BY DEF Leave
<1>5. \A i \in Ids : state'[i] = IF i = Top.op.id THEN 2 ELSE state[i]
  BY <1>1, <1>4
<1>6. /\ stack' \in Seq(Frames) /\ DOMAIN stack' = 1 .. (n - 1)
      /\ \A l \in DOMAIN stack' : l \in DOMAIN stack /\ l # n /\ stack'[l] = stack[l]
      /\ \A l \in DOMAIN stack : l # n => l \in DOMAIN stack'
  BY <1>1, <1>4
<1>7. /\ out' \in Seq(Operation) /\ q \in DOMAIN out' /\ out'[q] = Top.op
      /\ \A k \in DOMAIN out : k \in DOMAIN out' /\ out'[k] = out[k] /\ k < q
      /\ \A k \in DOMAIN out' : k = q \/ k \in DOMAIN out
  BY <1>1, <1>2, <1>4
<1> HIDE DEF n, q
<1>8. \A l \in DOMAIN stack : stack[l].op.id \in Ids /\ (l # n => stack[l].op.id # Top.op.id)
  BY <1>1 DEF SearchInv, Typed, Marks
<1>9. \A k \in DOMAIN out : out[k].id \in Ids /\ out[k].id # Top.op.id
  BY <1>3 DEF SearchInv, Typed, Marks
<1>10. \A m \in DOMAIN Top.op.dependsOn :
          \E j \in DOMAIN out : out[j].id = Top.op.dependsOn[m]
  <2> SUFFICES ASSUME NEW m \in DOMAIN Top.op.dependsOn
               PROVE  \E j \in DOMAIN out : out[j].id = Top.op.dependsOn[m]
    OBVIOUS
  <2>1. m < Top.at /\ Top.op.dependsOn[m] \in Ids
    BY <1>2, <1>4
  <2>2. Passed(n, m)
    BY <1>1, <2>1 DEF SearchInv, Progress
  <2>3. n + 1 \notin DOMAIN stack
    BY <1>1
  <2>4. state[Top.op.dependsOn[m]] = 2
    BY <1>1, <2>2, <2>3 DEF Passed
  <2>5. QED
    BY <2>1, <2>4 DEF SearchInv, Marks
<1>11. Typed'
  <2>1. state' \in [Ids -> 0 .. 2]
    <3>1. 2 \in 0 .. 2
      OBVIOUS
    <3>2. QED
      BY <1>1, <1>4, <3>1
  <2>2. \A l \in DOMAIN stack' : stack'[l].op.id \in Ids
    BY <1>6, <1>8
  <2>3. \A k \in DOMAIN out' : out'[k].id \in Ids
    BY <1>3, <1>7, <1>9
  <2>4. QED
    BY <1>4, <1>6, <1>7, <2>1, <2>2, <2>3 DEF SearchInv, Typed
<1>12. Marks'
  <2>1. \A l \in DOMAIN stack' : state'[stack'[l].op.id] = 1
    BY <1>5, <1>6, <1>8 DEF SearchInv, Marks
  <2>2. \A l, m \in DOMAIN stack' : stack'[l].op.id = stack'[m].op.id => l = m
    BY <1>6 DEF SearchInv, Marks
  <2>3. \A k \in DOMAIN out' : state'[out'[k].id] = 2
    <3> SUFFICES ASSUME NEW k \in DOMAIN out' PROVE state'[out'[k].id] = 2
      OBVIOUS
    <3>1. CASE k = q
      BY <1>3, <1>5, <1>7, <3>1
    <3>2. CASE k \in DOMAIN out
      BY <1>5, <1>7, <1>9, <3>2 DEF SearchInv, Marks
    <3>3. QED
      BY <1>7, <3>1, <3>2
  <2>4. \A i \in Ids : state'[i] = 2 => \E k \in DOMAIN out' : out'[k].id = i
    BY <1>5, <1>7 DEF SearchInv, Marks
  <2>5. QED
    BY <2>1, <2>2, <2>3, <2>4 DEF Marks
<1>13. Progress'
  <2> SUFFICES ASSUME NEW l \in DOMAIN stack', NEW m \in DOMAIN stack[l].op.dependsOn,
                      m < stack[l].at
               PROVE  Passed(l, m)'
    BY <1>6 DEF Progress
  <2>1. l \in DOMAIN stack /\ stack'[l] = stack[l] /\ l # n
    BY <1>6
  <2>2. stack[l].op.dependsOn[m] \in Ids
    <3>1. stack[l] \in Frames
      BY <1>1, <2>1
    <3>2. stack[l].op.dependsOn \in Seq(Ids)
      BY <3>1 DEF Frames, Operation
    <3>3. QED
      BY <3>2
  <2>3. Passed(l, m)
    BY <2>1 DEF SearchInv, Progress
  <2>4. CASE state[stack[l].op.dependsOn[m]] = 2
    BY <1>5, <2>1, <2>2, <2>4 DEF Passed
  <2>5. CASE /\ l + 1 \in DOMAIN stack /\ m + 1 = stack[l].at
             /\ stack[l].op.dependsOn[m] = stack[l + 1].op.id
    <3>1. CASE l + 1 = n
      BY <1>1, <1>5, <2>1, <2>2, <2>5, <3>1 DEF Passed
    <3>2. CASE l + 1 # n
      BY <1>6, <2>1, <2>5, <3>2 DEF Passed
    <3>3. QED
      BY <3>1, <3>2
  <2>6. QED
    BY <2>3, <2>4, <2>5 DEF Passed
<1>14. DependenciesFirst'
  <2> SUFFICES ASSUME NEW k \in DOMAIN out', NEW d \in DependsOn(out'[k])
               PROVE  \E j \in DOMAIN out' : j < k /\ out'[j].id = d
    BY DEF DependenciesFirst
  <2>1. CASE k = q
    <3>1. PICK m \in DOMAIN Top.op.dependsOn : d = Top.op.dependsOn[m]
      BY <1>7, <2>1 DEF DependsOn
    <3>2. PICK j \in DOMAIN out : out[j].id = d
      BY <1>10, <3>1
    <3>3. QED
      BY <1>7, <2>1, <3>2
  <2>2. CASE k \in DOMAIN out
    <3>1. PICK j \in DOMAIN out : j < k /\ out[j].id = d
      BY <1>7, <2>2 DEF SearchInv, DependenciesFirst
    <3>2. QED
      BY <1>7, <3>1
  <2>3. QED
    BY <1>7, <2>1, <2>2
<1>15. NothingTwice'
  <2> SUFFICES ASSUME NEW j \in DOMAIN out', NEW k \in DOMAIN out', out'[j].id = out'[k].id
               PROVE  j = k
    BY DEF NothingTwice
  <2>1. CASE j \in DOMAIN out /\ k \in DOMAIN out
    BY <1>7, <2>1 DEF SearchInv, NothingTwice
  <2>2. CASE j = q \/ k = q
    BY <1>7, <1>9, <2>2
  <2>3. QED
    BY <1>7, <2>1, <2>2
<1>16. QED
  BY <1>11, <1>12, <1>13, <1>14, <1>15 DEF SearchInv

-----------------------------------------------------------------------------
LEMMA CollectedOK == SearchInv /\ Collected /\ [Next]_vars => Collected'
<1> SUFFICES ASSUME SearchInv, Collected, [Next]_vars PROVE Collected'
  OBVIOUS
<1>1. ops \in Seq(Operation) /\ next \in Nat \ {0} /\ ops' = ops
  BY DEF SearchInv, Typed, Collected, Next, Collect, NextLoop, References, VisitNext,
         VisitDependency, Leave, Visit, Complain, vars
<1>2. CASE Collect
  <2>1. CASE pc' = "failed" /\ next' = next
    BY <1>1, <2>1 DEF Collected
  <2>2. CASE pc' = pc /\ next' = next + 1 /\ Complete(ops[next])
    <3>1. pc = "collect"
      BY <1>2 DEF Collect
    <3>2. \A i \in DOMAIN ops : i < next + 1 => i < next \/ i = next
      BY <1>1
    <3>3. QED
      BY <1>1, <2>2, <3>1, <3>2 DEF Collected, Complete
  <2>3. QED
    BY <1>2, <2>1, <2>2 DEF Collect, Complain
<1>3. CASE NextLoop
  <2>1. next' = 1 /\ \A i \in DOMAIN ops : i < next
    BY <1>1, <1>3 DEF NextLoop
  <2>2. QED
    BY <1>1, <1>3, <2>1 DEF NextLoop, Collected, Complete
<1>4. CASE References
  <2>1. pc = "references" /\ (pc' = "failed" \/ pc' = pc)
    BY <1>4 DEF References, Complain
  <2>2. next' = next + 1 \/ next' = next
    BY <1>4 DEF References, Complain
  <2>3. QED
    BY <1>1, <2>1, <2>2 DEF Collected, Complete
<1>5. CASE VisitNext
  <2>1. pc = "visit" /\ (pc' = "failed" \/ pc' = pc)
    BY <1>5 DEF VisitNext, Visit, Complain
  <2>2. next' = next + 1 \/ next' = next
    BY <1>5 DEF VisitNext
  <2>3. QED
    BY <1>1, <2>1, <2>2 DEF Collected, Complete
<1>6. CASE VisitDependency
  <2>1. pc = "visit" /\ (pc' = "failed" \/ pc' = pc) /\ next' = next
    BY <1>6 DEF VisitDependency, Visit, Complain
  <2>2. QED
    BY <1>1, <2>1 DEF Collected, Complete
<1>7. CASE Leave
  BY <1>1, <1>7 DEF Leave, Collected, Complete
<1>8. CASE UNCHANGED vars
  BY <1>1, <1>8 DEF vars, Collected, Complete
<1>9. QED
  BY <1>2, <1>3, <1>4, <1>5, <1>6, <1>7, <1>8 DEF Next

IInv == SearchInv /\ Collected

LEMMA StartOK == Init => IInv
<1> SUFFICES ASSUME Init PROVE Collected
  BY InitOK DEF IInv
<1>1. ops \in Seq(Operation) /\ pc = "collect" /\ next = 1
  BY BatchesAssumption DEF Init
<1>2. \A i \in DOMAIN ops : ~(i < next)
  BY <1>1
<1>3. QED
  BY <1>1, <1>2 DEF Collected

LEMMA NextOK == SearchInv /\ Collected /\ [Next]_vars => SearchInv'
<1> SUFFICES ASSUME SearchInv, Collected, [Next]_vars PROVE SearchInv'
  OBVIOUS
<1>1. CASE Collect
  BY <1>1, CollectOK
<1>2. CASE NextLoop
  BY <1>2, StutterOK DEF NextLoop, searchVars
<1>3. CASE References
  BY <1>3, StutterOK DEF References, Complain, searchVars
<1>4. CASE VisitNext
  BY <1>4, VisitNextOK
<1>5. CASE VisitDependency
  BY <1>5, VisitDependencyOK
<1>6. CASE Leave
  BY <1>6, LeaveOK
<1>7. CASE UNCHANGED vars
  BY <1>7, StutterOK DEF vars, searchVars
<1>8. QED
  BY <1>1, <1>2, <1>3, <1>4, <1>5, <1>6, <1>7 DEF Next

LEMMA AlwaysIInv == Spec => []IInv
<1>1. IInv /\ [Next]_vars => IInv'
  BY NextOK, CollectedOK DEF IInv
<1>2. QED
  BY <1>1, StartOK, PTL DEF Spec

-----------------------------------------------------------------------------
(* The verdict.  Seen are the operations the first loop has collected,     *)
(* Sound those whose references the second loop has found in order.        *)
Seen == IF pc = "collect" THEN {i \in DOMAIN ops : i < next} ELSE DOMAIN ops
Sound == IF pc = "collect" THEN {}
         ELSE IF pc = "references" THEN {i \in DOMAIN ops : i < next}
         ELSE DOMAIN ops

(* byID holds the operations seen, each under an id of its own.            *)
Gathered ==
  /\ \A id \in DOMAIN byID : \E i \in Seen : ops[i].id = id
  /\ \A i \in Seen : ops[i].id \in DOMAIN byID /\ byID[ops[i].id] = ops[i] /\ Complete(ops[i])
  /\ \A i, k \in Seen : ops[i].id = ops[k].id => i = k
  /\ \A i \in Sound : ops[i].refs \subseteq DependsOn(ops[i])

(* The frames are calls for collected operations, each made for a          *)
(* dependency of the one below it, and every id marked 1 has its frame:    *)
(* with Marks, the frames are the path the search has taken.               *)
Calls ==
  /\ pc # "visit" => stack = << >>
  /\ pc \in {"collect", "references"} => out = << >>
  /\ \A l \in DOMAIN stack : stack[l].op.id \in DOMAIN byID /\ stack[l].op = byID[stack[l].op.id]
  /\ \A k \in DOMAIN out : out[k].id \in DOMAIN byID /\ out[k] = byID[out[k].id]
  /\ \A id \in Ids : state[id] = 1 => \E l \in DOMAIN stack : stack[l].op.id = id
  /\ \A l \in DOMAIN stack : l + 1 \in DOMAIN stack => stack[l + 1].op.id \in DependsOn(stack[l].op)

(* The third loop leaves no operation behind unvisited.                    *)
Visited ==
  /\ next <= Len(ops) + 1
  /\ pc = "visit" => \A i \in DOMAIN ops : i < next => state[ops[i].id] # 0
  /\ pc = "done" => \A i \in DOMAIN ops : state[ops[i].id] = 2

(* A request in order is put out operation by operation: a frame finds its *)
(* dependencies visited.                                                   *)
InOrder ==
  Sorted =>
    /\ pc = "visit" /\ stack = << >> => Len(out) = next - 1
    /\ pc = "visit" /\ stack # << >> =>
          next > 1 /\ Len(stack) = 1 /\ stack[1].op = ops[next - 1] /\ Len(out) = next - 2
    /\ pc = "done" => Len(out) = Len(ops)
    /\ \A k \in DOMAIN out : k \in DOMAIN ops /\ out[k] = ops[k]

Settled == pc # "failed" => Gathered /\ Calls /\ Visited /\ InOrder /\ error = ""

(* What is said of a request that was refused.                             *)
UnknownDependency ==
  \E i \in DOMAIN ops : ~(DependsOn(ops[i]) \subseteq {ops[k].id : k \in DOMAIN ops})
Judged ==
  pc = "failed" =>
    /\ ~Valid
    /\ error = "cycle" => ~Acyclic
    /\ error = "unknown dependency" => UnknownDependency

(* Only a request that was not refused goes on, and the argument stays.    *)
LEMMA GoesOn ==
  ASSUME IInv, Settled, [Next]_vars, pc' # "failed"
  PROVE  /\ pc # "failed" /\ Gathered /\ Calls /\ Visited /\ InOrder /\ error = ""
         /\ ops \in Seq(Operation) /\ next \in Nat \ {0} /\ ops' = ops
<1>1. ops' = ops
  BY DEF Next, Collect, NextLoop, References, VisitNext, VisitDependency, Leave, Visit, Complain, vars
<1>2. pc # "failed"
  BY DEF Next, Collect, NextLoop, References, VisitNext, VisitDependency, Leave, vars
<1>3. QED
  BY <1>1, <1>2 DEF Settled, IInv, SearchInv, Typed, Collected

LEMMA GatheredOK ==
  ASSUME IInv, Settled, [Next]_vars, pc' # "failed"
  PROVE  Gathered'
<1>1. /\ Gathered /\ Calls /\ ops \in Seq(Operation) /\ next \in Nat \ {0} /\ ops' = ops
      /\ pc # "failed"
  BY GoesOn
<1>2. CASE Collect
  <2> DEFINE op == ops[next]
  <2>1. /\ pc = "collect" /\ pc' = pc /\ next' = next + 1 /\ next \in DOMAIN ops
        /\ Complete(op) /\ op.id \notin DOMAIN byID
        /\ byID' = [id \in DOMAIN byID \cup {op.id} |-> IF id = op.id THEN op ELSE byID[id]]
    BY <1>2 DEF Collect, Complain
  <2>2. Seen' = Seen \cup {next} /\ next \notin Seen /\ Sound' = {} /\ Seen \subseteq DOMAIN ops
    BY <1>1, <2>1 DEF Seen, Sound
  <2>3. \A i \in Seen : ops[i].id # op.id
    BY <1>1, <2>1 DEF Gathered
  <2> HIDE DEF op
  <2>4. \A id \in DOMAIN byID' : \E i \in Seen' : ops[i].id = id
    BY <1>1, <2>1, <2>2 DEF Gathered, op
  <2>5. \A i \in Seen' : ops[i].id \in DOMAIN byID' /\ byID'[ops[i].id] = ops[i] /\ Complete(ops[i])
    <3> SUFFICES ASSUME NEW i \in Seen'
                 PROVE  ops[i].id \in DOMAIN byID' /\ byID'[ops[i].id] = ops[i] /\ Complete(ops[i])
      OBVIOUS
    <3>1. CASE i = next
      BY <2>1, <3>1 DEF op
    <3>2. CASE i \in Seen
      BY <1>1, <2>1, <2>3, <3>2 DEF Gathered
    <3>3. QED
      BY <2>2, <3>1, <3>2
  <2>6. \A i, k \in Seen' : ops[i].id = ops[k].id => i = k
    BY <1>1, <2>2, <2>3 DEF Gathered, op
  <2>7. QED
    BY <1>1, <2>2, <2>4, <2>5, <2>6 DEF Gathered, Complete
<1>3. CASE NextLoop
  <2>1. Seen' = Seen /\ Seen = DOMAIN ops
    <3>1. next > Len(ops) /\ pc' \in {"references", "visit", "done"}
      BY <1>3 DEF NextLoop
    <3>2. \A i \in DOMAIN ops : i < next
      BY <1>1, <3>1
    <3>3. QED
      BY <1>1, <3>1, <3>2 DEF Seen
  <2>2. Sound' \subseteq Sound
    BY <1>1, <1>3 DEF NextLoop, Sound
  <2>3. QED
    BY <1>1, <1>3, <2>1, <2>2 DEF NextLoop, Gathered, Complete
<1>4. CASE References
  <2>1. /\ pc = "references" /\ pc' = pc /\ next' = next + 1 /\ next \in DOMAIN ops /\ byID' = byID
        /\ ops[next].refs \subseteq DOMAIN byID \cap DependsOn(ops[next])
    BY <1>4 DEF References, Complain
  <2>2. Seen' = Seen /\ Sound' = Sound \cup {next}
    BY <1>1, <2>1 DEF Seen, Sound
  <2>3. QED
    BY <1>1, <2>1, <2>2 DEF Gathered, Complete
<1>5. CASE VisitNext \/ VisitDependency \/ Leave \/ UNCHANGED vars
  <2>1. byID' = byID /\ pc' = pc
    BY <1>5 DEF VisitNext, VisitDependency, Leave, Visit, Complain, vars
  <2>2. Seen' = Seen /\ Sound' = Sound
    BY <1>1, <1>5, <2>1 DEF VisitNext, VisitDependency, Leave, Seen, Sound, vars
  <2>3. QED
    BY <1>1, <2>1, <2>2 DEF Gathered, Complete
<1>6. QED
  BY <1>2, <1>3, <1>4, <1>5 DEF Next

(* A call of visit that does not fail continues the path.                  *)
LEMMA CallStep ==
  ASSUME IInv, Calls, pc = "visit", NEW id \in Ids, NEW below, Below(id, below), Visit(id, below),
         pc' # "failed", stack # << >> => id \in DependsOn(Top.op)
  PROVE  Calls'
<1> DEFINE n == Len(stack) + 1
<1>1. /\ stack \in Seq(Frames) /\ below \in Seq(Frames) /\ DOMAIN below = DOMAIN stack
      /\ DOMAIN stack = 1 .. Len(stack) /\ Len(stack) \in Nat
      /\ state \in [Ids -> 0 .. 2] /\ Len(below) = Len(stack)
      /\ \A l \in DOMAIN stack : below[l].op = stack[l].op
      /\ pc' = "visit" /\ byID' = byID /\ out' = out
      /\ \A b \in DOMAIN byID : byID[b].id = b
  <2>1. /\ stack \in Seq(Frames) /\ state \in [Ids -> 0 .. 2]
        /\ \A b \in DOMAIN byID : byID[b].id = b
    BY DEF IInv, SearchInv, Typed
  <2>2. /\ below \in Seq(Frames) /\ Len(below) = Len(stack)
        /\ \A l \in DOMAIN stack : below[l].op = stack[l].op
    BY DEF Below
  <2>3. pc' = "visit" /\ byID' = byID /\ out' = out
    BY DEF Visit, Complain
  <2>4. QED
    BY <2>1, <2>2, <2>3
<1>2. CASE stack' = below /\ state' = state
  BY <1>1, <1>2 DEF Calls
<1>3. CASE /\ id \in DOMAIN byID /\ state' = [state EXCEPT ![id] = 1]
           /\ stack' = Append(below, Frame(byID[id]))
  <2>1. /\ DOMAIN stack' = 1 .. n /\ stack'[n].op = byID[id] /\ n \in DOMAIN stack' /\ n \in Nat
        /\ \A l \in DOMAIN stack : l \in DOMAIN stack' /\ stack'[l].op = stack[l].op
        /\ \A l \in DOMAIN stack' : l = n \/ l \in DOMAIN stack
    BY <1>1, <1>3 DEF Frame
  <2>2. \A l \in DOMAIN stack' : stack'[l].op.id \in DOMAIN byID /\ stack'[l].op = byID[stack'[l].op.id]
    BY <1>1, <1>3, <2>1 DEF Calls
  <2>3. \A i \in Ids : state'[i] = 1 => \E l \in DOMAIN stack' : stack'[l].op.id = i
    <3> SUFFICES ASSUME NEW i \in Ids, state'[i] = 1 PROVE \E l \in DOMAIN stack' : stack'[l].op.id = i
      OBVIOUS
    <3>1. CASE i = id
      BY <1>1, <1>3, <2>1, <3>1
    <3>2. CASE i # id
      BY <1>1, <1>3, <2>1, <3>2 DEF Calls
    <3>3. QED
      BY <3>1, <3>2
  <2>4. \A l \in DOMAIN stack' : l + 1 \in DOMAIN stack' => stack'[l + 1].op.id \in DependsOn(stack'[l].op)
    <3> SUFFICES ASSUME NEW l \in DOMAIN stack', l + 1 \in DOMAIN stack'
                 PROVE  stack'[l + 1].op.id \in DependsOn(stack'[l].op)
      OBVIOUS
    <3>1. CASE l + 1 = n
      <4>1. l = Len(stack) /\ l \in DOMAIN stack /\ stack # << >> /\ Top = stack[l]
        BY <1>1, <2>1, <3>1 DEF Top
      <4>2. QED
        BY <1>1, <1>3, <2>1, <3>1, <4>1
    <3>2. CASE l + 1 # n
      <4>1. l \in DOMAIN stack /\ l + 1 \in DOMAIN stack
        BY <1>1, <2>1, <3>2
      <4>2. QED
        BY <2>1, <4>1 DEF Calls
    <3>3. QED
      BY <3>1, <3>2
  <2>5. QED
    BY <1>1, <2>2, <2>3, <2>4 DEF Calls
<1>4. QED
  BY <1>2, <1>3 DEF Visit, Complain

LEMMA CallsOK ==
  ASSUME IInv, Settled, [Next]_vars, pc' # "failed"
  PROVE  Calls'
<1>1. /\ Gathered /\ Calls /\ ops \in Seq(Operation) /\ next \in Nat \ {0} /\ ops' = ops
      /\ pc # "failed"
  BY GoesOn
<1>2. CASE Collect
  <2>1. /\ pc = "collect" /\ pc' = pc /\ UNCHANGED <<stack, out, state>>
    BY <1>2 DEF Collect, Complain
  <2>2. stack = << >> /\ out = << >>
    BY <1>1, <2>1 DEF Calls
  <2>3. QED
    BY <1>1, <2>1, <2>2 DEF Calls
<1>3. CASE NextLoop
  <2>1. stack = << >> /\ UNCHANGED <<byID, state, stack, out>>
        /\ (pc' \in {"collect", "references"} => pc \in {"collect", "references"})
    BY <1>3 DEF NextLoop
  <2>2. QED
    BY <1>1, <2>1 DEF Calls
<1>4. CASE References \/ UNCHANGED vars
  <2>1. UNCHANGED <<byID, state, stack, out>> /\ pc' = pc
    BY <1>4 DEF References, Complain, vars
  <2>2. QED
    BY <1>1, <2>1 DEF Calls
<1>5. CASE VisitNext
  <2>1. /\ ops[next].id \in Ids /\ Below(ops[next].id, stack) /\ Visit(ops[next].id, stack)
        /\ pc = "visit" /\ stack = << >>
    BY <1>5, NextCall DEF IInv, VisitNext
  <2>2. QED
    BY <1>1, <2>1, CallStep
<1>6. CASE VisitDependency
  <2>1. /\ Top.op.dependsOn[Top.at] \in Ids \cap DependsOn(Top.op)
        /\ Below(Top.op.dependsOn[Top.at], Advanced)
        /\ Visit(Top.op.dependsOn[Top.at], Advanced) /\ pc = "visit"
    BY <1>6, DependencyCall DEF IInv, VisitDependency
  <2>2. QED
    BY <1>1, <2>1, CallStep
<1>7. CASE Leave
  <2> DEFINE n == Len(stack)
  <2>1. /\ stack \in Seq(Frames) /\ n \in DOMAIN stack /\ DOMAIN stack = 1 .. n /\ n \in Nat \ {0}
        /\ Top = stack[n] /\ out \in Seq(Operation) /\ state \in [Ids -> 0 .. 2]
        /\ pc = "visit" /\ pc' = pc /\ byID' = byID /\ state' = [state EXCEPT ![Top.op.id] = 2]
        /\ out' = Append(out, Top.op) /\ stack' = SubSeq(stack, 1, n - 1)
    BY <1>7 DEF IInv, SearchInv, Typed, Leave, Top
  <2>2. /\ DOMAIN stack' = 1 .. (n - 1)
        /\ \A l \in DOMAIN stack' : l \in DOMAIN stack /\ stack'[l] = stack[l]
        /\ \A l \in DOMAIN stack : l # n => l \in DOMAIN stack'
    BY <2>1
  <2>3. Top.op \in Operation
    <3>1. Top \in Frames
      BY <2>1
    <3>2. QED
      BY <3>1 DEF Frames
  <2>4. \A k \in DOMAIN out' : out'[k] = Top.op \/ (k \in DOMAIN out /\ out'[k] = out[k])
    BY <2>1, <2>3
  <2> HIDE DEF n
  <2>5. \A k \in DOMAIN out' : out'[k].id \in DOMAIN byID /\ out'[k] = byID[out'[k].id]
    BY <1>1, <2>1, <2>4 DEF Calls
  <2>6. \A i \in Ids : state'[i] = 1 => \E l \in DOMAIN stack' : stack'[l].op.id = i
    <3> SUFFICES ASSUME NEW i \in Ids, state'[i] = 1 PROVE \E l \in DOMAIN stack' : stack'[l].op.id = i
      OBVIOUS
    <3>1. i # Top.op.id /\ state[i] = 1
      BY <2>1
    <3>2. PICK l \in DOMAIN stack : stack[l].op.id = i
      BY <1>1, <3>1 DEF Calls
    <3>3. QED
      BY <2>1, <2>2, <3>1, <3>2
  <2>7. \A l \in DOMAIN stack' : l + 1 \in DOMAIN stack' => stack'[l + 1].op.id \in DependsOn(stack'[l].op)
    BY <1>1, <2>2 DEF Calls
  <2>8. QED
    BY <1>1, <2>1, <2>2, <2>5, <2>6, <2>7 DEF Calls
<1>8. QED
  BY <1>2, <1>3, <1>4, <1>5, <1>6, <1>7 DEF Next

(* Marks never go back, and between two calls of the loop nothing is       *)
(* being visited.                                                          *)
LEMMA MarksStay ==
  ASSUME IInv, [Next]_vars, NEW i \in Ids, state[i] # 0
  PROVE  state'[i] # 0
<1>1. state \in [Ids -> 0 .. 2]
  BY DEF IInv, SearchInv, Typed
<1>2. \/ state' = state
      \/ \E id : state[id] = 0 /\ state' = [state EXCEPT ![id] = 1]
      \/ \E id : state' = [state EXCEPT ![id] = 2]
  BY DEF Next, Collect, NextLoop, References, VisitNext, VisitDependency, Leave, Visit, Complain, vars
<1>3. QED
  BY <1>1, <1>2

LEMMA VisitedOK ==
  ASSUME IInv, Settled, [Next]_vars, pc' # "failed"
  PROVE  Visited'
<1>1. /\ Gathered /\ Calls /\ Visited /\ ops \in Seq(Operation) /\ next \in Nat \ {0} /\ ops' = ops
      /\ pc # "failed" /\ state \in [Ids -> 0 .. 2]
  BY GoesOn DEF IInv, SearchInv, Typed
<1>2. pc = "visit" \/ pc = "done" => \A i \in DOMAIN ops : ops[i].id \in Ids
  BY <1>1 DEF Gathered, Seen, IInv, SearchInv, Typed
<1>3. CASE NextLoop
  <2>1. next' = 1 /\ next > Len(ops) /\ stack = << >> /\ state' = state
        /\ (pc' = "done" => pc = "visit")
    BY <1>3 DEF NextLoop
  <2>2. pc' = "done" => \A i \in DOMAIN ops : state[ops[i].id] = 2
    <3> SUFFICES ASSUME pc' = "done", NEW i \in DOMAIN ops PROVE state[ops[i].id] = 2
      OBVIOUS
    <3>1. ops[i].id \in Ids /\ i < next /\ pc = "visit"
      BY <1>1, <1>2, <2>1
    <3>2. state[ops[i].id] # 0 /\ state[ops[i].id] # 1
      BY <1>1, <2>1, <3>1 DEF Visited, Calls
    <3>3. QED
      BY <1>1, <3>1, <3>2
  <2>3. QED
    BY <1>1, <2>1, <2>2 DEF Visited
<1>4. CASE Collect \/ References
  <2>1. next \in DOMAIN ops /\ next' = next + 1 /\ pc' = pc /\ pc \in {"collect", "references"}
    BY <1>4 DEF Collect, References, Complain
  <2>2. QED
    BY <1>1, <2>1 DEF Visited
<1>5. CASE VisitNext
  <2>1. /\ next \in DOMAIN ops /\ next' \in {next, next + 1} /\ pc' = "visit" /\ pc = "visit"
        /\ ops[next].id \in Ids
    BY <1>2, <1>5 DEF VisitNext, Visit, Complain
  <2>2. state'[ops[next].id] # 0
    <3>1. \/ state[ops[next].id] = 2 /\ state' = state
          \/ state' = [state EXCEPT ![ops[next].id] = 1]
      BY <1>1, <1>5 DEF VisitNext, Visit, Complain
    <3>2. QED
      BY <1>1, <2>1, <3>1
  <2>3. \A i \in DOMAIN ops : i < next' => i < next \/ i = next
    BY <1>1, <2>1
  <2>4. \A i \in DOMAIN ops : i < next => state'[ops[i].id] # 0
    BY <1>1, <1>2, <2>1, MarksStay DEF Visited
  <2>5. QED
    BY <1>1, <2>1, <2>2, <2>3, <2>4 DEF Visited
<1>6. CASE VisitDependency \/ Leave
  <2>1. pc = "visit" /\ pc' = "visit" /\ next' = next
    BY <1>6 DEF VisitDependency, Leave, Visit, Complain
  <2>2. \A i \in DOMAIN ops : i < next => state'[ops[i].id] # 0
    BY <1>1, <1>2, <2>1, MarksStay DEF Visited
  <2>3. QED
    BY <1>1, <2>1, <2>2 DEF Visited
<1>7. CASE UNCHANGED vars
  BY <1>1, <1>7 DEF vars, Visited
<1>8. QED
  BY <1>3, <1>4, <1>5, <1>6, <1>7 DEF Next

(* In a request in order, what an operation depends on has been put out    *)
(* when the loop comes to it.                                              *)
LEMMA InOrderOK ==
  ASSUME IInv, Settled, [Next]_vars, pc' # "failed"
  PROVE  InOrder'
<1>1. /\ Gathered /\ Calls /\ InOrder /\ ops \in Seq(Operation) /\ next \in Nat \ {0} /\ ops' = ops
      /\ pc # "failed" /\ out \in Seq(Operation) /\ stack \in Seq(Frames) /\ Visited
      /\ DOMAIN out = 1 .. Len(out) /\ Len(out) \in Nat /\ DOMAIN ops = 1 .. Len(ops) /\ Len(ops) \in Nat
      /\ Marks
  <2>1. /\ Gathered /\ Calls /\ InOrder /\ Visited /\ ops \in Seq(Operation) /\ next \in Nat \ {0}
        /\ ops' = ops /\ pc # "failed"
    BY GoesOn
  <2>2. out \in Seq(Operation) /\ stack \in Seq(Frames) /\ Marks
    BY DEF IInv, SearchInv, Typed
  <2>3. QED
    BY <2>1, <2>2
<1>10. next \in Nat \ {0} /\ DOMAIN out = 1 .. Len(out) /\ Len(out) \in Nat
  BY <1>1
<1>2. Sorted' = Sorted
  BY <1>1 DEF Sorted, DependsOn
<1> SUFFICES ASSUME Sorted
             PROVE  /\ pc' = "visit" /\ stack' = << >> => Len(out') = next' - 1
                    /\ pc' = "visit" /\ stack' # << >> =>
                         /\ next' > 1 /\ Len(stack') = 1 /\ stack'[1].op = ops[next' - 1]
                         /\ Len(out') = next' - 2
                    /\ pc' = "done" => Len(out') = Len(ops)
                    /\ \A k \in DOMAIN out' : k \in DOMAIN ops /\ out'[k] = ops[k]
  BY <1>1, <1>2 DEF InOrder
<1>3. /\ pc = "visit" /\ stack = << >> => Len(out) = next - 1
      /\ pc = "visit" /\ stack # << >> =>
            next > 1 /\ Len(stack) = 1 /\ stack[1].op = ops[next - 1] /\ Len(out) = next - 2
      /\ pc = "done" => Len(out) = Len(ops)
      /\ \A k \in DOMAIN out : k \in DOMAIN ops /\ out[k] = ops[k]
  BY <1>1 DEF InOrder
<1>4. CASE Collect \/ References \/ UNCHANGED vars
  <2>1. pc' = pc /\ UNCHANGED <<stack, out>> /\ (pc = "visit" \/ pc = "done" => next' = next)
    BY <1>4 DEF Collect, References, Complain, vars
  <2>2. QED
    BY <1>3, <2>1
<1>5. CASE NextLoop
  <2>1. UNCHANGED <<stack, out>> /\ stack = << >> /\ next' = 1 /\ next > Len(ops)
        /\ (pc' = "visit" => pc = "references") /\ (pc' = "done" => pc = "visit")
    BY <1>5 DEF NextLoop
  <2>2. pc' = "visit" => Len(out) = 0
    BY <1>1, <2>1 DEF Calls
  <2>3. pc' = "done" => Len(out) = Len(ops)
    <3> SUFFICES ASSUME pc' = "done" PROVE Len(out) = Len(ops)
      OBVIOUS
    <3>1. Len(out) = next - 1
      BY <1>3, <2>1
    <3>2. next <= Len(ops) + 1
      BY <1>1 DEF Visited
    <3>3. QED
      BY <1>1, <2>1, <3>1, <3>2
  <2>4. QED
    BY <1>3, <2>1, <2>2, <2>3
<1>6. CASE VisitNext
  <2>1. /\ pc = "visit" /\ pc' = "visit" /\ stack = << >> /\ next \in DOMAIN ops /\ Len(out) = next - 1
        /\ out' = out /\ error' = error /\ error = ""
    BY <1>3, <1>6, GoesOn DEF VisitNext, Visit, Complain
  <2>2. next' = next + 1
    BY <1>6, <2>1 DEF VisitNext
  <2>3. ops[next].id \in Ids /\ byID[ops[next].id] = ops[next]
    BY <1>1, <2>1 DEF Gathered, Seen, IInv, SearchInv, Typed
  <2>4. state[ops[next].id] # 2
    <3> SUFFICES ASSUME state[ops[next].id] = 2 PROVE FALSE
      OBVIOUS
    <3>1. PICK k \in DOMAIN out : out[k].id = ops[next].id
      BY <1>1, <2>3 DEF Marks
    <3>2. k \in DOMAIN ops /\ ops[k].id = ops[next].id
      BY <1>3, <3>1
    <3>3. Len(out) = next - 1
      BY <2>1
    <3>4. k < next
      BY <1>10, <3>3
    <3>5. k = next
      BY <1>1, <2>1, <3>2 DEF Gathered, Seen
    <3>6. QED
      BY <1>10, <3>4, <3>5
  <2>5. stack' = Append(stack, Frame(byID[ops[next].id]))
    BY <1>6, <2>1, <2>4 DEF VisitNext, Visit, Complain
  <2>6. Len(stack') = 1 /\ stack'[1].op = ops[next] /\ stack' # << >>
    <3>1. stack = << >> /\ stack' = Append(stack, Frame(ops[next]))
      BY <2>1, <2>3, <2>5
    <3>2. QED
      BY <3>1 DEF Frame
  <2>7. next' > 1 /\ next' - 1 = next /\ Len(out') = next' - 2
    <3>1. Len(out) = next - 1 /\ out' = out
      BY <2>1
    <3>2. QED
      BY <1>10, <2>2, <3>1
  <2>8. QED
    BY <1>3, <2>1, <2>6, <2>7
<1>7. CASE VisitDependency
  <2>1. /\ pc = "visit" /\ pc' = "visit" /\ stack # << >> /\ next' = next /\ out' = out
        /\ next > 1 /\ Len(stack) = 1 /\ stack[1].op = ops[next - 1] /\ Len(out) = next - 2
        /\ Visit(Top.op.dependsOn[Top.at], Advanced) /\ Top = stack[1]
        /\ Top.op.dependsOn[Top.at] \in Ids \cap DependsOn(Top.op)
    BY <1>3, <1>7, DependencyCall DEF IInv, VisitDependency, Visit, Complain, Top
  <2>2. next - 1 \in DOMAIN ops
    BY <1>1, <2>1 DEF Visited
  <2>3. PICK k \in DOMAIN ops : k < next - 1 /\ ops[k].id = Top.op.dependsOn[Top.at]
    BY <2>1, <2>2 DEF Sorted
  <2>4. k \in DOMAIN out /\ out[k] = ops[k]
    BY <1>1, <1>3, <2>1, <2>3
  <2>5. state[Top.op.dependsOn[Top.at]] = 2
    BY <1>1, <2>3, <2>4 DEF Marks
  <2>6. stack' = Advanced
    BY <2>1, <2>5 DEF Visit, Complain
  <2>7. Len(stack') = 1 /\ stack'[1].op = stack[1].op /\ stack' # << >>
    BY <1>1, <2>1, <2>6 DEF Advanced
  <2>8. QED
    BY <1>3, <2>1, <2>7
<1>8. CASE Leave
  <2>1. /\ pc = "visit" /\ pc' = "visit" /\ stack # << >> /\ next' = next
        /\ next > 1 /\ Len(stack) = 1 /\ stack[1].op = ops[next - 1] /\ Len(out) = next - 2
        /\ out' = Append(out, Top.op) /\ Top = stack[1] /\ stack' = SubSeq(stack, 1, Len(stack) - 1)
    BY <1>3, <1>8 DEF Leave, Top
  <2>2. stack' = << >>
    BY <1>1, <2>1
  <2>3. next - 1 \in DOMAIN ops /\ ops[next - 1] \in Operation
    BY <1>1, <2>1 DEF Visited
  <2>4. Len(out') = next - 1 /\ out'[next - 1] = ops[next - 1]
        /\ \A k \in DOMAIN out' : k = next - 1 \/ (k \in DOMAIN out /\ out'[k] = out[k])
    BY <1>1, <2>1, <2>3
  <2>5. QED
    BY <1>3, <2>1, <2>2, <2>3, <2>4
<1>9. QED
  BY <1>4, <1>5, <1>6, <1>7, <1>8 DEF Next

(* A call on an id that is being visited closes a cycle: the frames from   *)
(* the id's own upward are operations that depend on each other.           *)
LEMMA CycleFound ==
  ASSUME IInv, Gathered, Calls, pc = "visit", NEW id \in Ids, state[id] = 1,
         stack # << >> => id \in DependsOn(Top.op)
  PROVE  ~Acyclic
<1>1. /\ stack \in Seq(Frames) /\ DOMAIN stack = 1 .. Len(stack) /\ Len(stack) \in Nat
      /\ \A b \in DOMAIN byID : byID[b].id = b
  BY DEF IInv, SearchInv, Typed
<1>2. PICK j \in DOMAIN stack : stack[j].op.id = id
  BY DEF Calls
<1> DEFINE S == {i \in DOMAIN ops : \E l \in DOMAIN stack : j <= l /\ ops[i] = stack[l].op}
<1>3. \A l \in DOMAIN stack : \E i \in DOMAIN ops : ops[i] = stack[l].op
  <2> SUFFICES ASSUME NEW l \in DOMAIN stack PROVE \E i \in DOMAIN ops : ops[i] = stack[l].op
    OBVIOUS
  <2>1. stack[l].op.id \in DOMAIN byID /\ stack[l].op = byID[stack[l].op.id]
    BY DEF Calls
  <2>2. PICK i \in DOMAIN ops : ops[i].id = stack[l].op.id
    BY <2>1 DEF Gathered, Seen
  <2>3. byID[ops[i].id] = ops[i]
    BY DEF Gathered, Seen
  <2>4. QED
    BY <2>1, <2>2, <2>3
<1>4. S \subseteq DOMAIN ops
  OBVIOUS
<1>5. S # {}
  BY <1>1, <1>2, <1>3
<1>6. \A i \in S : \E k \in S : ops[k].id \in DependsOn(ops[i])
  <2> SUFFICES ASSUME NEW i \in S PROVE \E k \in S : ops[k].id \in DependsOn(ops[i])
    OBVIOUS
  <2>1. PICK l \in DOMAIN stack : j <= l /\ ops[i] = stack[l].op
    OBVIOUS
  <2>2. CASE l = Len(stack)
    <3>1. Top = stack[l] /\ stack # << >>
      BY <1>1, <2>1, <2>2 DEF Top
    <3>2. PICK k \in DOMAIN ops : ops[k] = stack[j].op
      BY <1>2, <1>3
    <3>3. k \in S
      BY <1>1, <1>2, <3>2
    <3>4. QED
      BY <1>2, <2>1, <3>1, <3>2, <3>3
  <2>3. CASE l # Len(stack)
    <3>1. l + 1 \in DOMAIN stack /\ j <= l + 1
      BY <1>1, <2>1, <2>3
    <3>2. PICK k \in DOMAIN ops : ops[k] = stack[l + 1].op
      BY <1>3, <3>1
    <3>3. k \in S
      BY <3>1, <3>2
    <3>4. ops[k].id \in DependsOn(ops[i])
      BY <2>1, <3>1, <3>2 DEF Calls
    <3>5. QED
      BY <3>3, <3>4
  <2>4. QED
    BY <2>2, <2>3
<1> HIDE DEF S
<1>7. QED
  BY <1>4, <1>5, <1>6 DEF Acyclic

(* A dependency that is not collected is not in the request.               *)
LEMMA UnknownFound ==
  ASSUME Gathered, pc = "visit", NEW id, id \notin DOMAIN byID,
         NEW i \in DOMAIN ops, id \in DependsOn(ops[i])
  PROVE  ~(DependsOn(ops[i]) \subseteq {ops[k].id : k \in DOMAIN ops})
BY DEF Gathered, Seen

LEMMA SameRequest ==
  ASSUME ops' = ops
  PROVE  /\ Acyclic' = Acyclic /\ Valid' = Valid /\ UnknownDependency' = UnknownDependency
<1>1. Acyclic' = Acyclic
  BY DEF Acyclic, DependsOn
<1>2. UnknownDependency' = UnknownDependency
  BY DEF UnknownDependency, DependsOn
<1>3. QED
  BY <1>1, <1>2 DEF Valid, DependsOn, Complete

LEMMA TopFrame ==
  ASSUME stack \in Seq(Frames), stack # << >>
  PROVE  Len(stack) \in DOMAIN stack /\ Top = stack[Len(stack)]
<1>1. Len(stack) \in DOMAIN stack
  OBVIOUS
<1>2. QED
  BY <1>1 DEF Top

LEMMA CallJudged ==
  ASSUME IInv, Gathered, Calls, pc = "visit", error = "", NEW id \in Ids, NEW below,
         Visit(id, below), pc' = "failed", ops' = ops,
         stack # << >> => id \in DependsOn(Top.op),
         stack = << >> => id \in DOMAIN byID
  PROVE  Judged'
<1>1. Acyclic' = Acyclic /\ Valid' = Valid /\ UnknownDependency' = UnknownDependency
  BY SameRequest
<1>2. CASE state[id] = 1 /\ error' = "cycle"
  BY <1>1, <1>2, CycleFound DEF Judged, Valid
<1>3. CASE id \notin DOMAIN byID /\ error' = "unknown dependency"
  <2>1. stack # << >> /\ stack \in Seq(Frames)
    BY <1>3 DEF IInv, SearchInv, Typed
  <2>2. Len(stack) \in DOMAIN stack /\ Top = stack[Len(stack)]
    BY <2>1, TopFrame
  <2>3. Top.op.id \in DOMAIN byID /\ Top.op = byID[Top.op.id]
    BY <2>2 DEF Calls
  <2>4. PICK i \in DOMAIN ops : ops[i].id = Top.op.id
    BY <2>3 DEF Gathered, Seen
  <2>5. ops[i] = Top.op
    BY <2>3, <2>4 DEF Gathered, Seen
  <2>6. ~(DependsOn(ops[i]) \subseteq {ops[k].id : k \in DOMAIN ops})
    BY <1>3, <2>1, <2>5, UnknownFound
  <2>7. ~Valid /\ UnknownDependency
    BY <2>6 DEF Valid, UnknownDependency
  <2>8. QED
    BY <1>1, <1>3, <2>7 DEF Judged
<1>4. QED
  BY <1>2, <1>3 DEF Visit, Complain

LEMMA JudgedOK ==
  ASSUME IInv, Settled, Judged, [Next]_vars
  PROVE  Judged'
<1> SUFFICES ASSUME pc' = "failed" PROVE Judged'
  BY DEF Judged
<1>1. ops' = ops /\ ops \in Seq(Operation) /\ next \in Nat \ {0}
  BY DEF Next, Collect, NextLoop, References, VisitNext, VisitDependency, Leave, Visit, Complain, vars,
         IInv, SearchInv, Typed, Collected
<1>2. Acyclic' = Acyclic /\ Valid' = Valid /\ UnknownDependency' = UnknownDependency
  BY <1>1, SameRequest
<1>3. CASE UNCHANGED vars
  BY <1>2, <1>3 DEF Judged, vars
<1>4. CASE Collect
  <2> DEFINE op == ops[next]
  <2>1. /\ pc = "collect" /\ next \in DOMAIN ops /\ error' \in {"incomplete", "duplicate", "malformed"}
        /\ \/ ~Complete(op)
           \/ op.id \in DOMAIN byID
           \/ Malformed \in op.refs
    BY <1>4 DEF Collect, Complain
  <2>2. CASE ~Complete(op)
    BY <1>2, <2>1, <2>2 DEF Judged, Valid
  <2>3. CASE op.id \in DOMAIN byID
    <3>1. Gathered
      BY <2>1 DEF Settled
    <3>2. PICK i \in Seen : ops[i].id = op.id
      BY <2>3, <3>1 DEF Gathered
    <3>3. i \in DOMAIN ops /\ i # next
      BY <1>1, <2>1, <3>2 DEF Seen
    <3>4. ~Valid
      BY <2>1, <3>2, <3>3 DEF Valid
    <3>5. QED
      BY <1>2, <2>1, <3>4 DEF Judged
  <2>4. CASE Malformed \in op.refs
    <3>1. op \in Operation
      BY <1>1, <2>1
    <3>2. Malformed \notin DependsOn(op)
      BY <3>1, BatchesAssumption DEF DependsOn, Operation
    <3>3. ~Valid
      BY <2>1, <2>4, <3>2 DEF Valid
    <3>4. QED
      BY <1>2, <2>1, <3>3 DEF Judged
  <2>5. QED
    BY <2>1, <2>2, <2>3, <2>4
<1>5. CASE References
  <2>1. /\ pc = "references" /\ next \in DOMAIN ops /\ Gathered
        /\ error' \in {"unknown reference", "undeclared reference"}
    BY <1>5 DEF References, Complain, Settled
  <2>2. PICK ref \in ops[next].refs : ref \notin DOMAIN byID \/ ref \notin DependsOn(ops[next])
    BY <1>5 DEF References, Complain
  <2>3. \A k \in DOMAIN ops : ops[k].id \in DOMAIN byID
    BY <2>1 DEF Gathered, Seen
  <2>4. ~Valid
    <3> SUFFICES ASSUME Valid PROVE FALSE
      OBVIOUS
    <3>1. ops[next].refs \subseteq DependsOn(ops[next])
      BY <2>1 DEF Valid
    <3>2. DependsOn(ops[next]) \subseteq {ops[k].id : k \in DOMAIN ops}
      BY <2>1 DEF Valid
    <3>3. QED
      BY <2>2, <2>3, <3>1, <3>2
  <2>5. QED
    BY <1>2, <2>1, <2>4 DEF Judged
<1>6. CASE VisitNext
  <2>1. /\ Visit(ops[next].id, stack) /\ pc = "visit" /\ stack = << >> /\ ops[next].id \in Ids
        /\ Gathered /\ Calls /\ error = "" /\ next \in DOMAIN ops
    BY <1>6, NextCall DEF IInv, VisitNext, Settled
  <2>2. ops[next].id \in DOMAIN byID
    BY <2>1 DEF Gathered, Seen
  <2>3. QED
    BY <1>1, <2>1, <2>2, CallJudged
<1>7. CASE VisitDependency
  <2>1. /\ Visit(Top.op.dependsOn[Top.at], Advanced) /\ pc = "visit" /\ stack # << >>
        /\ Top.op.dependsOn[Top.at] \in Ids \cap DependsOn(Top.op)
        /\ Gathered /\ Calls /\ error = ""
    BY <1>7, DependencyCall DEF IInv, VisitDependency, Settled
  <2>2. QED
    BY <1>1, <2>1, CallJudged
<1>8. CASE NextLoop \/ Leave
  BY <1>8 DEF NextLoop, Leave
<1>9. QED
  BY <1>3, <1>4, <1>5, <1>6, <1>7, <1>8 DEF Next

LEMMA AlwaysSettled == Spec => [](Settled /\ Judged)
<1>1. Init => Settled /\ Judged
  <2> SUFFICES ASSUME Init PROVE Settled /\ Judged
    OBVIOUS
  <2>1. /\ ops \in Seq(Operation) /\ pc = "collect" /\ next = 1 /\ stack = << >> /\ out = << >>
        /\ error = "" /\ DOMAIN byID = {} /\ state = [id \in Ids |-> 0]
    BY BatchesAssumption DEF Init
  <2>2. Seen = {} /\ Sound = {} /\ DOMAIN stack = {} /\ DOMAIN out = {}
    <3>1. DOMAIN ops \subseteq Nat \ {0}
      <4>1. ops \in Seq(Operation)
        BY <2>1
      <4>2. QED
        BY <4>1
    <3>2. \A i \in DOMAIN ops : ~(i < next)
      <4>1. next = 1
        BY <2>1
      <4>2. QED
        BY <3>1, <4>1
    <3>3. Seen = {i \in DOMAIN ops : i < next} /\ Sound = {}
      BY <2>1 DEF Seen, Sound
    <3>4. DOMAIN stack = {} /\ DOMAIN out = {}
      <4>1. stack = << >> /\ out = << >>
        BY <2>1
      <4>2. QED
        BY <4>1
    <3>5. QED
      BY <3>2, <3>3, <3>4
  <2>3. Gathered
    BY <2>1, <2>2 DEF Gathered
  <2>4. Calls
    <3>1. \A id \in Ids : state[id] # 1
      <4>1. state = [id \in Ids |-> 0]
        BY <2>1
      <4>2. QED
        BY <4>1
    <3>2. QED
      BY <2>1, <2>2, <3>1 DEF Calls
  <2>5. Visited
    <3>1. next <= Len(ops) + 1
      <4>1. next = 1 /\ ops \in Seq(Operation)
        BY <2>1
      <4>2. QED
        BY <4>1
    <3>2. QED
      BY <2>1, <3>1 DEF Visited
  <2>6. InOrder
    BY <2>1, <2>2 DEF InOrder
  <2>7. QED
    BY <2>1, <2>3, <2>4, <2>5, <2>6 DEF Settled, Judged
<1>2. IInv /\ Settled /\ Judged /\ [Next]_vars => (Settled /\ Judged)'
  <2> SUFFICES ASSUME IInv, Settled, Judged, [Next]_vars PROVE Settled' /\ Judged'
    OBVIOUS
  <2>1. Judged'
    BY JudgedOK
  <2>2. pc' # "failed" => error' = ""
    <3>1. pc' # "failed" => error = ""
      BY GoesOn
    <3>2. pc' # "failed" => error' = error
      BY DEF Next, Collect, NextLoop, References, VisitNext, VisitDependency, Leave, Visit, Complain, vars
    <3>3. QED
      BY <3>1, <3>2
  <2>3. QED
    BY <2>1, <2>2, GatheredOK, CallsOK, VisitedOK, InOrderOK DEF Settled
<1>3. QED
  BY <1>1, <1>2, AlwaysIInv, PTL DEF Spec

(* A non-empty set of positions has a first one. *)
LEMMA FirstOf ==
  ASSUME NEW T \in SUBSET Nat, T # {}
  PROVE  \E n \in T : \A m \in T : n <= m
<1>1. PICK n \in T : \A m \in T : ~ (<<m, n>> \in OpToRel(<, Nat))
  BY NatLessThanWellFounded, WFMin
<1>2. \A m \in T : ~ (m < n)
  BY <1>1 DEF OpToRel
<1>3. QED
  BY <1>2

(* A request all of whose operations are put out is valid: of a cycle, the *)
(* operation put out first would come before one that it depends on.       *)
LEMMA DoneIsValid ==
  ASSUME IInv, Settled, pc = "done"
  PROVE  Valid /\ {out[k] : k \in DOMAIN out} = {ops[i] : i \in DOMAIN ops}
<1>1. /\ Gathered /\ Calls /\ Visited /\ out \in Seq(Operation) /\ ops \in Seq(Operation)
      /\ DependenciesFirst /\ Marks
  BY DEF Settled, IInv, SearchInv, Typed
<1>2. \A k \in DOMAIN out : \E i \in DOMAIN ops : ops[i] = out[k]
  <2> SUFFICES ASSUME NEW k \in DOMAIN out PROVE \E i \in DOMAIN ops : ops[i] = out[k]
    OBVIOUS
  <2>1. out[k].id \in DOMAIN byID /\ out[k] = byID[out[k].id]
    BY <1>1 DEF Calls
  <2>2. PICK i \in DOMAIN ops : ops[i].id = out[k].id
    BY <1>1, <2>1 DEF Gathered, Seen
  <2>3. byID[ops[i].id] = ops[i]
    BY <1>1 DEF Gathered, Seen
  <2>4. QED
    BY <2>1, <2>2, <2>3
<1>3. \A i \in DOMAIN ops : \E k \in DOMAIN out : out[k] = ops[i]
  <2> SUFFICES ASSUME NEW i \in DOMAIN ops PROVE \E k \in DOMAIN out : out[k] = ops[i]
    OBVIOUS
  <2>1. ops[i].id \in DOMAIN byID /\ byID[ops[i].id] = ops[i] /\ ops[i].id \in Ids
    BY <1>1 DEF Gathered, Seen, IInv, SearchInv, Typed
  <2>2. PICK k \in DOMAIN out : out[k].id = ops[i].id
    BY <1>1, <2>1 DEF Visited, Marks
  <2>3. out[k] = byID[out[k].id]
    BY <1>1 DEF Calls
  <2>4. QED
    BY <2>1, <2>2, <2>3
<1>4. \A i \in DOMAIN ops : DependsOn(ops[i]) \subseteq {ops[k].id : k \in DOMAIN ops}
  <2> SUFFICES ASSUME NEW i \in DOMAIN ops, NEW d \in DependsOn(ops[i])
               PROVE  \E k \in DOMAIN ops : d = ops[k].id
    OBVIOUS
  <2>1. PICK k \in DOMAIN out : out[k] = ops[i]
    BY <1>3
  <2>2. PICK j \in DOMAIN out : out[j].id = d
    BY <1>1, <2>1 DEF DependenciesFirst
  <2>3. QED
    BY <1>2, <2>2
<1>5. Acyclic
  <2> SUFFICES ASSUME NEW S \in SUBSET (DOMAIN ops), S # {},
                      \A i \in S : \E k \in S : ops[k].id \in DependsOn(ops[i])
               PROVE  FALSE
    BY DEF Acyclic
  <2> DEFINE T == {k \in DOMAIN out : \E i \in S : out[k] = ops[i]}
  <2>1. T \in SUBSET Nat /\ T # {}
    <3>1. DOMAIN out \subseteq Nat
      BY <1>1
    <3>2. QED
      BY <1>3, <3>1
  <2>2. PICK first \in T : \A m \in T : first <= m
    BY <2>1, FirstOf
  <2>3. PICK i \in S : out[first] = ops[i]
    BY <2>2
  <2>4. PICK k \in S : ops[k].id \in DependsOn(ops[i])
    OBVIOUS
  <2>5. PICK j \in DOMAIN out : j < first /\ out[j].id = ops[k].id
    BY <1>1, <2>2, <2>3, <2>4 DEF DependenciesFirst
  <2>6. out[j] = ops[k]
    <3>1. out[j] = byID[out[j].id]
      BY <1>1 DEF Calls
    <3>2. byID[ops[k].id] = ops[k]
      BY <1>1 DEF Gathered, Seen
    <3>3. QED
      BY <2>5, <3>1, <3>2
  <2>7. j \in T
    BY <2>5, <2>6
  <2>8. j \in Nat /\ first \in Nat
    BY <2>1, <2>7
  <2> HIDE DEF T
  <2>9. QED
    BY <2>2, <2>5, <2>7, <2>8
<1>6. /\ \A i \in DOMAIN ops : Complete(ops[i]) /\ ops[i].refs \subseteq DependsOn(ops[i])
      /\ \A i, k \in DOMAIN ops : ops[i].id = ops[k].id => i = k
  BY <1>1 DEF Gathered, Seen, Sound
<1>7. Valid
  BY <1>4, <1>5, <1>6 DEF Valid
<1>8. QED
  BY <1>2, <1>3, <1>7

(* What BatchOrder has put out so far is ordered by dependency: for every  *)
(* request, also one with cycles or unknown dependencies.                  *)
THEOREM OutputOrdered == Spec => []DependenciesFirst
<1>1. IInv => DependenciesFirst
  BY DEF IInv, SearchInv
<1>2. QED
  BY <1>1, AlwaysIInv, PTL

(* An operation on which several others depend is still put out once.      *)
THEOREM OutputOnce == Spec => []NothingTwice
<1>1. IInv => NothingTwice
  BY DEF IInv, SearchInv
<1>2. QED
  BY <1>1, AlwaysIInv, PTL

(* BatchOrder decides what the definition of a valid request says, without *)
(* an algorithm: it returns an order exactly for the requests that are     *)
(* complete, without duplicates, unknown or undeclared references and      *)
(* cycles, puts all operations out, and what its error says is so.         *)
THEOREM RequestsJudged == Spec => []Verdict
<1>1. IInv /\ Settled /\ Judged => Verdict
  <2> SUFFICES ASSUME IInv, Settled, Judged PROVE Verdict
    OBVIOUS
  <2>1. pc # "failed" => error = ""
    BY DEF Settled
  <2>2. QED
    BY <2>1, DoneIsValid DEF Verdict, Judged, UnknownDependency
<1>2. QED
  BY <1>1, AlwaysIInv, AlwaysSettled, PTL

(* A request that lists its operations in an order that respects the       *)
(* dependencies is put out in that order.                                  *)
THEOREM OrderStays == Spec => []OrderKept
<1>1. IInv /\ Settled => OrderKept
  <2> SUFFICES ASSUME IInv, Settled, pc = "done", Sorted PROVE out = ops
    BY DEF OrderKept
  <2>1. out \in Seq(Operation) /\ ops \in Seq(Operation)
    BY DEF IInv, SearchInv, Typed
  <2>2. Len(out) = Len(ops) /\ \A k \in DOMAIN out : out[k] = ops[k]
    BY DEF Settled, InOrder
  <2>3. QED
    BY <2>1, <2>2
<1>2. QED
  BY <1>1, AlwaysIInv, AlwaysSettled, PTL

=============================================================================
