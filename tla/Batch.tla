------------------------------- MODULE Batch -------------------------------
(***************************************************************************)
(* BatchOrder of contract/v2.go: the check of a batch request and the      *)
(* depth-first search that puts its operations into an order in which      *)
(* every operation comes after the ones it depends on.                     *)
(*                                                                         *)
(* The recursive closure visit is unfolded: a frame of stack is one call   *)
(* that has not returned, with its operation and the index of the next     *)
(* dependency.  Of the parameters only the result references are kept.     *)
(***************************************************************************)
EXTENDS Integers, Sequences, FiniteSets

CONSTANTS
  Ids,        \* identifiers that occur in batches
  NoId,       \* an id or an operation name left empty
  Malformed,  \* a "$ref:" without result or without field
  Batches     \* the requests: sequences of operations

Operation == [id : Ids \cup {NoId}, named : BOOLEAN, dependsOn : Seq(Ids),
              refs : SUBSET (Ids \cup {Malformed})]

ASSUME BatchesAssumption == NoId \notin Ids /\ Malformed \notin Ids /\ Batches \subseteq Seq(Operation)

VARIABLES
  ops,    \* the argument
  pc,     \* "collect", "references", "visit", "done" or "failed"
  next,   \* the loops' index into ops
  byID,   \* from the ids collected to their operations
  state,  \* per id: 0 unvisited, 1 being visited, 2 visited
  stack, out,
  error   \* what BatchOrder complains about, "" if nothing

vars == <<ops, pc, next, byID, state, stack, out, error>>

Init ==
  /\ ops \in Batches
  /\ pc = "collect" /\ next = 1
  /\ byID = [id \in {} |-> ops] /\ state = [id \in Ids |-> 0]
  /\ stack = << >> /\ out = << >> /\ error = ""

Complain(what) ==
  /\ pc' = "failed" /\ error' = what
  /\ UNCHANGED <<ops, next, byID, state, stack, out>>

-----------------------------------------------------------------------------
(* First loop: ids, names and the form of the references.                  *)

Complete(op) == op.id # NoId /\ op.named

Collect ==
  /\ pc = "collect" /\ next \in DOMAIN ops
  /\ LET op == ops[next]
     IN  \/ ~Complete(op) /\ Complain("incomplete")
         \/ Complete(op) /\ op.id \in DOMAIN byID /\ Complain("duplicate")
         \/ /\ Complete(op) /\ op.id \notin DOMAIN byID /\ Malformed \in op.refs
            /\ Complain("malformed")
         \/ /\ Complete(op) /\ op.id \notin DOMAIN byID /\ Malformed \notin op.refs
            /\ byID' = [id \in DOMAIN byID \cup {op.id} |-> IF id = op.id THEN op ELSE byID[id]]
            /\ next' = next + 1
            /\ UNCHANGED <<ops, pc, state, stack, out, error>>

(* The end of a loop that was run over all operations.                     *)
NextLoop ==
  /\ next > Len(ops) /\ stack = << >>
  /\ \/ pc = "collect" /\ pc' = "references"
     \/ pc = "references" /\ pc' = "visit"
     \/ pc = "visit" /\ pc' = "done"
  /\ next' = 1
  /\ UNCHANGED <<ops, byID, state, stack, out, error>>

(* Second loop: a referenced result is known and is depended on.  The      *)
(* parameters are maps, so which of several wrong references is found      *)
(* first is not determined.                                                *)
DependsOn(op) == {op.dependsOn[m] : m \in DOMAIN op.dependsOn}

(* Operators whose name has an underscore are faults: variants of the      *)
(* definition they are named for that the checks tell apart from the code. *)
References_NeedNotBeDeclared ==
  /\ pc = "references" /\ next \in DOMAIN ops
  /\ LET op == ops[next]
     IN  \/ \E ref \in op.refs : ref \notin DOMAIN byID /\ Complain("unknown reference")
         \/ /\ op.refs \subseteq DOMAIN byID
            /\ next' = next + 1
            /\ UNCHANGED <<ops, pc, byID, state, stack, out, error>>

References ==
  /\ pc = "references" /\ next \in DOMAIN ops
  /\ LET op == ops[next]
     IN  \/ \E ref \in op.refs : ref \notin DOMAIN byID /\ Complain("unknown reference")
         \/ \E ref \in op.refs \ DependsOn(op) :
              ref \in DOMAIN byID /\ Complain("undeclared reference")
         \/ /\ op.refs \subseteq DOMAIN byID \cap DependsOn(op)
            /\ next' = next + 1
            /\ UNCHANGED <<ops, pc, byID, state, stack, out, error>>

-----------------------------------------------------------------------------
(* Third loop: visit every operation.  A call of visit(id), made with the  *)
(* frames `below' on the stack, fails, returns at once or pushes a frame.  *)

Frame_SkipsFirst(op) == [op |-> op, at |-> 2]

Frame(op) == [op |-> op, at |-> 1]

Visit(id, below) ==
  \/ state[id] = 1 /\ Complain("cycle")
  \/ /\ state[id] = 2
     /\ stack' = below /\ UNCHANGED <<ops, pc, byID, state, out, error>>
  \/ state[id] = 0 /\ id \notin DOMAIN byID /\ Complain("unknown dependency")
  \/ /\ state[id] = 0 /\ id \in DOMAIN byID
     /\ state' = [state EXCEPT ![id] = 1]
     /\ stack' = Append(below, Frame(byID[id]))
     /\ UNCHANGED <<ops, pc, byID, out, error>>

VisitNext_FromTheEnd ==
  /\ pc = "visit" /\ stack = << >> /\ next \in DOMAIN ops
  /\ Visit(ops[Len(ops) + 1 - next].id, stack)
  /\ next' = IF error' = "" THEN next + 1 ELSE next

VisitNext ==
  /\ pc = "visit" /\ stack = << >> /\ next \in DOMAIN ops
  /\ Visit(ops[next].id, stack)
  /\ next' = IF error' = "" THEN next + 1 ELSE next

Top == stack[Len(stack)]
Advanced == [stack EXCEPT ![Len(stack)] = [op |-> Top.op, at |-> Top.at + 1]]

VisitDependency_Again ==
  /\ pc = "visit" /\ stack # << >> /\ Top.at \in DOMAIN Top.op.dependsOn
  /\ Visit(Top.op.dependsOn[Top.at], stack)
  /\ UNCHANGED next

VisitDependency ==
  /\ pc = "visit" /\ stack # << >> /\ Top.at \in DOMAIN Top.op.dependsOn
  /\ Visit(Top.op.dependsOn[Top.at], Advanced)
  /\ UNCHANGED next

Leave_Unmarks ==
  /\ pc = "visit" /\ stack # << >> /\ Top.at \notin DOMAIN Top.op.dependsOn
  /\ state' = [state EXCEPT ![Top.op.id] = 0]
  /\ out' = Append(out, Top.op)
  /\ stack' = SubSeq(stack, 1, Len(stack) - 1)
  /\ UNCHANGED <<ops, pc, next, byID, error>>

(* All dependencies are done: the operation is appended and its call       *)
(* returns.                                                                *)
Leave ==
  /\ pc = "visit" /\ stack # << >> /\ Top.at \notin DOMAIN Top.op.dependsOn
  /\ state' = [state EXCEPT ![Top.op.id] = 2]
  /\ out' = Append(out, Top.op)
  /\ stack' = SubSeq(stack, 1, Len(stack) - 1)
  /\ UNCHANGED <<ops, pc, next, byID, error>>

Next == Collect \/ NextLoop \/ References \/ VisitNext \/ VisitDependency \/ Leave

Spec == Init /\ [][Next]_vars /\ WF_vars(Next)

-----------------------------------------------------------------------------
(* Correctness. *)

(* The search's state: frames are calls of visit on collected operations.  *)
Frames == [op : Operation, at : Nat \ {0}]

(* At every moment, each operation put out comes after everything it       *)
(* depends on.                                                             *)
DependenciesFirst ==
  \A k \in DOMAIN out : \A d \in DependsOn(out[k]) : \E j \in DOMAIN out : j < k /\ out[j].id = d

(* No operation is put out twice.                                          *)
NothingTwice == \A j, k \in DOMAIN out : out[j].id = out[k].id => j = k

(* What a valid request is, without an algorithm: a dependency cycle is a  *)
(* non-empty set of operations each of which depends on one of them.       *)
Acyclic ==
  ~ \E S \in SUBSET (DOMAIN ops) :
      S # {} /\ \A i \in S : \E k \in S : ops[k].id \in DependsOn(ops[i])

Valid ==
  LET ids == {ops[i].id : i \in DOMAIN ops}
  IN  /\ \A i \in DOMAIN ops : Complete(ops[i])
      /\ \A i, k \in DOMAIN ops : ops[i].id = ops[k].id => i = k
      /\ \A i \in DOMAIN ops : DependsOn(ops[i]) \subseteq ids /\ ops[i].refs \subseteq DependsOn(ops[i])
      /\ Acyclic

(* A request is accepted exactly when it is valid, and all of it is put    *)
(* out; and what the error says is true of the request.                    *)
Verdict ==
  /\ pc = "done" => Valid /\ {out[k] : k \in DOMAIN out} = {ops[i] : i \in DOMAIN ops}
  /\ pc = "failed" => ~Valid
  /\ error = "cycle" => ~Acyclic
  /\ error = "unknown dependency" =>
       \E i \in DOMAIN ops : ~(DependsOn(ops[i]) \subseteq {ops[k].id : k \in DOMAIN ops})

(* An order that respects the dependencies already is kept: mode "ordered" *)
(* does not reshuffle what the client listed.                              *)
Sorted ==
  \A i \in DOMAIN ops : \A d \in DependsOn(ops[i]) : \E k \in DOMAIN ops : k < i /\ ops[k].id = d
OrderKept == pc = "done" /\ Sorted => out = ops

(* The search ends.                                                        *)
Terminates == <>(pc \in {"done", "failed"})

=============================================================================
