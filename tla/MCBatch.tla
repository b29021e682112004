------------------------------ MODULE MCBatch ------------------------------
(***************************************************************************)
(* Batch requests for TLC: all small dependency graphs, and all small      *)
(* requests with faults of every kind.                                     *)
(***************************************************************************)
EXTENDS Batch

CONSTANTS x, y, z, MaxOps

UpTo(n, S) == UNION {[1 .. m -> S] : m \in 0 .. n}
Op(id, named, deps, refs) == [id |-> id, named |-> named, dependsOn |-> deps, refs |-> refs]

(* x, y and z in any order or repeated, each with up to two dependencies.  *)
Graphs == UpTo(MaxOps, {Op(id, TRUE, deps, {}) : id \in Ids, deps \in UpTo(2, Ids)})

(* Missing ids and names, unknown dependencies (z is never an operation),  *)
(* references that are malformed, unknown or not declared.                 *)
Faulty ==
  UpTo(2,
    {Op(id, TRUE, deps, refs) : id \in {x, y}, deps \in UpTo(1, Ids),
       refs \in {{}} \cup {{r} : r \in Ids \cup {Malformed}} \cup {{x, y}, {x, z}}}
    \cup {Op(NoId, TRUE, << >>, {}), Op(x, FALSE, << >>, {})})

Requests == Graphs \cup Faulty

=============================================================================
