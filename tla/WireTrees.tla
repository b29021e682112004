----------------------------- MODULE WireTrees -----------------------------
(***************************************************************************)
(* The recursions of jsonrpc.go and telemetry.go over JSON values as the   *)
(* code has them, and what makes Wire's definitions over paths the same.   *)
(*                                                                         *)
(* A JSON value is a string of Wire, a list or an object.                  *)
(***************************************************************************)
EXTENDS Wire

Str(text, key) == [str |-> [text |-> text, key |-> key]]
List(items) == [list |-> items]
Object(fields) == [object |-> fields]

IsStr(tree) == "str" \in DOMAIN tree
IsList(tree) == "list" \in DOMAIN tree
IsObject(tree) == "object" \in DOMAIN tree

-----------------------------------------------------------------------------
(* The document of a value.                                                *)

Below(step, paths) == {<<step>> \o path : path \in paths}

RECURSIVE Paths(_)
Paths(tree) ==
  CASE IsObject(tree) ->
         UNION {Below([key |-> key], Paths(tree.object[key])) : key \in DOMAIN tree.object}
    [] IsList(tree) ->
         UNION {Below([item |-> i], Paths(tree.list[i])) : i \in DOMAIN tree.list}
    [] OTHER -> {<<>>}

RECURSIVE StringAt(_, _)
StringAt(tree, path) ==
  CASE IsObject(tree) -> StringAt(tree.object[Head(path).key], Tail(path))
    [] IsList(tree) -> StringAt(tree.list[Head(path).item], Tail(path))
    [] OTHER -> tree.str

Document(tree) == [path \in Paths(tree) |-> StringAt(tree, path)]

-----------------------------------------------------------------------------
(* The recursions.                                                         *)

ProtectStr(tree, tok, encrypt) ==
  IF IsStr(tree) THEN [str |-> protectString(tree.str, tok, encrypt)] ELSE tree

RECURSIVE ProtectTree(_, _, _)
ProtectTree(tree, tok, encrypt) ==
  LET Field(key) ==
        LET child == tree.object[key]
        IN  CASE sensitiveKey(key) /\ IsStr(child) -> ProtectStr(child, tok, encrypt)
              [] sensitiveKey(key) /\ IsList(child) ->
                   List([i \in DOMAIN child.list |-> ProtectStr(child.list[i], tok, encrypt)])
              [] OTHER -> ProtectTree(child, tok, encrypt)
  IN  CASE IsObject(tree) -> Object([key \in DOMAIN tree.object |-> Field(key)])
        [] IsList(tree) ->
             List([i \in DOMAIN tree.list |-> ProtectTree(tree.list[i], tok, encrypt)])
        [] OTHER -> tree

RECURSIVE containsPlaintextValue(_, _, _)
containsPlaintextValue(tree, texts, protected) ==
  CASE IsObject(tree) ->
         \E key \in DOMAIN tree.object :
           containsPlaintextValue(tree.object[key], texts, protectedWireKey(key))
    [] IsList(tree) ->
         \E i \in DOMAIN tree.list : containsPlaintextValue(tree.list[i], texts, protected)
    [] OTHER -> protected /\ tree.str \in texts

-----------------------------------------------------------------------------
(* To seal or to open a value is to seal or to open its document.  Every   *)
(* string that is reached shows in one of them: "none" opens the prefixed. *)
SealsAsDocument(tree, tok) ==
  \A encrypt \in BOOLEAN :
    Document(ProtectTree(tree, tok, encrypt)) = protectValue(Document(tree), tok, encrypt)

(* A value is searched as its document is.                                 *)
SearchedAsDocument(tree) ==
  \A path \in Paths(tree) :
    LET s == StringAt(tree, path)
    IN  containsPlaintextValue(tree, {s}, FALSE)
          <=> \E p \in Paths(tree) : Searched(p) /\ StringAt(tree, p) = s

=============================================================================
