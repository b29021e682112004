------------------------------- MODULE MCWire -------------------------------
(* Wire with all values up to a small depth over two texts, one of which   *)
(* looks sealed; the other one is part of a key.                           *)
EXTENDS WireTrees

Leaves == {Str("topic", ""), Str("topic", "none")}
ListsOf(values) == {List(<<>>)} \cup {List(<<v>>) : v \in values}
ObjectsOf(keys, values) == {Object([k \in {key} |-> v]) : key \in keys, v \in values}
Level1 == Leaves \cup ListsOf(Leaves) \cup ObjectsOf({"content", "name"}, Leaves)
Level2 == Level1 \cup ListsOf(Level1) \cup ObjectsOf({"content", "name"}, Level1)

(* Parameters and answers are objects; some have lists of two items.       *)
Trees == ObjectsOf({"content", "topics", "name"}, Level2)
           \cup {Object([k \in {"content"} |-> List(<<x, y>>)]) : x \in Leaves, y \in Level1}
           \cup {Object([k \in {"content"} |-> Str("", "")])}
Values == {Document(tree) : tree \in Trees}
Inside == {<<[text |-> "topic", key |-> ""], [text |-> "topics", key |-> ""]>>}

ASSUME TreesAreDocuments ==
  \A tree \in Trees :
    /\ \A tok \in Tokens \cup {"none"} : SealsAsDocument(tree, tok)
    /\ SearchedAsDocument(tree)
=============================================================================
