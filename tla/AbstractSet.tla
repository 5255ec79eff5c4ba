---------------------------- MODULE AbstractSet ----------------------------
(***************************************************************************)
(* What the comments of binaryTree.h and binarySearchTree.h promise: a set *)
(* of elements, and a message where the call finds nothing to do.          *)
(***************************************************************************)
CONSTANT Type

VARIABLES
  members,
  answer   \* the last call: method, element, how it ended

state == <<members, answer>>

Init == members = {} /\ answer = <<"", 0, "done">>

insert(x) ==
  /\ members' = members \cup {x}
  /\ answer' = <<"insert", x, IF x \in members THEN "refused" ELSE "done">>
deleteNode(x) ==
  /\ members' = members \ {x}
  /\ answer' = <<"deleteNode", x, IF x \in members THEN "done" ELSE "refused">>
search(x) ==
  /\ answer' = <<"search", x, IF x \in members THEN "found" ELSE "missing">>
  /\ UNCHANGED members

Next == \E x \in Type : insert(x) \/ deleteNode(x) \/ search(x)

Spec == Init /\ [][Next]_state
=============================================================================
