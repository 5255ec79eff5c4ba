-------------------------- MODULE DuplicateInTree --------------------------
(***************************************************************************)
(* The other insert of binarySearchTree.h, which makes its node itself,    *)
(* with `new', before it looks for the element.                            *)
(***************************************************************************)
EXTENDS SearchTree

insertNew(x) ==
  \E a \in Address \ DOMAIN info :
    \/ ~Hit(Path(x), x) /\ insert(x, a)
    \/ /\ Hit(Path(x), x)
       /\ info' = With(info, a, x)
       /\ lLink' = With(lLink, a, null) /\ rLink' = With(rLink, a, null)
       /\ answer' = <<"insert", x, "refused">>
       /\ UNCHANGED root

NextNew == \E x \in Type : search(x) \/ deleteNode(x) \/ insertNew(x)
=============================================================================
