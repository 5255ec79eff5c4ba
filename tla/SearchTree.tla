----------------------------- MODULE SearchTree -----------------------------
(***************************************************************************)
(* bSearchTreeType (libs_src/data_structures/binarySearchTree.h): one tree *)
(* over the nodes of binaryTree.h.  Its own member `root' hides the one of *)
(* its base class.                                                         *)
(***************************************************************************)
EXTENDS Nodes

VARIABLES
  info, lLink, rLink,   \* the nodes
  root,
  answer                \* the last call: method, element, how it ended

heap == <<info, lLink, rLink>>
vars == <<heap, root, answer>>

(* The header declares `root' and gives it no value; objects that are      *)
(* value-initialised, as those of the benchmark are, start with null.      *)
Init ==
  /\ info = <<>> /\ lLink = <<>> /\ rLink = <<>>
  /\ root = null
  /\ answer = <<"", 0, "done">>

(* The nodes the loops of search, insert and deleteNode visit on their way *)
(* to x, the last one the one with x if there is one.                      *)
Path(x) ==
  Chain([p \in DOMAIN info |-> IF info[p] = x THEN null
                               ELSE IF info[p] > x THEN lLink[p] ELSE rLink[p]], root)

Hit(path, x) == IF path = <<>> THEN FALSE ELSE info[Last(path)] = x

Answers(a) == answer' = a /\ UNCHANGED <<heap, root>>

-----------------------------------------------------------------------------
MutLeftOnly(x) ==   \* mutant: looks to the left where it should look right
  Answers(<<"search", x, IF \E p \in ToSet(Chain(lLink, root)) : info[p] = x
                         THEN "found" ELSE "missing">>)
search(x) == Answers(<<"search", x, IF Hit(Path(x), x) THEN "found" ELSE "missing">>)

(* A node at the address of the caller.  For an element that is already    *)
(* there it is written and left; it remains the caller's memory.           *)
insert(x, a) ==
  /\ a \notin DOMAIN info
  /\ \E path \in {Path(x)} :
       \/ Hit(path, x) /\ Answers(<<"insert", x, "refused">>)
       \/ /\ ~Hit(path, x)
          /\ info' = With(info, a, x)
          /\ root' = IF path = <<>> THEN a ELSE root
          /\ lLink' = With(IF path # <<>> /\ info[Last(path)] > x
                           THEN [lLink EXCEPT ![Last(path)] = a] ELSE lLink, a, null)
          /\ rLink' = With(IF path # <<>> /\ info[Last(path)] < x
                           THEN [rLink EXCEPT ![Last(path)] = a] ELSE rLink, a, null)
          /\ answer' = <<"insert", x, "done">>

(* deleteFromTree, with at most one child: the pointer through which the   *)
(* node was reached, which is a link of the node before it on the path,    *)
(* becomes that child.                                                     *)
Bypass(path, x, child) ==
  \E n \in {Last(path)}, before \in {IF Len(path) = 1 THEN null ELSE path[Len(path) - 1]} :
    /\ root' = IF before = null THEN child ELSE root
    /\ lLink' = Without(IF before # null /\ info[before] > x
                        THEN [lLink EXCEPT ![before] = child] ELSE lLink, {n})
    /\ rLink' = Without(IF before # null /\ info[before] < x
                        THEN [rLink EXCEPT ![before] = child] ELSE rLink, {n})
    /\ info' = Without(info, {n})

(* With two: the node takes the element of the rightmost node of its left  *)
(* subtree, and that one is unlinked; its left subtree stays.              *)
MutDropsLeft(n) ==   \* mutant: the predecessor's left subtree is dropped
  \E c \in {Chain(rLink, lLink[n])} :
    /\ info' = Without([info EXCEPT ![n] = info[Last(c)]], {Last(c)})
    /\ lLink' = Without(IF Len(c) > 1 THEN lLink
                        ELSE [lLink EXCEPT ![n] = lLink[Last(c)]], {Last(c)})
    /\ rLink' = Without(IF Len(c) = 1 THEN rLink
                        ELSE [rLink EXCEPT ![c[Len(c) - 1]] = null], {Last(c)})
    /\ UNCHANGED root
TakePredecessor(n) ==
  \E c \in {Chain(rLink, lLink[n])} :
    /\ info' = Without([info EXCEPT ![n] = info[Last(c)]], {Last(c)})
    /\ lLink' = Without(IF Len(c) > 1 THEN lLink
                        ELSE [lLink EXCEPT ![n] = lLink[Last(c)]], {Last(c)})
    /\ rLink' = Without(IF Len(c) = 1 THEN rLink
                        ELSE [rLink EXCEPT ![c[Len(c) - 1]] = lLink[Last(c)]], {Last(c)})
    /\ UNCHANGED root

deleteNode(x) ==
  \E path \in {Path(x)} :
    \/ ~Hit(path, x) /\ Answers(<<"deleteNode", x, "refused">>)
    \/ /\ Hit(path, x)
       /\ \E n \in {Last(path)} :
            \/ lLink[n] = null /\ Bypass(path, x, rLink[n])
            \/ lLink[n] # null /\ rLink[n] = null /\ Bypass(path, x, lLink[n])
            \/ lLink[n] # null /\ rLink[n] # null /\ TakePredecessor(n)
       /\ answer' = <<"deleteNode", x, "done">>

Next ==
  \E x \in Type : search(x) \/ deleteNode(x) \/ \E a \in Address : insert(x, a)

-----------------------------------------------------------------------------
TypeOK ==
  /\ DOMAIN info \subseteq Address /\ info \in [DOMAIN info -> Type]
  /\ lLink \in [DOMAIN info -> Pointer] /\ rLink \in [DOMAIN info -> Pointer]
  /\ root \in Pointer

(* The nodes of the tree from left to right (inorder of binaryTree.h). *)
inorder ==
  LET walk[k \in Nat] == [p \in Nat |->
        IF k = 0 \/ p \notin DOMAIN info THEN <<>>
        ELSE walk[k - 1][lLink[p]] \o <<p>> \o walk[k - 1][rLink[p]]]
  IN  walk[Cardinality(DOMAIN info) + 1][root]

(* Every element is right of the smaller and left of the larger ones, not  *)
(* of its parent only: the loops look at one path and never turn back.     *)
Ordered == \A i, j \in 1..Len(inorder) : i < j => info[inorder[i]] < info[inorder[j]]

(* The links make a tree: every node that was made and not deleted is in   *)
(* it, once, and no link leads to a deleted node.                          *)
OneTree ==
  /\ ToSet(inorder) = DOMAIN info /\ IsInjective(inorder)
  /\ \A p \in DOMAIN info : {lLink[p], rLink[p]} \subseteq DOMAIN info \cup {null}
  /\ root \in DOMAIN info \cup {null}
=============================================================================
