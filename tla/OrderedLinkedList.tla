------------------------- MODULE OrderedLinkedList -------------------------
(***************************************************************************)
(* orderedLinkedList (libs_src/data_structures/orderedLinkedList.h): the   *)
(* nodes are kept in ascending order of their elements.  insertFirst and   *)
(* insertLast call insert.                                                 *)
(***************************************************************************)
EXTENDS LinkedList

(* The loop stops at the first node that is not smaller, k; trailCurrent   *)
(* is the node before it.                                                  *)
insert(l, x, a) ==
  \E c \in {nodes(l)} : \E k \in {FirstFrom(info, c, x)} :
    /\ a \notin DOMAIN link
    /\ info' = With(info, a, x)
    /\ \/ k = 1 /\ link' = With(link, a, first[l]) /\ first' = [first EXCEPT ![l] = a]
       \/ k > 1 /\ link' = With([link EXCEPT ![c[k - 1]] = a], a, link[c[k - 1]]) /\ UNCHANGED first
    /\ last'  = IF k > Len(c) THEN [last EXCEPT ![l] = a] ELSE last
    /\ count' = [count EXCEPT ![l] = @ + 1]
    /\ answer' = <<l, "insert", "done", x>>

(* The node the search stopped at exists and has the element looked for. *)
Holds(c, k, x) == IF k > Len(c) THEN FALSE ELSE info[c[k]] = x

deleteNode(l, x) ==
  \E c \in {nodes(l)} : \E k \in {FirstFrom(info, c, x)} :
    \/ /\ ~Holds(c, k, x)
       /\ Answers(<<l, "deleteNode", "refused", x>>)
    \/ /\ Holds(c, k, x)
       /\ info' = Without(info, {c[k]})
       /\ link' = Without(IF k = 1 THEN link ELSE [link EXCEPT ![c[k - 1]] = link[c[k]]], {c[k]})
       /\ first' = IF k = 1 THEN [first EXCEPT ![l] = link[@]] ELSE first
       /\ last' = [last EXCEPT ![l] = IF k = 1 /\ link[c[1]] = null THEN null
                                      ELSE IF k > 1 /\ @ = c[k] THEN c[k - 1] ELSE @]
       /\ count' = [count EXCEPT ![l] = @ - 1]
       /\ answer' = <<l, "deleteNode", "done", x>>

Next ==
  \/ /\ Running
     /\ \E l \in Lists :
          \/ destroyList(l) \/ front(l) \/ back(l) \/ length(l) \/ print(l)
          \/ \E x \in Type : deleteNode(l, x) \/ search(l, x)
          \/ \E x \in Type, a \in Address : insert(l, x, a)
          \/ \E other \in Lists : assign(l, other)
  \/ Ended
=============================================================================
