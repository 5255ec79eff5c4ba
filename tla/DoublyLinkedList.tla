-------------------------- MODULE DoublyLinkedList --------------------------
(***************************************************************************)
(* doublyLinkedList (libs_src/data_structures/doublyLinkedList.h): a list  *)
(* in ascending order whose nodes are linked both ways.                    *)
(***************************************************************************)
EXTENDS Nodes

VARIABLES
  info, next, back,    \* the nodes
  first, last, count,  \* the list
  answer               \* the last call: method, how it ended and with what

heap == <<info, next, back>>
vars == <<heap, first, last, count, answer>>

List == "list"   \* the one list object

Init ==
  /\ info = <<>> /\ next = <<>> /\ back = <<>>
  /\ first = null /\ last = null /\ count = 0
  /\ answer = <<"", "", "done">>

nodes == Chain(next, first)

-----------------------------------------------------------------------------
destroy ==
  /\ info' = Without(info, ToSet(nodes))
  /\ next' = Without(next, ToSet(nodes)) /\ back' = Without(back, ToSet(nodes))
  /\ first' = null /\ last' = null /\ count' = 0
  /\ answer' = <<List, "destroyList", "done">>

(* insert: the list is empty, the new node is the first, it is the last,   *)
(* or it goes between trailCurrent = c[k - 1] and current = c[k].          *)
MutBackForgotten(x, a) ==   \* mutant: current keeps its old back link
  \E c \in {nodes} : \E k \in {FirstFrom(info, c, x)} :
    /\ a \notin DOMAIN info
    /\ info' = With(info, a, x)
    /\ next' = With(IF k = 1 THEN next ELSE [next EXCEPT ![c[k - 1]] = a],
                    a, IF k <= Len(c) THEN c[k] ELSE null)
    /\ back' = With(IF k = 1 /\ c # <<>> THEN [back EXCEPT ![first] = a] ELSE back,
                    a, IF k > 1 THEN c[k - 1] ELSE null)
    /\ first' = IF k = 1 THEN a ELSE first
    /\ last' = IF k > Len(c) THEN a ELSE last
    /\ count' = count + 1
    /\ answer' = <<List, "insert", "done", x>>
insert(x, a) ==
  \E c \in {nodes} : \E k \in {FirstFrom(info, c, x)} :
    /\ a \notin DOMAIN info
    /\ info' = With(info, a, x)
    /\ next' = With(IF k = 1 THEN next ELSE [next EXCEPT ![c[k - 1]] = a],
                    a, IF k <= Len(c) THEN c[k] ELSE null)
    /\ back' = With(IF k > Len(c) THEN back ELSE [back EXCEPT ![c[k]] = a],
                    a, IF k > 1 THEN c[k - 1] ELSE null)
    /\ first' = IF k = 1 THEN a ELSE first
    /\ last' = IF k > Len(c) THEN a ELSE last
    /\ count' = count + 1
    /\ answer' = <<List, "insert", "done", x>>

(* What becomes of the fields when the first node is deleted, and when a   *)
(* later one is: its predecessor is found through its back link.           *)
deleteFirst ==
  /\ first' = next[first]
  /\ back' = Without(IF next[first] = null THEN back ELSE [back EXCEPT ![next[first]] = null], {first})
  /\ next' = Without(next, {first}) /\ info' = Without(info, {first})
  /\ last' = IF next[first] = null THEN null ELSE last

deleteLater(current) ==
  /\ next' = Without([next EXCEPT ![back[current]] = next[current]], {current})
  /\ back' = Without(IF next[current] = null THEN back
                     ELSE [back EXCEPT ![next[current]] = back[current]], {current})
  /\ info' = Without(info, {current})
  /\ last' = IF current = last THEN back[current] ELSE last
  /\ UNCHANGED first

(* The loop that looks for a later node stops at the first not smaller. *)
Holds(c, k, x) == IF k > Len(c) THEN FALSE ELSE info[c[k]] = x

deleteNode(x) ==
  \E c \in {nodes} : \E k \in {FirstFrom(info, c, x)} :
    \/ /\ Holds(c, k, x)
       /\ \/ k = 1 /\ deleteFirst
          \/ k > 1 /\ deleteLater(c[k])
       /\ count' = count - 1
       /\ answer' = <<List, "deleteNode", "done", x>>
    \/ /\ ~Holds(c, k, x)
       /\ answer' = <<List, "deleteNode", "refused", x>>
       /\ UNCHANGED <<heap, first, last, count>>

Answers(a) == answer' = a /\ UNCHANGED <<heap, first, last, count>>

EndOf(method, p) ==
  Answers(IF p = null THEN <<List, method, "aborted">> ELSE <<List, method, "value", info[p]>>)

front  == EndOf("front", first)
Back   == EndOf("back", last)
length == Answers(<<List, "length", "value", count>>)
search(x) ==
  Answers(<<List, "search", IF FirstWith(info, nodes, x) # 0 THEN "found" ELSE "missing", x>>)

Running == answer[3] # "aborted"
Ended   == ~Running /\ UNCHANGED vars

Next ==
  \/ /\ Running
     /\ \/ destroy \/ front \/ Back \/ length
        \/ \E x \in Type : deleteNode(x) \/ search(x)
        \/ \E x \in Type, a \in Address : insert(x, a)
  \/ Ended

-----------------------------------------------------------------------------
TypeOK ==
  /\ DOMAIN info \subseteq Address /\ info \in [DOMAIN info -> Type]
  /\ next \in [DOMAIN info -> Pointer] /\ back \in [DOMAIN info -> Pointer]
  /\ first \in Pointer /\ last \in Pointer
  /\ count \in 0..Cardinality(Address)
  /\ answer[3] \in {"done", "value", "found", "missing", "refused", "aborted"}

(* back returns the last element, the one the chain from the front ends    *)
(* with.                                                                   *)
LastIsLast == last = IF nodes = <<>> THEN null ELSE Last(nodes)

(* The chain from `last' by the back links is the chain from `first' by    *)
(* the others, read backwards (what reversePrint shows): deleteNode finds  *)
(* its way by the one and insert by the other, and each branch of both     *)
(* sets up to four links.                                                  *)
BothWays ==
  /\ Proper(next, first) /\ Proper(back, last)
  /\ Chain(back, last) = Reverse(nodes)

(* Every node made is in the list or was deleted, and counted. *)
NoneLost == DOMAIN info = ToSet(nodes) /\ count = Cardinality(DOMAIN info)
=============================================================================
