----------------------------- MODULE LinkedList -----------------------------
(***************************************************************************)
(* linkedListType (libs_src/data_structures/linkedList.h), the base of the *)
(* singly linked lists: list objects over one heap of nodes.               *)
(***************************************************************************)
EXTENDS Nodes

CONSTANT Lists   \* the list objects

VARIABLES
  info, link,          \* the nodes
  first, last, count,  \* the fields of the list objects
  answer               \* the last call: list, method, how it ended and with what

fields == <<first, last, count>>
vars   == <<info, link, fields, answer>>

Init ==
  /\ info = <<>> /\ link = <<>>
  /\ first = [l \in Lists |-> null]
  /\ last  = [l \in Lists |-> null]
  /\ count = [l \in Lists |-> 0]
  /\ answer = <<"", "", "done">>

nodes(l)       == Chain(link, first[l])
NodeSet(l)     == ToSet(nodes(l))
isEmptyList(l) == first[l] = null

-----------------------------------------------------------------------------
destroyList(l) ==
  /\ info'  = Without(info, NodeSet(l))
  /\ link'  = Without(link, NodeSet(l))
  /\ first' = [first EXCEPT ![l] = null]
  /\ last'  = [last EXCEPT ![l] = null]
  /\ count' = [count EXCEPT ![l] = 0]
  /\ answer' = <<l, "destroyList", "done">>

(* operator= and copyList: the nodes of l are deleted first, so that the   *)
(* copies may be made in their place.                                      *)
copyList(l, other) ==
  \E c \in {nodes(other)}, kept \in {DOMAIN link \ NodeSet(l)} :
    \E new \in Fresh(Len(c), kept) :
      /\ info' = [a \in kept \cup ToSet(new) |->
                    IF a \in kept THEN info[a] ELSE info[c[Inverse(new, 1..Len(c), ToSet(new))[a]]]]
      /\ link' = [a \in kept \cup ToSet(new) |->
                    IF a \in kept THEN link[a]
                    ELSE IF a = new[Len(c)] THEN null
                    ELSE new[Inverse(new, 1..Len(c), ToSet(new))[a] + 1]]
      /\ first' = [first EXCEPT ![l] = IF c = <<>> THEN null ELSE new[1]]
      /\ last'  = [last EXCEPT ![l] = IF c = <<>> THEN null ELSE new[Len(c)]]
      /\ count' = [count EXCEPT ![l] = IF c = <<>> THEN 0 ELSE count[other]]

assign(l, other) ==
  /\ \/ l # other /\ copyList(l, other)
     \/ l = other /\ UNCHANGED <<info, link, fields>>
  /\ answer' = <<l, "assign", "done", other>>

-----------------------------------------------------------------------------
Answers(a) == answer' = a /\ UNCHANGED <<info, link, fields>>

(* The element at an end; a node that was deleted is no node. *)
End(l, method, p) ==
  Answers(IF p = null THEN <<l, method, "aborted">>
          ELSE IF p \in DOMAIN info THEN <<l, method, "value", info[p]>>
          ELSE <<l, method, "fault">>)

front(l)  == End(l, "front", first[l])
back(l)   == End(l, "back", last[l])
length(l) == Answers(<<l, "length", "value", count[l]>>)

(* print goes by the count, not by the end of the chain. *)
print(l) == Answers(<<l, "print", IF count[l] <= Len(nodes(l)) THEN "done" ELSE "fault">>)

search(l, x) ==
  Answers(<<l, "search", IF FirstWith(info, nodes(l), x) # 0 THEN "found" ELSE "missing", x>>)

Running == answer[3] \notin {"aborted", "fault"}
Ended   == ~Running /\ UNCHANGED vars

-----------------------------------------------------------------------------
TypeOK ==
  /\ link \in [DOMAIN info -> Pointer] /\ DOMAIN info \subseteq Address
  /\ info \in [DOMAIN info -> Type]
  /\ first \in [Lists -> Pointer] /\ last \in [Lists -> Pointer]
  /\ count \in [Lists -> Nat]
  /\ answer[3] \in {"done", "value", "found", "missing", "refused", "aborted"}

(* length returns "the number of nodes in the list". *)
CountMatches == \A l \in Lists : count[l] = Len(nodes(l))

(* The three fields of a list object are kept by different branches of     *)
(* every method: `last' must be the end of the chain that starts at        *)
(* `first', and the count, which print goes by, its length.                *)
WellLinked == CountMatches /\ \A l \in Lists :
  /\ Proper(link, first[l])
  /\ last[l] = IF nodes(l) = <<>> THEN null ELSE Last(nodes(l))

(* A node is in one list only, also after copies, and no node is lost:     *)
(* what is in no list was deleted.                                         *)
NodesOwned ==
  /\ \A l, m \in Lists : l # m => NodeSet(l) \cap NodeSet(m) = {}
  /\ DOMAIN link = UNION {NodeSet(l) : l \in Lists}
=============================================================================
