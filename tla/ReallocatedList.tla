-------------------------- MODULE ReallocatedList --------------------------
(***************************************************************************)
(* update of unorderedLinkedList.h: what the owner of a list calls after   *)
(* vcrealloc has moved the array its nodes are in.                         *)
(***************************************************************************)
EXTENDS UnorderedLinkedList

(* The array was moved to newHead with what it held, and the links are set *)
(* anew: node by node, starting from the count.                            *)
update(l, newHead) ==
  /\ ~isEmptyList(l)
  /\ \A k \in 1..Len(nodes(l)) : nodes(l)[k] = first[l] + k - 1
  /\ newHead..newHead + count[l] - 1 \subseteq Address \ (DOMAIN link \ NodeSet(l))
  /\ \E end \in {newHead + count[l]}, others \in {DOMAIN link \ NodeSet(l)}, unset \in Type :
       /\ info' = [a \in others \cup newHead..end |->
                     IF a \in others THEN info[a]
                     ELSE IF a = end THEN unset ELSE info[first[l] + (a - newHead)]]
       /\ link' = [a \in others \cup newHead..end |->
                     IF a = end THEN null ELSE IF a \in others THEN link[a] ELSE a + 1]
       /\ last' = [last EXCEPT ![l] = end]
  /\ first' = [first EXCEPT ![l] = newHead]
  /\ answer' = <<l, "update", "done", newHead>>
  /\ UNCHANGED count

Moves == Running /\ \E l \in Lists, newHead \in Address : update(l, newHead)
=============================================================================
