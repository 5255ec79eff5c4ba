-------------------- MODULE ReallocatedDoublyLinkedList --------------------
(***************************************************************************)
(* update of doublyLinkedList.h: what the owner of a list calls after      *)
(* vcrealloc has moved the array its nodes are in.                         *)
(***************************************************************************)
EXTENDS DoublyLinkedList

(* The array was moved to addr with all its fields hold.  The nodes 1 to   *)
(* count - 2 get both links anew, the first its `next', and `last' becomes *)
(* the place behind the array, whatever that holds, less one in its back   *)
(* link.                                                                   *)
update(addr) ==
  \E c \in {nodes}, end \in {addr + count}, unset \in Type, unlinked \in Pointer :
    /\ c # <<>> /\ \A k \in 1..Len(c) : c[k] = first + k - 1
    /\ addr..end \subseteq Address
    /\ \E Was \in {[a \in addr..end - 1 |-> first + (a - addr)]} :
         /\ info' = [a \in addr..end |-> IF a = end THEN unset ELSE info[Was[a]]]
         /\ next' = [a \in addr..end |-> IF a = addr \/ a < end - 1 THEN a + 1
                                         ELSE IF a = end THEN unlinked ELSE next[Was[a]]]
         /\ back' = [a \in addr..end |-> IF a = end THEN unlinked - 1
                                         ELSE IF a \in addr + 1..end - 2 THEN a - 1
                                         ELSE back[Was[a]]]
    /\ first' = addr /\ last' = end
    /\ answer' = <<List, "update", "done", addr>>
    /\ UNCHANGED count

Moves == Running /\ \E addr \in Address : update(addr)
=============================================================================
