---------------------------- MODULE MCStructures ----------------------------
(***************************************************************************)
(* Two lists, or two stacks derived from a list, over three addresses, and *)
(* two linked stacks over four, so that a copy of two nodes has room       *)
(* beside its original; one object of the others.  MaxCount is the number  *)
(* of addresses, so it bounds the pushes of the derived stack only.        *)
(* Sorted lists of three elements have a first, a last and one in between. *)
(* A tree of five nodes is the smallest in which the predecessor of a      *)
(* deleted node is not its child and has a subtree of its own.             *)
(***************************************************************************)
EXTENDS Structures

MCQueueSizes == -1..4

MCAddresses == [k \in LinkedKinds |->
  CASE k = "bSearchTreeType" -> 1..5
    [] k \in {"unorderedLinkedList", "stackUnorderedLinkedList"} -> 1..3
    [] OTHER -> 1..4]

MCElements == [k \in LinkedKinds |->
  CASE k = "bSearchTreeType" -> 1..5
    [] k \in {"orderedLinkedList", "doublyLinkedList"} -> 1..3
    [] OTHER -> 1..2]
=============================================================================
