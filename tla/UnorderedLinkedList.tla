------------------------ MODULE UnorderedLinkedList ------------------------
(***************************************************************************)
(* unorderedLinkedList (libs_src/data_structures/unorderedLinkedList.h)    *)
(* and the stack derived from it (stackUnorderedLinkedList.h).  A node is  *)
(* made by `new' or at the address the caller gives: any free address.     *)
(***************************************************************************)
EXTENDS LinkedList

CONSTANTS
  Methods,    \* the methods the caller uses: see Uses below
  MaxCount    \* bound: insertions happen below this count, which pop never lowers

Uses(m) == m \in Methods

NewNode(l, a, x, next) ==
  /\ a \notin DOMAIN link /\ info' = With(info, a, x) /\ link' = next
  /\ count[l] < MaxCount /\ count' = [count EXCEPT ![l] = @ + 1]

insertFirst(l, x, a) ==
  /\ Uses("insertFirst")
  /\ NewNode(l, a, x, With(link, a, first[l]))
  /\ first' = [first EXCEPT ![l] = a]
  /\ last'  = IF last[l] = null THEN [last EXCEPT ![l] = a] ELSE last
  /\ answer' = <<l, "insertFirst", "done", x>>

insertLast(l, x, a) ==
  /\ Uses("insertLast")
  /\ \/ /\ isEmptyList(l)
        /\ NewNode(l, a, x, With(link, a, null))
        /\ first' = [first EXCEPT ![l] = a]
     \/ /\ ~isEmptyList(l)
        /\ NewNode(l, a, x, With([link EXCEPT ![last[l]] = a], a, null))
        /\ UNCHANGED first
  /\ last'  = [last EXCEPT ![l] = a]
  /\ answer' = <<l, "insertLast", "done", x>>

(* Cases 2 and 3 of deleteNode: the node is the first one or a later one. *)
MutCountsDown(l, x) ==   \* mutant: counts a deletion that found nothing
  /\ Uses("deleteNode")
  /\ FirstWith(info, nodes(l), x) = 0
  /\ count' = [count EXCEPT ![l] = @ - 1]
  /\ answer' = <<l, "deleteNode", "refused", x>>
  /\ UNCHANGED <<info, link, first, last>>
deleteNode(l, x) ==
  /\ Uses("deleteNode")
  /\ \E c \in {nodes(l)} : \E k \in {FirstWith(info, c, x)} :
       \/ k = 0 /\ Answers(<<l, "deleteNode", "refused", x>>)
       \/ /\ k # 0
          /\ info' = Without(info, {c[k]})
          /\ link' = Without(IF k = 1 THEN link ELSE [link EXCEPT ![c[k - 1]] = link[c[k]]], {c[k]})
          /\ first' = IF k = 1 THEN [first EXCEPT ![l] = link[c[1]]] ELSE first
          /\ last' = [last EXCEPT ![l] = IF k = 1 /\ link[c[1]] = null THEN null
                                         ELSE IF k > 1 /\ @ = c[k] THEN c[k - 1] ELSE @]
          /\ count' = [count EXCEPT ![l] = @ - 1]
          /\ answer' = <<l, "deleteNode", "done", x>>

(* stackUnorderedLinkedList: push is insertFirst, top front, initializeStack *)
(* destroyList.  pop has the precondition that the stack is not empty.     *)
pop(l) ==
  /\ Uses("pop") /\ ~isEmptyList(l)
  /\ info'  = Without(info, {first[l]})
  /\ link'  = Without(link, {first[l]})
  /\ first' = [first EXCEPT ![l] = link[first[l]]]
  /\ answer' = <<l, "pop", "done">>
  /\ UNCHANGED <<last, count>>

-----------------------------------------------------------------------------
Next ==
  \/ /\ Running
     /\ \E l \in Lists :
          \/ Uses("destroyList") /\ destroyList(l)
          \/ Uses("back") /\ back(l)
          \/ Uses("length") /\ length(l)
          \/ Uses("print") /\ print(l)
          \/ front(l) \/ pop(l)
          \/ \E x \in Type : deleteNode(l, x) \/ search(l, x)
          \/ \E x \in Type, a \in Address : insertFirst(l, x, a) \/ insertLast(l, x, a)
          \/ \E other \in Lists : Uses("assign") /\ assign(l, other)
  \/ Ended
=============================================================================
