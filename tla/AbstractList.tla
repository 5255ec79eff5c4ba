---------------------------- MODULE AbstractList ----------------------------
(***************************************************************************)
(* What the comments of linkedList.h and stack.h promise: list objects     *)
(* that each hold a sequence of elements, independent of each other.       *)
(***************************************************************************)
EXTENDS Integers, SequencesExt

CONSTANTS Lists, Type

VARIABLES
  items,   \* the elements of every list
  answer   \* the last call: the list, the method, how it ended and with what

Init == items = [l \in Lists |-> <<>>] /\ answer = <<"", "", "done">>

Position(l, x) == SelectInSeq(items[l], LAMBDA y : y = x)

Becomes(l, s) == items' = [items EXCEPT ![l] = s]
Answers(a)    == answer' = a
Keeps         == UNCHANGED items

destroyList(l)    == Answers(<<l, "destroyList", "done">>) /\ Becomes(l, <<>>)
assign(l, other)  == Answers(<<l, "assign", "done", other>>) /\ Becomes(l, items[other])
insertFirst(l, x) == Answers(<<l, "insertFirst", "done", x>>) /\ Becomes(l, <<x>> \o items[l])
insertLast(l, x)  == Answers(<<l, "insertLast", "done", x>>) /\ Becomes(l, Append(items[l], x))

(* Sorted lists: in front of the first element that is not smaller. *)
insert(l, x) ==
  /\ Answers(<<l, "insert", "done", x>>)
  /\ \E k \in 1..Len(items[l]) + 1 :
       /\ \A i \in 1..k - 1 : items[l][i] < x
       /\ k <= Len(items[l]) => items[l][k] >= x
       /\ Becomes(l, InsertAt(items[l], k, x))

deleteNode(l, x) ==
  \/ /\ Answers(<<l, "deleteNode", "done", x>>)
     /\ Position(l, x) # 0
     /\ Becomes(l, RemoveAt(items[l], Position(l, x)))
  \/ /\ Answers(<<l, "deleteNode", "refused", x>>)
     /\ Position(l, x) = 0
     /\ Keeps

pop(l)      == Answers(<<l, "pop", "done">>) /\ items[l] # <<>> /\ Becomes(l, Tail(items[l]))
popEmpty(l) == Answers(<<l, "pop", "refused">>) /\ items[l] = <<>> /\ Keeps

EndOf(l, method, end(_)) ==
  \/ Answers(<<l, method, "aborted">>) /\ items[l] = <<>> /\ Keeps
  \/ answer'[2] = method /\ items[l] # <<>> /\ Answers(<<l, method, "value", end(items[l])>>) /\ Keeps
front(l)     == EndOf(l, "front", Head)
back(l)      == EndOf(l, "back", Last)
length(l)    == answer'[2] = "length" /\ Answers(<<l, "length", "value", Len(items[l])>>) /\ Keeps
print(l)     == Answers(<<l, "print", "done">>) /\ Keeps
search(l, x) ==
  \/ Answers(<<l, "search", "found", x>>) /\ Position(l, x) # 0 /\ Keeps
  \/ Answers(<<l, "search", "missing", x>>) /\ Position(l, x) = 0 /\ Keeps

Next ==
  \E l \in Lists :
    \/ destroyList(l) \/ front(l) \/ back(l) \/ length(l) \/ print(l) \/ pop(l) \/ popEmpty(l)
    \/ \E x \in Type : \/ insertFirst(l, x) \/ insertLast(l, x) \/ insert(l, x)
                       \/ deleteNode(l, x) \/ search(l, x)
    \/ \E other \in Lists : assign(l, other)
=============================================================================
