---------------------------- MODULE LinkedQueue ----------------------------
(***************************************************************************)
(* linkedQueueType (libs_src/data_structures/linkedQueue.h).  Elements are *)
(* added in nodes made by `new' or at the caller's address.                *)
(***************************************************************************)
EXTENDS Nodes

VARIABLES
  info, link,              \* the nodes
  queueFront, queueRear,   \* the queue
  answer                   \* the last call: queue, method, how it ended and with what

vars == <<info, link, queueFront, queueRear, answer>>

Queue == "list"   \* the one queue object

Init ==
  /\ info = <<>> /\ link = <<>>
  /\ queueFront = null /\ queueRear = null
  /\ answer = <<"", "", "done">>

nodes == Chain(link, queueFront)
isEmptyQueue == queueFront = null

-----------------------------------------------------------------------------
initializeQueue ==
  /\ info' = Without(info, ToSet(nodes)) /\ link' = Without(link, ToSet(nodes))
  /\ queueFront' = null /\ queueRear' = null
  /\ answer' = <<Queue, "destroyList", "done">>

addQueue(x, a) ==
  /\ a \notin DOMAIN link
  /\ info' = With(info, a, x)
  /\ \/ /\ isEmptyQueue
        /\ link' = With(link, a, null)
        /\ queueFront' = a
     \/ /\ ~isEmptyQueue
        /\ link' = With([link EXCEPT ![queueRear] = a], a, null)
        /\ UNCHANGED queueFront
  /\ queueRear' = a
  /\ answer' = <<Queue, "insertLast", "done", x>>

deleteQueue ==
  \/ /\ ~isEmptyQueue
     /\ info' = Without(info, {queueFront}) /\ link' = Without(link, {queueFront})
     /\ queueFront' = link[queueFront]
     /\ queueRear' = IF link[queueFront] = null THEN null ELSE queueRear
     /\ answer' = <<Queue, "pop", "done">>
  \/ /\ isEmptyQueue
     /\ answer' = <<Queue, "pop", "refused">>
     /\ UNCHANGED <<info, link, queueFront, queueRear>>

Answers(a) == answer' = a /\ UNCHANGED <<info, link, queueFront, queueRear>>

EndOf(method, p) ==
  Answers(IF p = null THEN <<Queue, method, "aborted">> ELSE <<Queue, method, "value", info[p]>>)

front == EndOf("front", queueFront)
back  == EndOf("back", queueRear)

search(x) == Answers(<<Queue, "search", IF FirstWith(info, nodes, x) # 0 THEN "found" ELSE "missing", x>>)

Running == answer[3] # "aborted"
Ended   == ~Running /\ UNCHANGED vars

Next ==
  \/ /\ Running
     /\ \/ initializeQueue \/ deleteQueue \/ front \/ back
        \/ \E x \in Type : search(x)
        \/ \E x \in Type, a \in Address : addQueue(x, a)
  \/ Ended

-----------------------------------------------------------------------------
TypeOK ==
  /\ link \in [DOMAIN info -> Pointer] /\ DOMAIN info \subseteq Address
  /\ info \in [DOMAIN info -> Type]
  /\ queueFront \in Pointer /\ queueRear \in Pointer
  /\ answer[3] \in {"done", "value", "found", "missing", "refused", "aborted"}

(* front tests queueFront and back queueRear: both must be null together,  *)
(* and the rear, which addQueue writes through, the last node of the chain *)
(* -- never one that deleteQueue or initializeQueue deleted.               *)
RearIsLast ==
  /\ Proper(link, queueFront)
  /\ queueRear = IF nodes = <<>> THEN null ELSE Last(nodes)

(* Every node ever added is in the queue or was deleted. *)
NoneLost == DOMAIN link = ToSet(nodes)
=============================================================================
