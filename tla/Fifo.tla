-------------------------------- MODULE Fifo --------------------------------
(***************************************************************************)
(* What queueADT (libs_src/data_structures/queue.h) promises: a sequence   *)
(* that grows at one end and shrinks at the other, and an answer to every  *)
(* call.  A call that cannot be served is refused with a message and       *)
(* changes nothing; asking an empty queue for an element ends the program. *)
(***************************************************************************)
EXTENDS Sequences, Integers

CONSTANT Type

VARIABLES
  items,     \* the elements, oldest first
  capacity,  \* how many fit; -1 when there is no limit
  answer     \* the answer to the last call

fifo == <<items, capacity, answer>>

Contains(x) == \E i \in 1..Len(items) : items[i] = x

Init == items = <<>> /\ capacity \in Int /\ answer = <<"done">>

initializeQueue == items' = <<>> /\ answer' = <<"done">> /\ UNCHANGED capacity

addQueue(x) ==
  /\ UNCHANGED capacity
  /\ \/ Len(items) # capacity /\ items' = Append(items, x) /\ answer' = <<"done">>
     \/ Len(items) = capacity /\ items' = items /\ answer' = <<"refused">>

deleteQueue ==
  /\ UNCHANGED capacity
  /\ \/ items # <<>> /\ items' = Tail(items) /\ answer' = <<"done">>
     \/ items = <<>> /\ items' = items /\ answer' = <<"refused">>

front ==
  /\ UNCHANGED <<items, capacity>>
  /\ answer' = IF items = <<>> THEN <<"aborted">> ELSE <<"value", items[1]>>

back ==
  /\ UNCHANGED <<items, capacity>>
  /\ answer' = IF items = <<>> THEN <<"aborted">> ELSE <<"value", items[Len(items)]>>

search(x) ==
  /\ UNCHANGED <<items, capacity>>
  /\ answer' = IF Contains(x) THEN <<"found", x>> ELSE <<"missing", x>>

Next ==
  /\ answer # <<"aborted">>
  /\ \/ initializeQueue \/ deleteQueue \/ front \/ back
     \/ \E x \in Type : addQueue(x) \/ search(x)

Spec == Init /\ [][Next]_fifo
=============================================================================
