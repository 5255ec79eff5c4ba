----------------------------- MODULE QueueType -----------------------------
(***************************************************************************)
(* queueType (libs_src/data_structures/queue.h): a queue in a circular     *)
(* array.  One action per method; isEmptyQueue and isFullQueue are the     *)
(* operators of that name.  An assert that fails ends the program.         *)
(***************************************************************************)
EXTENDS Integers

CONSTANTS
  Type,         \* the elements
  QueueSizes,   \* the queueSize a caller may pass to the constructor
  DefaultSize,  \* the size the constructor takes instead of one below 1
  Unset         \* an array entry that nothing was stored in

ASSUME QueueTypeAssumption ==
  /\ QueueSizes \subseteq Int
  /\ DefaultSize \in Nat \ {0}
  /\ Unset \notin Type

VARIABLES
  maxQueueSize, count, queueFront, queueRear,
  list,     \* the array
  answer    \* what the last method returned, or how it ended

vars == <<maxQueueSize, count, queueFront, queueRear, list, answer>>

isEmptyQueue == count = 0

isFullQueue == count = maxQueueSize

Advance(index) == (index + 1) % maxQueueSize

-----------------------------------------------------------------------------
(* The constructor. *)
Init ==
  /\ \E queueSize \in QueueSizes :
       maxQueueSize = IF queueSize <= 0 THEN DefaultSize ELSE queueSize
  /\ queueFront = 0
  /\ queueRear = maxQueueSize - 1
  /\ count = 0
  /\ list = [i \in 0..maxQueueSize - 1 |-> Unset]
  /\ answer = <<"done">>

initializeQueue ==
  /\ queueFront' = 0
  /\ queueRear' = maxQueueSize - 1
  /\ count' = 0
  /\ answer' = <<"done">>
  /\ UNCHANGED <<maxQueueSize, list>>

Refuse == answer' = <<"refused">> /\ UNCHANGED <<count, queueFront, queueRear, list>>

MutStoresFirst(newElement) ==   \* mutant: stores before it advances
  /\ UNCHANGED <<maxQueueSize, queueFront>>
  /\ ~isFullQueue
  /\ queueRear' = Advance(queueRear)
  /\ count' = count + 1
  /\ list' = [list EXCEPT ![queueRear] = newElement]
  /\ answer' = <<"done">>
addQueue(newElement) ==
  /\ UNCHANGED maxQueueSize
  /\ \/ /\ ~isFullQueue
        /\ queueRear' = Advance(queueRear)
        /\ count' = count + 1
        /\ list' = [list EXCEPT ![Advance(queueRear)] = newElement]
        /\ answer' = <<"done">>
        /\ UNCHANGED queueFront
     \/ isFullQueue /\ Refuse

MutRearMoves ==   \* mutant: takes the newest element off
  /\ ~isEmptyQueue
  /\ count' = count - 1
  /\ queueRear' = (queueRear + maxQueueSize - 1) % maxQueueSize
  /\ answer' = <<"done">>
  /\ UNCHANGED <<maxQueueSize, queueFront, list>>
deleteQueue ==
  /\ UNCHANGED maxQueueSize
  /\ \/ /\ ~isEmptyQueue
        /\ count' = count - 1
        /\ queueFront' = Advance(queueFront)
        /\ answer' = <<"done">>
        /\ UNCHANGED <<queueRear, list>>
     \/ isEmptyQueue /\ Refuse

front ==
  /\ answer' = IF isEmptyQueue THEN <<"aborted">> ELSE <<"value", list[queueFront]>>
  /\ UNCHANGED <<maxQueueSize, count, queueFront, queueRear, list>>

back ==
  /\ answer' = IF isEmptyQueue THEN <<"aborted">> ELSE <<"value", list[queueRear]>>
  /\ UNCHANGED <<maxQueueSize, count, queueFront, queueRear, list>>

Running == answer # <<"aborted">>
Ended   == ~Running /\ UNCHANGED vars

Next ==
  \/ /\ Running
     /\ \/ initializeQueue \/ deleteQueue \/ front \/ back
        \/ \E x \in Type : addQueue(x)
  \/ Ended

Spec == Init /\ [][Next]_vars

-----------------------------------------------------------------------------
Answers == {<<"done">>, <<"refused">>, <<"aborted">>} \cup {<<"value", x>> : x \in Type}

TypeOK ==
  /\ maxQueueSize \in Nat \ {0}
  /\ count \in 0..maxQueueSize
  /\ queueFront \in 0..maxQueueSize - 1
  /\ queueRear \in 0..maxQueueSize - 1
  /\ list \in [0..maxQueueSize - 1 -> Type \cup {Unset}]
  /\ answer \in Answers

(* The entry of the k-th element, counted from the front. *)
Entry(k) == (queueFront + k - 1) % maxQueueSize

(* Front and rear are moved by different methods and each wraps by itself; *)
(* the entry after the rear must stay count entries behind the front, also *)
(* across initializeQueue and when the queue is empty or full.             *)
RearFollows == Advance(queueRear) = (queueFront + count) % maxQueueSize

(* Every element of the queue is one that was added: no method reads an    *)
(* entry of the array before something was stored to it, although          *)
(* initializeQueue and deleteQueue leave the entries as they are.          *)
OnlyStored == \A k \in 1..count : list[Entry(k)] \in Type

(* The circular array is a first-in first-out sequence with the answers of *)
(* queueADT: it refuses an element only when maxQueueSize are in it, and   *)
(* ends the program only when asked for an element it does not have.       *)
Queue == INSTANCE Fifo WITH
  items    <- [k \in 1..count |-> list[Entry(k)]],
  capacity <- maxQueueSize
IsFifo == Queue!Spec
=============================================================================
