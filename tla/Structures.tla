----------------------------- MODULE Structures -----------------------------
(***************************************************************************)
(* The data structures of libs_src/data_structures, any one of them with   *)
(* any sequence of calls.  The linked ones have a module each, here with   *)
(* common names for the links of the nodes and the fields of the objects;  *)
(* the circular array is QueueType, whose names this module extends.       *)
(***************************************************************************)
EXTENDS QueueType, FiniteSets, Sequences

CONSTANTS
  Kinds,       \* the structures, of LinkedKinds and "queueType"
  Addresses,   \* for each linked kind, where nodes may be
  Elements,    \* ... and the elements
  MaxCount     \* bound: insertions into unordered lists happen below this count

LinkedKinds == {"unorderedLinkedList", "stackUnorderedLinkedList", "orderedLinkedList",
                "doublyLinkedList", "linkedStackType", "linkedQueueType", "bSearchTreeType"}

ASSUME StructuresAssumption ==
  /\ Kinds \subseteq LinkedKinds \cup {"queueType"}
  /\ Addresses \in [LinkedKinds -> SUBSET (Nat \ {0})]
  /\ \A k \in LinkedKinds : IsFiniteSet(Addresses[k]) /\ Elements[k] \subseteq Nat
  /\ MaxCount \in Nat

VARIABLES
  kind,         \* which structure it is
  info,         \* the nodes: element,
  link, link2,  \* link, next or lLink; back or rLink
  head, tail,   \* first, stackTop, queueFront or root; last or queueRear
  size,         \* count
  reply         \* the last call and how it ended

node   == <<info, link>>
object == <<head, tail, size>>
linked == <<node, link2, object, reply>>

Objects == {"list", "other"}   \* classes that can be copied have two objects

UnorderedMethods == {"insertFirst", "insertLast", "deleteNode", "destroyList", "assign",
                     "back", "length", "print"}
StackMethods     == {"insertFirst", "pop", "destroyList", "assign"}

List == INSTANCE UnorderedLinkedList WITH
  Lists <- Objects, Methods <- UnorderedMethods,
  Address <- Addresses["unorderedLinkedList"], Type <- Elements["unorderedLinkedList"],
  first <- head, last <- tail, count <- size, answer <- reply
ListStack == INSTANCE UnorderedLinkedList WITH
  Lists <- Objects, Methods <- StackMethods,
  Address <- Addresses["stackUnorderedLinkedList"], Type <- Elements["stackUnorderedLinkedList"],
  first <- head, last <- tail, count <- size, answer <- reply
Ordered == INSTANCE OrderedLinkedList WITH
  Lists <- {"list"},
  Address <- Addresses["orderedLinkedList"], Type <- Elements["orderedLinkedList"],
  first <- head, last <- tail, count <- size, answer <- reply
Doubly == INSTANCE DoublyLinkedList WITH
  Address <- Addresses["doublyLinkedList"], Type <- Elements["doublyLinkedList"],
  next <- link, back <- link2, first <- head, last <- tail, count <- size, answer <- reply
LinkedStack == INSTANCE LinkedStack WITH
  Stacks <- Objects,
  Address <- Addresses["linkedStackType"], Type <- Elements["linkedStackType"],
  stackTop <- head, answer <- reply
LinkedQueue == INSTANCE LinkedQueue WITH
  Address <- Addresses["linkedQueueType"], Type <- Elements["linkedQueueType"],
  queueFront <- head, queueRear <- tail, answer <- reply
Tree == INSTANCE SearchTree WITH
  Address <- Addresses["bSearchTreeType"], Type <- Elements["bSearchTreeType"],
  lLink <- link, rLink <- link2, root <- head, answer <- reply

(* A variable the structure does not have stays as it is. *)
Absent == <<>>

StructInit ==
  /\ kind \in Kinds
  /\ Init /\ (kind # "queueType" => maxQueueSize = DefaultSize)
  /\ \/ /\ kind = "queueType" /\ info = Absent /\ link = Absent /\ link2 = Absent
        /\ head = Absent /\ tail = Absent /\ size = Absent /\ reply = Absent
     \/ kind = "unorderedLinkedList" /\ List!Init /\ link2 = Absent
     \/ kind = "stackUnorderedLinkedList" /\ ListStack!Init /\ link2 = Absent
     \/ kind = "orderedLinkedList" /\ Ordered!Init /\ link2 = Absent
     \/ kind = "doublyLinkedList" /\ Doubly!Init
     \/ /\ kind = "linkedStackType" /\ LinkedStack!Init
        /\ link2 = Absent /\ tail = Absent /\ size = Absent
     \/ kind = "linkedQueueType" /\ LinkedQueue!Init /\ link2 = Absent /\ size = Absent
     \/ kind = "bSearchTreeType" /\ Tree!Init /\ tail = Absent /\ size = Absent

StructNext ==
  /\ UNCHANGED kind
  /\ \/ kind = "queueType" /\ Next /\ UNCHANGED linked
     \/ /\ UNCHANGED vars
        /\ \/ kind = "unorderedLinkedList" /\ List!Next /\ UNCHANGED link2
           \/ kind = "stackUnorderedLinkedList" /\ ListStack!Next /\ UNCHANGED link2
           \/ kind = "orderedLinkedList" /\ Ordered!Next /\ UNCHANGED link2
           \/ kind = "doublyLinkedList" /\ Doubly!Next
           \/ kind = "linkedStackType" /\ LinkedStack!Next /\ UNCHANGED <<link2, tail, size>>
           \/ kind = "linkedQueueType" /\ LinkedQueue!Next /\ UNCHANGED <<link2, size>>
           \/ kind = "bSearchTreeType" /\ Tree!Next /\ UNCHANGED <<tail, size>>

StructSpec == StructInit /\ [][StructNext]_<<vars, kind, linked>>

-----------------------------------------------------------------------------
(* Every field has its type in every structure, also in the stack derived  *)
(* from a list, whose pop may leave `last' at an address without a node.   *)
StructTypeOK ==
  /\ TypeOK
  /\ kind = "unorderedLinkedList" => List!TypeOK
  /\ kind = "stackUnorderedLinkedList" => ListStack!TypeOK
  /\ kind = "orderedLinkedList" => Ordered!TypeOK
  /\ kind = "doublyLinkedList" => Doubly!TypeOK
  /\ kind = "linkedStackType" => LinkedStack!TypeOK
  /\ kind = "linkedQueueType" => LinkedQueue!TypeOK
  /\ kind = "bSearchTreeType" => Tree!TypeOK

(* The fields of the object agree with the chain of nodes, although other  *)
(* branches of other methods keep each of them: the last node, the rear a  *)
(* later insertion writes through, the count print goes by, the links back *)
(* deleteNode finds its way by; in the circular array the rear with front  *)
(* and count.  In a search tree every element is right of all smaller ones *)
(* and left of all larger ones: the loops look at one path and never turn  *)
(* back.  (Not of the stack derived from the list, whose pop leaves two    *)
(* fields behind.)                                                         *)
WellLinked ==
  /\ kind = "queueType" => RearFollows
  /\ kind = "unorderedLinkedList" => List!WellLinked
  /\ kind = "orderedLinkedList" => Ordered!WellLinked
  /\ kind = "doublyLinkedList" => Doubly!LastIsLast /\ Doubly!BothWays
  /\ kind = "linkedQueueType" => LinkedQueue!RearIsLast
  /\ kind = "bSearchTreeType" => Tree!Ordered

(* Every node that was made and not deleted is in one object, once; no     *)
(* link leads to a deleted node, and a copy shares no node with its        *)
(* original.                                                               *)
NodesOwned ==
  /\ kind = "unorderedLinkedList" => List!NodesOwned
  /\ kind = "stackUnorderedLinkedList" => ListStack!NodesOwned
  /\ kind = "orderedLinkedList" => Ordered!NodesOwned
  /\ kind = "doublyLinkedList" => Doubly!NoneLost
  /\ kind = "linkedStackType" => LinkedStack!NodesOwned
  /\ kind = "linkedQueueType" => LinkedQueue!NoneLost
  /\ kind = "bSearchTreeType" => Tree!OneTree

SequenceKinds == LinkedKinds \ {"bSearchTreeType"}

(* The elements an object holds, first to last or top to bottom. *)
contents ==
  CASE kind \in {"unorderedLinkedList", "stackUnorderedLinkedList"} ->
         [l \in Objects |-> List!Values(info, List!nodes(l))]
    [] kind = "orderedLinkedList" ->
         [l \in Objects |-> IF l = "list" THEN List!Values(info, List!nodes(l)) ELSE <<>>]
    [] kind = "linkedStackType" ->
         [l \in Objects |-> List!Values(info, LinkedStack!nodes(l))]
    [] kind \in {"doublyLinkedList", "linkedQueueType"} ->
         [l \in Objects |-> IF l = "list" THEN List!Values(info, Doubly!nodes) ELSE <<>>]

(* Lists, stacks and the linked queue do with their nodes, and answer,     *)
(* what the comments of linkedList.h, stack.h and queue.h say of           *)
(* sequences of elements, each object independent of the other.            *)
Sequence == INSTANCE AbstractList WITH
  Lists <- Objects, Type <- UNION {Elements[k] : k \in SequenceKinds},
  items <- contents, answer <- reply
IsSequence ==
  /\ kind \in SequenceKinds => Sequence!Init
  /\ [][(kind \in SequenceKinds) => Sequence!Next]_linked

(* insert, deleteNode and search of the search tree are those of a set.    *)
Set == INSTANCE AbstractSet WITH
  Type <- Elements["bSearchTreeType"],
  members <- IF kind = "bSearchTreeType" THEN {info[p] : p \in DOMAIN info} ELSE {},
  answer <- IF kind = "bSearchTreeType" THEN reply ELSE <<"", 0, "done">>
IsSet == Set!Spec
=============================================================================
