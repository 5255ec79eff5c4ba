----------------------------- MODULE Deviations -----------------------------
(***************************************************************************)
(* What comments of the data structures and of the benchmark promise and   *)
(* the code does not keep.  One promise after the other is tried: from     *)
(* empty objects the operations it is about are called in any order until  *)
(* a state is reached that breaks it, then the next one is.  A behaviour   *)
(* that comes to the end has refuted them all.                             *)
(***************************************************************************)
EXTENDS Integers, Sequences, FiniteSets

CONSTANTS
  Address, Type,                  \* where nodes may be, a finite set of positive numbers; elements
  Keys, Files, Default, MaxRuns,  \* of ResultFile
  DBL_MAX                         \* of WeightedGraphs

VARIABLES
  claims,                             \* what is still to be tried, the first one now
  info, link, link2, head, tail, size, reply, other,   \* as in Structures, and AssignedTree
  disk, pc, key, todo, rslt, run, last,                \* of ResultFile
  algorithm, weights, source, found, smallestWeight, edges, turn, outside   \* of WeightedGraphs

objects == <<info, link, link2, head, tail, size, reply, other>>
results == <<disk, pc, key, todo, rslt, run, last>>
graph   == <<algorithm, weights, source, found, smallestWeight, edges, turn, outside>>

AList == "list"

Stack == INSTANCE UnorderedLinkedList WITH
  Lists <- {AList}, Methods <- {"insertFirst", "pop", "length"}, MaxCount <- Cardinality(Address),
  first <- head, last <- tail, count <- size, answer <- reply
List == INSTANCE ReallocatedList WITH
  Lists <- {AList}, Methods <- {"insertLast", "length"}, MaxCount <- Cardinality(Address),
  first <- head, last <- tail, count <- size, answer <- reply
Doubly == INSTANCE ReallocatedDoublyLinkedList WITH
  next <- link, back <- link2, first <- head, last <- tail, count <- size, answer <- reply
Tree == INSTANCE DuplicateInTree WITH
  lLink <- link, rLink <- link2, root <- head, answer <- reply
TwoTrees == INSTANCE AssignedTree WITH
  lLink <- link, rLink <- link2, root <- head, answer <- reply
File == INSTANCE ResultFile

NoEdge == [e \in (0..1) \X (0..1) |-> DBL_MAX]   \* two vertices, none reaches the other
Graph == INSTANCE WeightedGraphs WITH i <- turn, Weights <- {NoEdge}, SymWeights <- {}

(* The claims, in the order they are tried.                                *)
AllClaims == <<"count of a stack", "count of a moved list", "back of a moved list",
               "nodes of a tree", "copy of a tree", "shortest paths", "measurements">>

Holds(claim) ==
  CASE claim = "count of a stack"      -> Stack!CountMatches
    [] claim = "count of a moved list" -> List!CountMatches
    [] claim = "back of a moved list"  -> Doubly!LastIsLast
    [] claim = "nodes of a tree"       -> Tree!OneTree
    [] claim = "copy of a tree"        -> TwoTrees!CopyStands
    [] claim = "shortest paths"        -> Graph!Determined
    [] claim = "measurements"          -> File!EarlierKept

Init == claims = AllClaims /\ Stack!Init /\ link2 = <<>> /\ other = 0
        /\ Graph!Init /\ File!Init

Use(claim) ==
  \/ claim = "count of a stack" /\ Stack!Next /\ UNCHANGED <<link2, other, graph, results>>
  \/ /\ claim = "count of a moved list" /\ (List!Next \/ List!Moves)
     /\ UNCHANGED <<link2, other, graph, results>>
  \/ /\ claim = "back of a moved list" /\ (Doubly!Next \/ Doubly!Moves)
     /\ UNCHANGED <<other, graph, results>>
  \/ /\ claim = "nodes of a tree" /\ Tree!NextNew
     /\ UNCHANGED <<tail, size, other, graph, results>>
  \/ /\ claim = "copy of a tree" /\ TwoTrees!NextAssigned
     /\ UNCHANGED <<tail, size, graph, results>>
  \/ /\ claim = "shortest paths" /\ (Graph!shortestPath \/ Graph!Over)
     /\ UNCHANGED <<objects, results>>
  \/ claim = "measurements" /\ (File!Next \/ File!Killed) /\ UNCHANGED <<objects, graph>>

(* The claim is broken; the next one is tried with empty objects.          *)
Broken ==
  /\ claims' = Tail(claims)
  /\ info' = <<>> /\ link' = <<>> /\ link2' = <<>> /\ other' = 0
  /\ \E none \in {IF claims[1] = "count of a stack" THEN [l \in {AList} |-> 0] ELSE 0} :
       head' = none /\ tail' = none /\ size' = none
  /\ reply' = <<"", "", "done">>
  /\ UNCHANGED <<graph, results>>

Next ==
  \/ claims # <<>> /\ Holds(claims[1]) /\ Use(claims[1]) /\ UNCHANGED claims
  \/ claims # <<>> /\ ~Holds(claims[1]) /\ Broken

Spec == Init /\ [][Next]_<<claims, objects, graph, results>>

-----------------------------------------------------------------------------
(* Of what the comments say of these operations - the count length         *)
(* returns, the element back returns, no node without a tree, a copy that  *)
(* is one, the weights of shortest paths, measurements that are added -    *)
(* something is true in every state.                                       *)
SomePromiseKept == claims # <<>>
=============================================================================
