----------------------------- MODULE Traversals -----------------------------
(***************************************************************************)
(* The loops of the repository that walk a linked structure or a graph to  *)
(* their end, any one of them: the traversals of binaryTree.h and graph.h, *)
(* shortestPath and minimalSpanning, and the benchmarks over dispersed     *)
(* nodes.  Each has a module of its own.                                   *)
(***************************************************************************)
EXTENDS Integers, Sequences, FiniteSets, SequencesExt

CONSTANTS
  Programs,               \* which of them, of AllPrograms
  MaxNodes,               \* TreeTraversal: bound on the nodes of a tree
  Graphs,                 \* GraphTraversal
  DBL_MAX,
  Weights, SymWeights,    \* WeightedGraphs
  Address,                \* Dispersed: the allocator's blocks
  heads, nodes

AllPrograms == {"binaryTreeType", "graphType", "weightedGraphType", "dispersed"}

ASSUME TraversalsAssumption ==
  /\ Programs \subseteq AllPrograms /\ MaxNodes \in Nat /\ DBL_MAX \in Nat
  /\ \A g \in Graphs :
       /\ DOMAIN g = 0..(Cardinality(DOMAIN g) - 1)
       /\ \A v \in DOMAIN g : g[v] \in Seq(DOMAIN g)
  /\ \A w \in Weights \cup SymWeights :
       \E n \in 1..5 : w \in [(0..(n - 1)) \X (0..(n - 1)) -> 0..DBL_MAX]
  /\ \A w \in SymWeights : \A e \in DOMAIN w : w[e] = w[<<e[2], e[1]>>]
  /\ Address \subseteq Nat \ {0} /\ heads \in Nat \ {0} /\ nodes \in Nat

VARIABLES
  program,                                                \* which one runs
  root, order, current, stack, printed,                   \* TreeTraversal
  graph, running, index, visited, calls, queue, put,      \* GraphTraversal
  algorithm, weights, source, found, smallestWeight, edges, turn, outside,   \* WeightedGraphs
  kind, allocated, headsP, info, at8, at16, first, last, i, j, to_delete, pc   \* Dispersed

tree      == <<root, order, current, stack, printed>>
traversed == <<graph, running, index, visited, calls, queue, put>>
weighted  == <<algorithm, weights, source, found, smallestWeight, edges, turn, outside>>
dispersed == <<kind, allocated, headsP, info, at8, at16, first, last, i, j, to_delete, pc>>
vars      == <<program, tree, traversed, weighted, dispersed>>

Tree      == INSTANCE TreeTraversal WITH Orders <- {"in", "pre"}
Graph     == INSTANCE GraphTraversal WITH printed <- put
Weighted  == INSTANCE WeightedGraphs WITH i <- turn
Dispersed == INSTANCE Dispersed WITH
  Kinds <- {"last", "first", "sorted", "tree"}, Type <- 0..heads * nodes

(* The variables of the programs that do not run. *)
Idle == <<>>
NoTree  == root = Idle /\ order = Idle /\ current = Idle /\ stack = Idle /\ printed = Idle
NoGraph ==
  /\ graph = Idle /\ running = Idle /\ index = Idle /\ visited = Idle /\ calls = Idle
  /\ queue = Idle /\ put = Idle
NoWeights ==
  /\ algorithm = Idle /\ weights = Idle /\ source = Idle /\ found = Idle
  /\ smallestWeight = Idle /\ edges = Idle /\ turn = Idle /\ outside = Idle
NotDispersed ==
  /\ kind = Idle /\ allocated = Idle /\ headsP = Idle /\ info = Idle /\ at8 = Idle /\ at16 = Idle
  /\ first = Idle /\ last = Idle /\ i = Idle /\ j = Idle /\ to_delete = Idle /\ pc = Idle

Init ==
  /\ program \in Programs
  /\ IF program = "binaryTreeType" THEN Tree!Init ELSE NoTree
  /\ IF program = "graphType" THEN Graph!Init ELSE NoGraph
  /\ IF program = "weightedGraphType" THEN Weighted!Init ELSE NoWeights
  /\ IF program = "dispersed" THEN Dispersed!Init ELSE NotDispersed

(* What goes on once a walk has begun: the turns of its loops. *)
Goes ==
  /\ UNCHANGED program
  /\ \/ /\ program = "binaryTreeType" /\ (Tree!Down \/ Tree!Back)
        /\ UNCHANGED <<traversed, weighted, dispersed>>
     \/ /\ program = "graphType" /\ Graph!Step
        /\ UNCHANGED <<tree, weighted, dispersed>>
     \/ /\ program = "weightedGraphType" /\ (Weighted!shortestPath \/ Weighted!minimalSpanning)
        /\ UNCHANGED <<tree, traversed, dispersed>>
     \/ /\ program = "dispersed" /\ Dispersed!Step
        /\ UNCHANGED <<tree, traversed, weighted>>

(* What the caller of graphType begins. *)
Begins ==
  /\ program = "graphType"
  /\ \/ Graph!createGraph \/ Graph!clearGraph
     \/ Graph!depthFirstTraversal \/ Graph!breadthFirstTraversal
     \/ \E v \in Graph!Vertex : Graph!dftAtVertex(v)
  /\ UNCHANGED <<program, tree, weighted, dispersed>>

Finished ==
  CASE program = "binaryTreeType" -> Tree!Finished
    [] program = "graphType" -> running = "none"
    [] program = "weightedGraphType" -> Weighted!Finished
    [] program = "dispersed" -> pc = "done"

Over == Finished /\ program # "graphType" /\ UNCHANGED vars

Next == Goes \/ Begins \/ Over

Spec == Init /\ [][Next]_vars /\ WF_vars(Goes)

-----------------------------------------------------------------------------
(* What is put out comes in the order the traversal promises, each vertex  *)
(* or node once and none forgotten: the order of the recursive traversal   *)
(* of a tree, breadth first or depth first in a graph.                     *)
VisitOrder ==
  /\ program = "binaryTreeType" => Tree!SameOrder
  /\ program = "graphType" =>
       Graph!EachOnce /\ Graph!AllReached /\ Graph!BreadthFirst /\ Graph!DepthFirst

(* The stack of a tree traversal never holds more nodes than the tree is   *)
(* high: of a node whose left side is done only its right side is left.    *)
StackWithinHeight == program = "binaryTreeType" => Tree!StackWithinHeight

(* shortestPath, where it does not leave its arrays, ends with the weights *)
(* of shortest paths, and reaches the vertices nearest first.              *)
ShortestWeights ==
  program = "weightedGraphType" => Weighted!ShortestWeights /\ Weighted!NearestFirst

(* minimalSpanning ends with a spanning tree that none is lighter than.    *)
MinimalTree == program = "weightedGraphType" => Weighted!MinimalTree

(* The benchmark over dispersed nodes touches every node in its search     *)
(* ("Linear First Access") and then, going by offset 8 whatever the        *)
(* structure, reads no freed node and gives back every block.              *)
AllFreed ==
  program = "dispersed" => Dispersed!NoFault /\ Dispersed!TouchesAll /\ Dispersed!AllFreed

(* Every walk that was begun ends, in graphs with cycles too; of a call of *)
(* shortestPath that leaves its arrays nothing is said.                    *)
Terminates == ~Finished ~> Finished
=============================================================================
