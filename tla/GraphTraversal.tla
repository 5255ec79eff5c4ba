--------------------------- MODULE GraphTraversal ---------------------------
(***************************************************************************)
(* graphType (libs_src/data_structures/graph.h): an array of adjacency     *)
(* lists read from a file, and the traversals that put its vertices out.   *)
(* The lists and the queue are the ones of UnorderedLinkedList and         *)
(* LinkedQueue, here as the sequences those modules show them to be.       *)
(***************************************************************************)
EXTENDS Integers, Sequences, FiniteSets, SequencesExt, Functions

CONSTANT Graphs   \* what the files may hold: a list of vertices per vertex

VARIABLES
  graph,     \* the adjacency lists, one for each vertex below gSize
  running,   \* the traversal called, or "none"
  index,     \* the next vertex that may start a tree
  visited,   \* the vertices with visited[v]
  calls,     \* the lists being walked: the vertex and what is left, innermost first
  queue,     \* breadthFirstTraversal's queue
  printed    \* the vertices put out

Walk == <<running, index, visited, calls, queue, printed>>

Vertex == DOMAIN graph
gSize  == Cardinality(Vertex)
Empty  == <<>>

Init ==
  /\ graph = Empty
  /\ running = "none" /\ index = 0 /\ visited = {}
  /\ calls = <<>> /\ queue = <<>> /\ printed = <<>>

-----------------------------------------------------------------------------
(* createGraph: the graph there is is cleared before the file is opened;   *)
(* with no such file it stays cleared.                                     *)
createGraph ==
  /\ running = "none"
  /\ graph' \in Graphs \cup {Empty}
  /\ UNCHANGED Walk

clearGraph ==
  /\ running = "none"
  /\ graph' = Empty
  /\ UNCHANGED Walk

(* The first lines of a traversal: nothing is visited. *)
depthFirstTraversal ==
  /\ running = "none"
  /\ running' = "depth" /\ index' = 0
  /\ UNCHANGED <<graph, visited, calls, queue, printed>>

breadthFirstTraversal ==
  /\ running = "none"
  /\ running' = "breadth" /\ index' = 0
  /\ UNCHANGED <<graph, visited, calls, queue, printed>>

(* dft, called where the lists `outer' are being walked: the vertex is     *)
(* marked and put out, and its list begins.                                *)
dft(v, outer) ==
  /\ visited' = visited \cup {v}
  /\ printed' = Append(printed, v)
  /\ calls' = <<[vertex |-> v, left |-> graph[v]]>> \o outer
  /\ UNCHANGED queue

dftAtVertex(v) ==
  /\ running = "none"
  /\ running' = "at" /\ index' = gSize
  /\ dft(v, <<>>)
  /\ UNCHANGED graph

(* A vertex met by breadthFirstTraversal. *)
MutNotMarked(v) ==   \* mutant: forgets to mark it
  /\ queue' = Append(queue, v)
  /\ visited' = visited
  /\ printed' = Append(printed, v)
Enqueue(v) ==
  /\ queue' = Append(queue, v)
  /\ visited' = visited \cup {v}
  /\ printed' = Append(printed, v)

-----------------------------------------------------------------------------
(* A step of the loop over the vertices. *)
NextRoot ==
  /\ running # "none" /\ calls = <<>> /\ queue = <<>> /\ index < gSize
  /\ index' = index + 1
  /\ IF index \in visited THEN UNCHANGED <<visited, printed, calls, queue>>
     ELSE \/ running = "depth" /\ dft(index, calls)
          \/ running = "breadth" /\ Enqueue(index) /\ UNCHANGED calls
  /\ UNCHANGED <<graph, running>>

Advanced == [calls EXCEPT ![1].left = Tail(@)]

(* A step of the loop over an adjacency list. *)
MutWaits ==   \* mutant: the iterator moves only past a new vertex
  /\ calls # <<>> /\ calls[1].left # <<>>
  /\ \E w \in {calls[1].left[1]} :
       \/ w \in visited /\ calls' = calls /\ UNCHANGED <<visited, printed, queue>>
       \/ w \notin visited /\ running = "breadth" /\ calls' = Advanced /\ Enqueue(w)
       \/ w \notin visited /\ running # "breadth" /\ dft(w, Advanced)
  /\ UNCHANGED <<graph, running, index>>
Adjacent ==
  /\ calls # <<>> /\ calls[1].left # <<>>
  /\ \E w \in {calls[1].left[1]} :
       \/ w \in visited /\ calls' = Advanced /\ UNCHANGED <<visited, printed, queue>>
       \/ w \notin visited /\ running = "breadth" /\ calls' = Advanced /\ Enqueue(w)
       \/ w \notin visited /\ running # "breadth" /\ dft(w, Advanced)
  /\ UNCHANGED <<graph, running, index>>

(* The end of a list: dft returns, or the while loop goes on. *)
ListEnds ==
  /\ calls # <<>> /\ calls[1].left = <<>>
  /\ calls' = Tail(calls)
  /\ UNCHANGED <<graph, running, index, visited, queue, printed>>

(* The while loop of breadthFirstTraversal. *)
Dequeue ==
  /\ calls = <<>> /\ queue # <<>>
  /\ calls' = <<[vertex |-> queue[1], left |-> graph[queue[1]]]>>
  /\ queue' = Tail(queue)
  /\ UNCHANGED <<graph, running, index, visited, printed>>

Finished == running # "none" /\ calls = <<>> /\ queue = <<>> /\ index >= gSize

Return ==
  /\ Finished
  /\ running' = "none" /\ index' = 0 /\ visited' = {}
  /\ printed' = <<>>
  /\ UNCHANGED <<graph, calls, queue>>

Step == NextRoot \/ Adjacent \/ ListEnds \/ Dequeue \/ Return

-----------------------------------------------------------------------------
Edge(v, w) == \E i \in 1..Len(graph[v]) : graph[v][i] = w

(* The smallest set with v that no edge leaves. *)
Reach(v) ==
  CHOOSE S \in SUBSET Vertex :
    /\ v \in S
    /\ \A u \in S : \A w \in Vertex : Edge(u, w) => w \in S
    /\ \A T \in SUBSET Vertex :
         (v \in T /\ \A u \in T : \A w \in Vertex : Edge(u, w) => w \in T) => S \subseteq T

(* No vertex is put out twice, however many lists name it. *)
EachOnce == IsInjective(printed)

(* A traversal that ends has put out every vertex, dftAtVertex every one   *)
(* that can be reached.                                                    *)
AllReached ==
  Finished => ToSet(printed) = IF running = "at" THEN Reach(printed[1]) ELSE Vertex

Positions == 1..Len(printed)
Leads(i, j) == Edge(printed[i], printed[j])

(* Breadth first, said of the order alone: a vertex is passed over for a   *)
(* later one only if a still earlier vertex leads to it.                   *)
BreadthFirst ==
  running = "breadth" =>
    \A i, j, k \in Positions :
      (i < j /\ j < k /\ Leads(i, k) /\ ~Leads(i, j)) => \E h \in 1..(i - 1) : Leads(h, j)

(* Depth first: a vertex comes before one that an earlier vertex leads to  *)
(* only if a vertex in between leads to it.                                *)
DepthFirst ==
  running \in {"depth", "at"} =>
    \A i, j, k \in Positions :
      (i < j /\ j < k /\ Leads(i, k) /\ ~Leads(i, j)) => \E h \in (i + 1)..(j - 1) : Leads(h, j)
=============================================================================
