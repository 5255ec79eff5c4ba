--------------------------- MODULE WeightedGraphs ---------------------------
(***************************************************************************)
(* weightedGraphType::shortestPath and msTreeType::minimalSpanning         *)
(* (libs_src/data_structures/graph.h): one step is one turn of the outer   *)
(* loop.  A missing edge weighs DBL_MAX.                                   *)
(***************************************************************************)
EXTENDS Integers, Sequences, FiniteSets, FiniteSetsExt, SequencesExt, Functions

CONSTANTS
  DBL_MAX,
  Weights,     \* the weight matrices shortestPath is given
  SymWeights   \* those minimalSpanning is given: of undirected connected graphs

VARIABLES
  algorithm,        \* "shortest" or "spanning"
  weights,          \* the matrix
  source,           \* the vertex given
  found,            \* weightFound, mstv: the vertices dealt with
  smallestWeight,   \* smallestWeight, edgeWeights
  edges,            \* the other end of the edge to a vertex
  i,                \* turns done
  outside           \* the arrays were indexed outside of their bounds

Vertex == {e[1] : e \in DOMAIN weights}
gSize  == Cardinality(Vertex)

(* The loops in front: the edges from the source. *)
Init ==
  /\ algorithm \in {"shortest", "spanning"}
  /\ weights \in IF algorithm = "shortest" THEN Weights ELSE SymWeights
  /\ source \in Vertex
  /\ found = {source}
  /\ smallestWeight = [v \in Vertex |-> IF v = source THEN 0 ELSE weights[source, v]]
  /\ edges = [v \in Vertex |-> source]
  /\ i = 0
  /\ outside = FALSE

-----------------------------------------------------------------------------
Open == Vertex \ found

(* The search for the smallest: the first of the smallest, in index order, *)
(* if any is below DBL_MAX.                                                *)
Candidates == {j \in Open : smallestWeight[j] < DBL_MAX}
Smallest ==
  {j \in Candidates : \A k \in Candidates :
     smallestWeight[j] < smallestWeight[k] \/ (smallestWeight[j] = smallestWeight[k] /\ j <= k)}

(* The update of the vertices still open by way of v. *)
MutFirstWay(v, minWeight) ==   \* mutant: a vertex with a way to it is not updated
  [j \in Vertex |->
     IF j \in Open \ {v} /\ smallestWeight[j] = DBL_MAX /\ minWeight + weights[v, j] < DBL_MAX
     THEN minWeight + weights[v, j] ELSE smallestWeight[j]]
Relaxed(v, minWeight) ==
  [j \in Vertex |->
     IF j \in Open \ {v} /\ minWeight + weights[v, j] < smallestWeight[j]
     THEN minWeight + weights[v, j] ELSE smallestWeight[j]]

Finished == i >= gSize - 1 \/ outside

(* One turn of shortestPath.  When every open vertex is out of reach v is  *)
(* read without having been given a value in this turn, and minWeight is   *)
(* DBL_MAX.  Whatever the memory of v holds is then an index: of some      *)
(* vertex, or of none, and the code writes and reads outside of its        *)
(* arrays.  Nothing is known of what follows, and the model stops.         *)
shortestPath ==
  /\ algorithm = "shortest" /\ ~Finished
  /\ \/ /\ \E v \in IF Candidates = {} THEN Vertex ELSE Smallest :
            /\ found' = found \cup {v}
            /\ smallestWeight' = Relaxed(v, IF Candidates = {} THEN DBL_MAX ELSE smallestWeight[v])
       /\ i' = i + 1
       /\ UNCHANGED outside
     \/ /\ Candidates = {}
        /\ outside' = TRUE
        /\ UNCHANGED <<found, smallestWeight, i>>
  /\ UNCHANGED <<algorithm, weights, source, edges>>

(* The lightest edge that leaves the tree: of equals the first, by its     *)
(* start and then its end.                                                 *)
Before(e, f) == e[1] < f[1] \/ (e[1] = f[1] /\ e[2] < f[2])
MutAnyStart == Vertex \X Open   \* mutant: edges that do not start in the tree too
Leaving == found \X Open
Lightest ==
  {e \in Leaving : /\ weights[e] < DBL_MAX
                   /\ \A f \in Leaving : weights[e] < weights[f] \/ (weights[e] = weights[f] /\ (e = f \/ Before(e, f)))}

(* One turn of minimalSpanning. *)
minimalSpanning ==
  /\ algorithm = "spanning" /\ ~Finished
  /\ \E e \in Lightest :
       /\ found' = found \cup {e[2]}
       /\ edges' = [edges EXCEPT ![e[2]] = e[1]]
       /\ smallestWeight' = [smallestWeight EXCEPT ![e[2]] = weights[e]]
  /\ i' = i + 1
  /\ UNCHANGED <<algorithm, weights, source, outside>>

Over == Finished /\ UNCHANGED <<algorithm, weights, source, found, smallestWeight, edges, i, outside>>

-----------------------------------------------------------------------------
(* The weight of a lightest walk from the source of at most n edges: the   *)
(* reference, after Bellman and Ford.                                      *)
Walks[n \in Nat] ==
  IF n = 0 THEN [v \in Vertex |-> IF v = source THEN 0 ELSE DBL_MAX]
  ELSE LET before == Walks[n - 1] IN
       [v \in Vertex |->
          Min({before[v]} \cup {before[u] + weights[u, v] : u \in Vertex \ {v}})]

ShortestPaths == smallestWeight = Walks[gSize - 1]

(* When shortestPath ends without having left its arrays every weight is   *)
(* that of a shortest path, and of a vertex out of reach DBL_MAX: a vertex *)
(* that v happens to name in place of one lowers no weight.                *)
ShortestWeights == (Finished /\ algorithm = "shortest" /\ ~outside) => ShortestPaths

(* What its comment promises of every graph: "The weight of the shortest   *)
(* path from vertex to every other vertex in the graph is determined."     *)
Determined == (Finished /\ algorithm = "shortest") => ~outside /\ ShortestPaths

(* Before it ends: no open vertex is nearer than one that is found.        *)
NearestFirst ==
  algorithm = "shortest" =>
    \A v \in found, j \in Open : smallestWeight[v] <= smallestWeight[j]

-----------------------------------------------------------------------------
Sum(f) == FoldFunction(+, 0, f)

(* The trees: every vertex but the source is given the next one on its way *)
(* to the source.                                                          *)
SpanningTrees ==
  {t \in [Vertex \ {source} -> Vertex] :
     /\ \A v \in Vertex \ {source} : weights[t[v], v] < DBL_MAX
     /\ \A S \in SUBSET (Vertex \ {source}) : S # {} => \E v \in S : t[v] \notin S}

Tree == [v \in Vertex \ {source} |-> edges[v]]

(* When minimalSpanning ends edges is a tree with every vertex, the weight *)
(* saved for each edge is the edge's, and no tree weighs less.             *)
MinimalTree ==
  (Finished /\ algorithm = "spanning") =>
    /\ Tree \in SpanningTrees
    /\ \A v \in Vertex \ {source} : smallestWeight[v] = weights[edges[v], v]
    /\ \A t \in SpanningTrees :
         Sum([v \in Vertex \ {source} |-> smallestWeight[v]])
           <= Sum([v \in Vertex \ {source} |-> weights[t[v], v]])
=============================================================================
