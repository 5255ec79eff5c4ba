---------------------------- MODULE MCTraversals ----------------------------
(***************************************************************************)
(* All trees of up to six nodes.  Graphs of five vertices, the fewest in   *)
(* which breadth first differs from last in, first out, with vertices no   *)
(* list names; smaller ones with self-loops and lists that name a vertex   *)
(* twice.  Directed weighted graphs of three vertices and undirected ones  *)
(* of four, with vertices out of reach, for shortestPath; the connected    *)
(* ones of four for minimalSpanning.  Two structures of two nodes, with    *)
(* their array and heads wherever the allocator puts them.                 *)
(***************************************************************************)
EXTENDS Traversals

Short(S) == {<<>>} \cup {<<v>> : v \in S}
Long(S)  == Short(S) \cup {<<v, w>> : v, w \in S}

MCGraphs ==
  {[v \in 0..4 |-> <<a, b, c, d, e>>[v + 1]] :
     a \in {l \in Long({1, 2, 3}) : IsInjective(l)}, b \in Short({2, 3, 4}),
     c \in Short({0, 3, 4}), d \in Short({0, 4}), e \in Short({3})}
  \cup
  {[v \in 0..3 |-> <<a, b, c, d>>[v + 1]] :
     a \in {l \in Long({1, 2, 3}) : IsInjective(l)}, b \in {l \in Long({0, 2, 3}) : IsInjective(l)},
     c \in Short({0, 3}), d \in Short({2})}
  \cup {[v \in 0..1 |-> <<a, b>>[v + 1]] : a \in Long({0, 1}), b \in Long({0, 1})}
  \cup {[v \in {0} |-> a] : a \in Short({0})}

MCDBL_MAX == 100

Square(n) == (0..(n - 1)) \X (0..(n - 1))

Undirected ==
  {[e \in Square(4) |-> IF e[1] = e[2] THEN MCDBL_MAX ELSE f[{e[1], e[2]}]] :
     f \in [{{a, b} : a, b \in 0..3} \ {{a} : a \in 0..3} -> {1, 2, 4, MCDBL_MAX}]}

Directed ==
  {[e \in Square(3) |-> IF e[1] = e[2] THEN MCDBL_MAX ELSE f[e]] :
     f \in [Square(3) \ {<<a, a>> : a \in 0..2} -> {1, 3, 5, MCDBL_MAX}]}

Connected(w) ==
  \A S \in SUBSET (0..3) :
    (S # {} /\ S # 0..3) => \E a \in S, b \in (0..3) \ S : w[a, b] < MCDBL_MAX

MCWeights    == Undirected \cup Directed
MCSymWeights == {w \in Undirected : Connected(w)}

MCAddress == 1..7
=============================================================================
