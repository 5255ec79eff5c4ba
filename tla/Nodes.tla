------------------------------- MODULE Nodes -------------------------------
(***************************************************************************)
(* Nodes on the heap, as the linked structures of libs_src/data_structures *)
(* use them.  A field of the nodes is a function whose domain is the       *)
(* addresses where a node exists: `new' and `new(addr)' extend the domain, *)
(* `delete' takes an address out of it.                                    *)
(***************************************************************************)
EXTENDS Integers, Sequences, FiniteSets, SequencesExt

CONSTANTS
  Address,   \* where nodes may be: positive numbers
  Type       \* the elements

null == 0

Pointer == Address \cup {null}

(* The nodes a loop `while (p != nullptr) p = p->next' visits.  It stops   *)
(* at an address without a node, and in a cycle after one node too many:   *)
(* Proper tells a chain that really ends.                                  *)
Chain(next, p) ==
  LET walk[k \in Nat] == [q \in Nat |->
        IF k = 0 \/ q \notin DOMAIN next THEN <<>> ELSE <<q>> \o walk[k - 1][next[q]]]
  IN  walk[Cardinality(DOMAIN next) + 1][p]

Proper(next, p) ==
  LET c == Chain(next, p)
  IN  /\ IsInjective(c)
      /\ IF c = <<>> THEN p = null ELSE next[Last(c)] = null

With(field, n, v)  == [a \in DOMAIN field \cup {n} |-> IF a = n THEN v ELSE field[a]]
Without(field, gone) == Restrict(field, DOMAIN field \ gone)

(* The position of the first node of a chain that holds x, 0 if none does; *)
(* and of the first that holds at least x, behind the end if none does.    *)
FirstWith(info, c, x) == SelectInSeq(c, LAMBDA n : info[n] = x)
FirstFrom(info, c, x) ==
  LET k == SelectInSeq(c, LAMBDA n : info[n] >= x) IN IF k = 0 THEN Len(c) + 1 ELSE k

(* The addresses `new' may return for k nodes, one after the other. *)
Fresh(k, used) == {s \in [1..k -> Address \ used] : IsInjective(s)}

Values(info, c) == [k \in 1..Len(c) |-> info[c[k]]]
=============================================================================
