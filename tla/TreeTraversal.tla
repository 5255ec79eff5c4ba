--------------------------- MODULE TreeTraversal ---------------------------
(***************************************************************************)
(* The traversals of binaryTree.h that keep a stack of their own,          *)
(* nonRecursiveInTraversal and nonRecursivePreTraversal, over any tree.  A *)
(* tree is <<left, element, right>>, the empty one <<>>; a pointer to a    *)
(* node stands as the tree below it.                                       *)
(***************************************************************************)
EXTENDS Integers, Sequences, SequencesExt

CONSTANTS MaxNodes,   \* bound: nodes of a tree
          Orders      \* of "in" and "pre"

Empty == <<>>
lLink(p) == p[1]
info(p)  == p[2]
rLink(p) == p[3]

(* All trees with the elements lo to hi from left to right. *)
RECURSIVE Trees(_, _)
Trees(lo, hi) ==
  IF hi < lo THEN {Empty}
  ELSE UNION {{<<l, m, r>> : l \in Trees(lo, m - 1), r \in Trees(m + 1, hi)} : m \in lo..hi}

(* The recursive traversals and the height. *)
RECURSIVE inorder(_), preorder(_), height(_)
inorder(p) ==
  IF p = Empty THEN <<>> ELSE inorder(lLink(p)) \o <<info(p)>> \o inorder(rLink(p))
preorder(p) ==
  IF p = Empty THEN <<>> ELSE <<info(p)>> \o preorder(lLink(p)) \o preorder(rLink(p))
height(p) ==
  IF p = Empty THEN 0
  ELSE IF height(lLink(p)) >= height(rLink(p)) THEN 1 + height(lLink(p)) ELSE 1 + height(rLink(p))

VARIABLES
  root,      \* the tree
  order,     \* which traversal
  current,   \* the node looked at, or Empty
  stack,     \* its linkedStackType, the top first
  printed    \* what was put out

Init ==
  /\ order \in Orders
  /\ root \in UNION {Trees(1, n) : n \in 0..MaxNodes}
  /\ current = root /\ stack = <<>> /\ printed = <<>>

-----------------------------------------------------------------------------
(* A node: it is pushed, and in preorder put out, and its left side is     *)
(* next.                                                                   *)
PutDown(p) == IF order = "pre" THEN Append(printed, info(p)) ELSE printed
MutTwice ==   \* mutant: pushes the node twice
  /\ current # Empty
  /\ printed' = PutDown(current)
  /\ stack' = <<current, current>> \o stack
  /\ current' = lLink(current)
  /\ UNCHANGED <<root, order>>
Down ==
  /\ current # Empty
  /\ printed' = PutDown(current)
  /\ stack' = <<current>> \o stack
  /\ current' = lLink(current)
  /\ UNCHANGED <<root, order>>

(* No node: the top of the stack, and its right side. *)
Back ==
  /\ current = Empty /\ stack # <<>>
  /\ printed' = IF order = "in" THEN Append(printed, info(stack[1])) ELSE printed
  /\ stack' = Tail(stack)
  /\ current' = rLink(stack[1])
  /\ UNCHANGED <<root, order>>

Finished == current = Empty /\ stack = <<>>
-----------------------------------------------------------------------------
(* The order is the one of the recursive traversal, from the first element *)
(* put out to the last.                                                    *)
Expected == IF order = "in" THEN inorder(root) ELSE preorder(root)
SameOrder == IsPrefix(printed, Expected) /\ (Finished => printed = Expected)

(* The stack never holds more nodes than the tree is high: of a node whose *)
(* left side is done only its right side is left to do.                    *)
StackWithinHeight == Len(stack) + height(current) <= height(root)
=============================================================================
