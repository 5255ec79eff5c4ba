---------------------------- MODULE LinkedStack ----------------------------
(***************************************************************************)
(* linkedStackType (libs_src/data_structures/linkedStack.h): stack objects *)
(* over one heap of nodes.                                                 *)
(***************************************************************************)
EXTENDS Nodes

CONSTANT Stacks   \* the stack objects

VARIABLES
  info, link,   \* the nodes
  stackTop,     \* the one field of the stack objects
  answer        \* the last call: stack, method, how it ended and with what

vars == <<info, link, stackTop, answer>>

Init ==
  /\ info = <<>> /\ link = <<>>
  /\ stackTop = [s \in Stacks |-> null]
  /\ answer = <<"", "", "done">>

nodes(s)   == Chain(link, stackTop[s])
NodeSet(s) == ToSet(nodes(s))

-----------------------------------------------------------------------------
(* initializeStack, which is also the destructor. *)
initializeStack(s) ==
  /\ info' = Without(info, NodeSet(s))
  /\ link' = Without(link, NodeSet(s))
  /\ stackTop' = [stackTop EXCEPT ![s] = null]
  /\ answer' = <<s, "destroyList", "done">>

push(s, x, a) ==
  /\ a \notin DOMAIN link
  /\ info' = With(info, a, x)
  /\ link' = With(link, a, stackTop[s])
  /\ stackTop' = [stackTop EXCEPT ![s] = a]
  /\ answer' = <<s, "insertFirst", "done", x>>

Answers(a) == answer' = a /\ UNCHANGED <<info, link, stackTop>>

pop(s) ==
  \/ stackTop[s] = null /\ Answers(<<s, "pop", "refused">>)
  \/ /\ stackTop[s] # null
     /\ info' = Without(info, {stackTop[s]})
     /\ link' = Without(link, {stackTop[s]})
     /\ stackTop' = [stackTop EXCEPT ![s] = link[@]]
     /\ answer' = <<s, "pop", "done">>

(* operator= and copyStack: the copies hang behind `last', one by one. *)
MutPushes(s, other) ==   \* mutant: pushes the elements in the order it meets them
  \E c \in {nodes(other)}, kept \in {DOMAIN link \ NodeSet(s)} :
    \E new \in Fresh(Len(c), kept) : \E of \in {Inverse(new, 1..Len(c), ToSet(new))} :
      /\ info' = [a \in kept \cup ToSet(new) |-> IF a \in kept THEN info[a] ELSE info[c[of[a]]]]
      /\ link' = [a \in kept \cup ToSet(new) |->
                    IF a \in kept THEN link[a]
                    ELSE IF of[a] = 1 THEN null ELSE new[of[a] - 1]]
      /\ stackTop' = [stackTop EXCEPT ![s] = IF c = <<>> THEN null ELSE Last(new)]
copyStack(s, other) ==
  \E c \in {nodes(other)}, kept \in {DOMAIN link \ NodeSet(s)} :
    \E new \in Fresh(Len(c), kept) : \E of \in {Inverse(new, 1..Len(c), ToSet(new))} :
      /\ info' = [a \in kept \cup ToSet(new) |-> IF a \in kept THEN info[a] ELSE info[c[of[a]]]]
      /\ link' = [a \in kept \cup ToSet(new) |->
                    IF a \in kept THEN link[a]
                    ELSE IF of[a] = Len(c) THEN null ELSE new[of[a] + 1]]
      /\ stackTop' = [stackTop EXCEPT ![s] = IF c = <<>> THEN null ELSE new[1]]

assign(s, other) ==
  /\ \/ s # other /\ copyStack(s, other)
     \/ s = other /\ UNCHANGED <<info, link, stackTop>>
  /\ answer' = <<s, "assign", "done", other>>

top(s) == Answers(IF stackTop[s] = null THEN <<s, "front", "aborted">>
                  ELSE <<s, "front", "value", info[stackTop[s]]>>)
search(s, x) ==
  Answers(<<s, "search", IF FirstWith(info, nodes(s), x) # 0 THEN "found" ELSE "missing", x>>)

Running == answer[3] # "aborted"
Ended   == ~Running /\ UNCHANGED vars

Next ==
  \/ /\ Running
     /\ \E s \in Stacks :
          \/ initializeStack(s) \/ pop(s) \/ top(s)
          \/ \E x \in Type : search(s, x)
          \/ \E x \in Type, a \in Address : push(s, x, a)
          \/ \E other \in Stacks : assign(s, other)
  \/ Ended

-----------------------------------------------------------------------------
TypeOK ==
  /\ DOMAIN info \subseteq Address /\ info \in [DOMAIN info -> Type]
  /\ link \in [DOMAIN info -> Pointer] /\ stackTop \in [Stacks -> Pointer]

(* No node is in two stacks, also after copies, every chain ends, and no   *)
(* node is lost.                                                           *)
NodesOwned ==
  /\ \A s \in Stacks : Proper(link, stackTop[s])
  /\ \A s, t \in Stacks : s # t => NodeSet(s) \cap NodeSet(t) = {}
  /\ DOMAIN link = UNION {NodeSet(s) : s \in Stacks}
=============================================================================
