-------------------------- MODULE StructuresProofs --------------------------
(***************************************************************************)
(* The structures are what they promise to be, for every size of the       *)
(* array, every set of addresses and elements and every number of calls.   *)
(* The circular array implements the first-in first-out sequence of        *)
(* queueADT.  doublyLinkedList follows, in the way of ListsProofs, then    *)
(* the search tree, and then all structures together.                      *)
(***************************************************************************)
EXTENDS ListsProofs, SequenceTheorems

-----------------------------------------------------------------------------
(* Remainders: an index is at most one turn ahead of the array. *)
LEMMA Wrapped ==
  ASSUME NEW m \in Nat \ {0}, NEW x \in 0..2 * m - 1
  PROVE  x % m = (IF x < m THEN x ELSE x - m)
<1> DEFINE q == x \div m
           r == x % m
<1>1. q \in Int /\ r \in 0..m - 1 /\ x = m * q + r
  OBVIOUS
<1> HIDE DEF q, r
<1>2. q = 0 \/ q = 1
  <2>1. CASE q >= 2
    <3>1. m * q >= m * 2
      BY <1>1, <2>1
    <3> QED BY <3>1, <1>1
  <2>2. CASE q <= -1
    <3>1. m * q <= m * (-1)
      BY <1>1, <2>2
    <3> QED BY <3>1, <1>1
  <2> QED BY <2>1, <2>2, <1>1
<1>3. r = (IF x < m THEN x ELSE x - m)
  BY <1>1, <1>2
<1> QED BY <1>3 DEF r

(* The remainder as an operator of its own, so that facts about it can be  *)
(* instantiated without arithmetic on the terms.                           *)
Turn(x, m) == x % m

LEMMA TurnIs ==
  \A m \in Nat \ {0} : \A x \in 0..2 * m - 1 : Turn(x, m) = IF x < m THEN x ELSE x - m
BY Wrapped DEF Turn

-----------------------------------------------------------------------------
(* The inductive invariant.  The type of the answers needs OnlyStored, and *)
(* that a full queue's next entry is not one in use needs RearFollows.     *)
QueueInv == TypeOK /\ RearFollows /\ OnlyStored

LEMMA QueueInit == Init => QueueInv
<1> SUFFICES ASSUME Init PROVE QueueInv
  OBVIOUS
<1>1. maxQueueSize \in Nat \ {0}
  BY QueueTypeAssumption DEF Init
<1>2. TypeOK
  BY <1>1 DEF Init, TypeOK, Answers
<1>3. maxQueueSize % maxQueueSize = 0 /\ 0 % maxQueueSize = 0
  <2>1. PICK m \in Nat \ {0} : m = maxQueueSize
    BY <1>1
  <2>2. m % m = 0 /\ 0 % m = 0
    BY Wrapped
  <2> QED BY <2>1, <2>2
<1>4. maxQueueSize - 1 + 1 = maxQueueSize /\ 0 + 0 = 0
  BY <1>1
<1> QED BY <1>2, <1>3, <1>4 DEF Init, QueueInv, RearFollows, OnlyStored, Advance

(* Advance, Entry and the rear, without remainders. *)
LEMMA AdvanceIs ==
  ASSUME TypeOK, NEW i \in 0..maxQueueSize - 1
  PROVE  /\ Advance(i) \in 0..maxQueueSize - 1
         /\ Advance(i) = IF i + 1 = maxQueueSize THEN 0 ELSE i + 1
<1>1. PICK m \in Nat \ {0} : m = maxQueueSize
  BY DEF TypeOK
<1>2. PICK x \in 0..2 * m - 1 : x = i + 1
  BY <1>1
<1>3. x % m = IF x < m THEN x ELSE x - m
  BY Wrapped
<1> QED BY <1>1, <1>2, <1>3 DEF Advance

LEMMA EntryIs ==
  ASSUME TypeOK, NEW k \in 1..maxQueueSize
  PROVE  /\ Entry(k) \in 0..maxQueueSize - 1
         /\ Entry(k) = IF queueFront + k - 1 < maxQueueSize THEN queueFront + k - 1
                       ELSE queueFront + k - 1 - maxQueueSize
<1>1. PICK m \in Nat \ {0} : m = maxQueueSize
  BY DEF TypeOK
<1>2. PICK x \in 0..2 * m - 1 : x = queueFront + k - 1
  BY <1>1 DEF TypeOK
<1>3. x % m = IF x < m THEN x ELSE x - m
  BY Wrapped
<1> QED BY <1>1, <1>2, <1>3 DEF Entry, TypeOK

LEMMA RearIs ==
  ASSUME TypeOK
  PROVE  RearFollows <=> queueRear = IF queueFront + count = 0 THEN maxQueueSize - 1
                                     ELSE IF queueFront + count <= maxQueueSize
                                     THEN queueFront + count - 1
                                     ELSE queueFront + count - 1 - maxQueueSize
<1>1. PICK m \in Nat \ {0} : m = maxQueueSize
  BY DEF TypeOK
<1>2. PICK x \in 0..2 * m - 1 : x = queueFront + count
  BY <1>1 DEF TypeOK
<1>3. x % m = IF x < m THEN x ELSE x - m
  BY Wrapped
<1>4. (queueFront + count) % maxQueueSize = IF x < m THEN x ELSE x - m
  BY <1>1, <1>2, <1>3 DEF TypeOK
<1>5. queueRear \in 0..m - 1 /\ Advance(queueRear) = IF queueRear + 1 = m THEN 0 ELSE queueRear + 1
  BY <1>1, AdvanceIs DEF TypeOK
<1>6. queueFront \in 0..m - 1 /\ count \in 0..m
  BY <1>1 DEF TypeOK
<1> QED BY <1>1, <1>2, <1>4, <1>5, <1>6 DEF RearFollows

(* The entries of different elements are different, and the rear is the    *)
(* entry of the last one.                                                  *)
LEMMA EntriesApart ==
  ASSUME TypeOK, NEW k \in 1..maxQueueSize, NEW l \in 1..maxQueueSize, k # l
  PROVE  Entry(k) # Entry(l)
<1>1. maxQueueSize \in Nat \ {0} /\ queueFront \in 0..maxQueueSize - 1
  BY DEF TypeOK
<1> QED BY <1>1, EntryIs

LEMMA RearIsLast ==
  ASSUME QueueInv, count # 0
  PROVE  queueRear = Entry(count)
<1>1. /\ maxQueueSize \in Nat \ {0} /\ queueFront \in 0..maxQueueSize - 1
      /\ count \in 1..maxQueueSize
  BY DEF QueueInv, TypeOK
<1> QED BY <1>1, EntryIs, RearIs DEF QueueInv

(* The entry addQueue stores to is the one behind the last element. *)
LEMMA NextIsEntry ==
  ASSUME QueueInv, ~isFullQueue
  PROVE  Advance(queueRear) = Entry(count + 1)
<1>1. /\ maxQueueSize \in Nat \ {0} /\ queueFront \in 0..maxQueueSize - 1
      /\ count \in Nat /\ count + 1 \in 1..maxQueueSize /\ queueRear \in 0..maxQueueSize - 1
  BY DEF QueueInv, TypeOK, isFullQueue
<1>2. QED BY <1>1, EntryIs, RearIs, AdvanceIs DEF QueueInv

-----------------------------------------------------------------------------
(* Rear and front after one more element, and after one less. *)
Rear(f, c, m) == IF f + c = 0 THEN m - 1 ELSE IF f + c <= m THEN f + c - 1 ELSE f + c - 1 - m
After(i, m) == IF i + 1 = m THEN 0 ELSE i + 1

LEMMA RearFollowsAdd ==
  ASSUME NEW m \in Nat \ {0}, NEW f \in 0..m - 1, NEW c \in 0..m - 1
  PROVE  Turn(After(Rear(f, c, m), m) + 1, m) = Turn(f + (c + 1), m)
<1> DEFINE a == After(Rear(f, c, m), m) + 1
           b == f + (c + 1)
<1>1. a \in 0..2 * m - 1 /\ b \in 0..2 * m - 1
  BY DEF After, Rear
<1>2. Turn(a, m) = (IF a < m THEN a ELSE a - m) /\ Turn(b, m) = IF b < m THEN b ELSE b - m
  <2> HIDE DEF a, b
  <2> QED BY <1>1, TurnIs
<1>3. (IF a < m THEN a ELSE a - m) = IF b < m THEN b ELSE b - m
  BY DEF After, Rear
<1> QED BY <1>2, <1>3

LEMMA RearFollowsDelete ==
  ASSUME NEW m \in Nat \ {0}, NEW f \in 0..m - 1, NEW c \in 1..m
  PROVE  Turn(Rear(f, c, m) + 1, m) = Turn(After(f, m) + (c - 1), m)
<1> DEFINE a == Rear(f, c, m) + 1
           b == After(f, m) + (c - 1)
<1>1. a \in 0..2 * m - 1 /\ b \in 0..2 * m - 1
  BY DEF After, Rear
<1>2. Turn(a, m) = (IF a < m THEN a ELSE a - m) /\ Turn(b, m) = IF b < m THEN b ELSE b - m
  <2> HIDE DEF a, b
  <2> QED BY <1>1, TurnIs
<1>3. (IF a < m THEN a ELSE a - m) = IF b < m THEN b ELSE b - m
  BY DEF After, Rear
<1> QED BY <1>2, <1>3

(* Where the elements are after a call. *)
LEMMA EntryAfterDelete ==
  ASSUME TypeOK, maxQueueSize' = maxQueueSize, queueFront' = Advance(queueFront),
         NEW k \in 1..count - 1
  PROVE  Entry(k)' = Entry(k + 1)
<1> DEFINE m == maxQueueSize
           f == Advance(queueFront)
<1>1. m \in Nat \ {0} /\ count \in 0..m /\ queueFront \in 0..m - 1 /\ k + 1 \in 1..m
  BY DEF TypeOK
<1>2. f \in 0..m - 1 /\ f = After(queueFront, m)
  BY <1>1, AdvanceIs DEF After
<1>3. Entry(k + 1) = IF queueFront + k < m THEN queueFront + k ELSE queueFront + k - m
  BY <1>1, EntryIs
<1>4. Entry(k)' = Turn(f + k - 1, m)
  BY DEF Entry, Turn
<1>5. Turn(f + k - 1, m) = IF f + k - 1 < m THEN f + k - 1 ELSE f + k - 1 - m
  <2> HIDE DEF m, f
  <2>1. PICK x \in 0..2 * m - 1 : x = f + k - 1
    BY <1>1, <1>2
  <2>2. Turn(x, m) = IF x < m THEN x ELSE x - m
    BY <1>1, TurnIs
  <2>3. Turn(f + k - 1, m) = Turn(x, m)
    BY <2>1
  <2> QED BY <1>1, <1>2, <2>1, <2>2, <2>3
<1> HIDE DEF m, f
<1> QED BY <1>1, <1>2, <1>3, <1>4, <1>5 DEF After

LEMMA EntryKept ==
  ASSUME NEW k, UNCHANGED <<maxQueueSize, queueFront>>
  PROVE  Entry(k)' = Entry(k)
BY DEF Entry

LEMMA QueueStep ==
  ASSUME QueueInv, [Next]_vars
  PROVE  QueueInv'
<1> DEFINE m == maxQueueSize
<1>1. /\ m \in Nat \ {0} /\ count \in 0..m
      /\ queueFront \in 0..m - 1 /\ queueRear \in 0..m - 1
      /\ list \in [0..m - 1 -> Type \cup {Unset}]
      /\ answer \in Answers
  BY DEF QueueInv, TypeOK
<1>2. queueRear = Rear(queueFront, count, m)
  BY RearIs DEF QueueInv, Rear
<1>3. RearFollows' <=> Turn(queueRear' + 1, maxQueueSize') = Turn(queueFront' + count', maxQueueSize')
  BY DEF RearFollows, Advance, Turn
<1>4. \A i \in 0..m - 1 : /\ Advance(i) \in 0..m - 1
                          /\ Advance(i) = After(i, m)
  BY AdvanceIs DEF QueueInv, After
<1> HIDE DEF m
<1>5. ASSUME UNCHANGED <<maxQueueSize, count, queueFront, queueRear, list>>,
             answer' \in Answers
      PROVE  QueueInv'
  <2>1. RearFollows'
    BY <1>5 DEF QueueInv, RearFollows, Advance
  <2>2. OnlyStored'
    BY <1>5 DEF QueueInv, OnlyStored, Entry
  <2> QED BY <2>1, <2>2, <1>5, <1>1 DEF QueueInv, TypeOK, m
<1>6. CASE initializeQueue
  <2>1. /\ maxQueueSize' = m /\ queueFront' = 0 /\ count' = 0 /\ queueRear' = m - 1
        /\ list' = list /\ answer' \in Answers
    BY <1>6 DEF initializeQueue, m, Answers
  <2>2. RearFollows'
    BY <2>1, <1>1, <1>3, TurnIs
  <2>3. OnlyStored'
    BY <2>1 DEF OnlyStored
  <2> QED BY <2>1, <2>2, <2>3, <1>1 DEF QueueInv, TypeOK
<1>7. ASSUME NEW x \in Type, addQueue(x) PROVE QueueInv'
  <2>1. CASE isFullQueue
    <3>1. /\ maxQueueSize' = m /\ queueFront' = queueFront /\ count' = count
          /\ queueRear' = queueRear /\ list' = list /\ answer' \in Answers
      BY <1>7, <2>1 DEF addQueue, Refuse, m, Answers
    <3> QED BY <3>1, <1>5 DEF m
  <2>2. CASE ~isFullQueue
    <3>1. /\ maxQueueSize' = m /\ queueFront' = queueFront /\ count' = count + 1
          /\ queueRear' = Advance(queueRear) /\ answer' \in Answers
          /\ list' = [list EXCEPT ![Advance(queueRear)] = x]
      BY <1>7, <2>2 DEF addQueue, m, Answers
    <3>2. count # m
      BY <2>2 DEF isFullQueue, m
    <3>3. Turn(After(Rear(queueFront, count, m), m) + 1, m) = Turn(queueFront + (count + 1), m)
      BY <3>2, <1>1, RearFollowsAdd
    <3>4. RearFollows'
      BY <3>1, <3>3, <1>1, <1>2, <1>3, <1>4
    <3>5. OnlyStored'
      <4> SUFFICES ASSUME NEW k \in 1..count + 1 PROVE list'[Entry(k)'] \in Type
        BY <3>1 DEF OnlyStored
      <4>1. Entry(k)' = Entry(k)
        BY <3>1, EntryKept DEF m
      <4>2. Entry(k) \in 0..m - 1
        BY <1>1, <3>2, EntryIs DEF QueueInv, m
      <4>3. Advance(queueRear) = Entry(count + 1)
        BY <2>2, NextIsEntry
      <4>4. CASE k = count + 1
        BY <4>1, <4>2, <4>3, <4>4, <3>1, <1>1
      <4>5. CASE k # count + 1
        <5>1. Entry(k) # Entry(count + 1)
          BY <4>5, <1>1, <3>2, EntriesApart DEF QueueInv, m
        <5>2. k \in 1..count /\ list[Entry(k)] \in Type
          BY <4>5, <1>1 DEF QueueInv, OnlyStored
        <5> QED BY <5>1, <5>2, <4>1, <4>2, <4>3, <3>1, <1>1
      <4> QED BY <4>4, <4>5
    <3>6. queueRear' \in 0..m - 1
      BY <3>1, <1>1, <1>4
    <3>7. count' \in 0..m
      BY <3>1, <3>2, <1>1
    <3>8. list' \in [0..m - 1 -> Type \cup {Unset}]
      BY <3>1, <1>1
    <3>9. TypeOK'
      BY <3>1, <3>6, <3>7, <3>8, <1>1 DEF TypeOK
    <3> QED BY <3>4, <3>5, <3>9, Zenon DEF QueueInv
  <2> QED BY <2>1, <2>2
<1>8. CASE deleteQueue
  <2>1. CASE isEmptyQueue
    <3>1. /\ maxQueueSize' = m /\ queueFront' = queueFront /\ count' = count
          /\ queueRear' = queueRear /\ list' = list /\ answer' \in Answers
      BY <1>8, <2>1 DEF deleteQueue, Refuse, m, Answers
    <3> QED BY <3>1, <1>5 DEF m
  <2>2. CASE ~isEmptyQueue
    <3>1. /\ maxQueueSize' = m /\ queueFront' = Advance(queueFront) /\ count' = count - 1
          /\ queueRear' = queueRear /\ list' = list /\ answer' \in Answers
      BY <1>8, <2>2 DEF deleteQueue, m, Answers
    <3>2. count # 0
      BY <2>2 DEF isEmptyQueue
    <3>3. Turn(Rear(queueFront, count, m) + 1, m) = Turn(After(queueFront, m) + (count - 1), m)
      BY <3>2, <1>1, RearFollowsDelete
    <3>4. RearFollows'
      BY <3>1, <3>3, <1>1, <1>2, <1>3, <1>4
    <3>5. OnlyStored'
      <4> SUFFICES ASSUME NEW k \in 1..count - 1 PROVE list[Entry(k)'] \in Type
        BY <3>1 DEF OnlyStored
      <4>1. Entry(k)' = Entry(k + 1)
        BY <3>1, EntryAfterDelete DEF QueueInv, m
      <4> QED BY <4>1, <1>1 DEF QueueInv, OnlyStored
    <3> QED BY <3>1, <3>2, <3>4, <3>5, <1>1, <1>4, SMTT(20) DEF QueueInv, TypeOK
  <2> QED BY <2>1, <2>2
<1>9. CASE front \/ back
  <2>1. isEmptyQueue \/ (list[queueFront] \in Type /\ list[queueRear] \in Type)
    <3>1. SUFFICES ASSUME count # 0 PROVE list[queueFront] \in Type /\ list[queueRear] \in Type
      BY DEF isEmptyQueue
    <3>2. count \in 1..count /\ 1 \in 1..count /\ 1 \in 1..m
      BY <1>1, <3>1
    <3>3. Entry(1) = queueFront
      BY <1>1, <3>2, EntryIs DEF QueueInv, m
    <3>4. Entry(count) = queueRear
      BY <3>1, RearIsLast
    <3> QED BY <3>2, <3>3, <3>4 DEF QueueInv, OnlyStored
  <2>2. answer' \in Answers
    BY <2>1, <1>9 DEF front, back, Answers
  <2> QED BY <2>2, <1>5, <1>9 DEF front, back
<1>10. CASE UNCHANGED vars
  BY <1>10, <1>1, <1>5 DEF vars
<1> QED BY <1>6, <1>7, <1>8, <1>9, <1>10 DEF Next, Ended

LEMMA QueueInvHolds == Spec => []QueueInv
BY QueueInit, QueueStep, PTL DEF Spec

-----------------------------------------------------------------------------
(* The refinement. *)
QueueItems == [k \in 1..count |-> list[Entry(k)]]

LEMMA QueueItemsSeq ==
  ASSUME QueueInv
  PROVE  QueueItems \in Seq(Type) /\ Len(QueueItems) = count /\ count \in Nat
<1>1. count \in Nat
  BY DEF QueueInv, TypeOK
<1>2. QueueItems \in [1..count -> Type]
  BY DEF QueueItems, QueueInv, OnlyStored
<1>3. QueueItems \in Seq(Type) /\ DOMAIN QueueItems = 1..count
  BY <1>1, <1>2
<1> QED BY <1>1, <1>3, LenProperties

LEMMA QueueItemsPrimed ==
  ASSUME QueueInv'
  PROVE  QueueItems' \in Seq(Type) /\ Len(QueueItems') = count'
<1>1. count' \in Nat
  BY DEF QueueInv, TypeOK
<1>2. QueueItems' \in [1..count' -> Type]
  BY DEF QueueItems, QueueInv, OnlyStored
<1>3. QueueItems' \in Seq(Type) /\ DOMAIN QueueItems' = 1..count'
  BY <1>1, <1>2
<1> QED BY <1>1, <1>3, LenProperties

LEMMA FifoInit == Init => Queue!Init
<1> SUFFICES ASSUME Init PROVE Queue!Init
  OBVIOUS
<1>1. count = 0 /\ maxQueueSize \in Int /\ answer = <<"done">>
  BY QueueTypeAssumption DEF Init
<1>2. [k \in 1..count |-> list[Entry(k)]] = <<>>
  BY <1>1
<1> QED BY <1>1, <1>2 DEF Queue!Init

LEMMA FifoStep ==
  ASSUME QueueInv, QueueInv', [Next]_vars
  PROVE  [Queue!Next]_(Queue!fifo)
<1>1. /\ QueueItems \in Seq(Type) /\ Len(QueueItems) = count
      /\ maxQueueSize \in Nat \ {0} /\ count \in 0..maxQueueSize
  BY QueueItemsSeq DEF QueueInv, TypeOK
<1>2. QueueItems' = [k \in 1..count' |-> list'[Entry(k)']]
  BY DEF QueueItems
<1>3. (QueueItems = <<>>) <=> isEmptyQueue
  BY <1>1, EmptySeq DEF isEmptyQueue
<1>4. CASE UNCHANGED vars
  <2>1. UNCHANGED QueueItems /\ UNCHANGED <<maxQueueSize, answer>>
    BY <1>4 DEF vars, QueueItems, Entry
  <2> QED BY <2>1 DEF Queue!fifo, QueueItems
<1>5. ASSUME Running, initializeQueue PROVE Queue!Next
  <2>1. count' = 0 /\ answer' = <<"done">> /\ maxQueueSize' = maxQueueSize
    BY <1>5 DEF initializeQueue
  <2>2. QueueItems' = <<>>
    BY <2>1, <1>2
  <2> QED BY <2>1, <2>2, <1>5 DEF Queue!Next, Queue!initializeQueue, Running, QueueItems
<1>6. ASSUME Running, NEW x \in Type, addQueue(x) PROVE Queue!Next
  <2>1. CASE isFullQueue
    <3>1. UNCHANGED QueueItems /\ answer' = <<"refused">> /\ maxQueueSize' = maxQueueSize
      BY <1>6, <2>1 DEF addQueue, Refuse, QueueItems, Entry
    <3>2. Len(QueueItems) = maxQueueSize
      BY <1>1, <2>1 DEF isFullQueue
    <3> QED BY <3>1, <3>2, <1>6 DEF Queue!Next, Queue!addQueue, Running, QueueItems
  <2>2. CASE ~isFullQueue
    <3>1. /\ maxQueueSize' = maxQueueSize /\ queueFront' = queueFront /\ count' = count + 1
          /\ list' = [list EXCEPT ![Advance(queueRear)] = x] /\ answer' = <<"done">>
      BY <1>6, <2>2 DEF addQueue
    <3>2. count + 1 \in 1..maxQueueSize
      BY <1>1, <2>2 DEF isFullQueue
    <3>3. \A k \in 1..count + 1 :
            list'[Entry(k)'] = IF k = count + 1 THEN x ELSE list[Entry(k)]
      <4> SUFFICES ASSUME NEW k \in 1..count + 1
                   PROVE  list'[Entry(k)'] = IF k = count + 1 THEN x ELSE list[Entry(k)]
        OBVIOUS
      <4>1. k \in 1..maxQueueSize /\ Entry(k)' = Entry(k)
        BY <3>1, <3>2, <1>1, EntryKept
      <4>2. Entry(k) \in DOMAIN list /\ Advance(queueRear) = Entry(count + 1)
        BY <4>1, <2>2, EntryIs, NextIsEntry DEF QueueInv, TypeOK
      <4>3. CASE k = count + 1
        BY <4>1, <4>2, <4>3, <3>1
      <4>4. CASE k # count + 1
        <5>1. Entry(k) # Entry(count + 1)
          BY <4>1, <4>4, <3>2, EntriesApart DEF QueueInv
        <5> QED BY <5>1, <4>1, <4>2, <4>4, <3>1
      <4> QED BY <4>3, <4>4
    <3>4. QueueItems' = [k \in 1..count + 1 |-> IF k = count + 1 THEN x ELSE list[Entry(k)]]
      BY <1>2, <3>1, <3>3
    <3>5. QueueItems' = Append(QueueItems, x)
      <4>1. \A k \in 1..count : QueueItems[k] = list[Entry(k)]
        BY DEF QueueItems
      <4>2. /\ QueueItems' \in Seq(Type) /\ Len(QueueItems') = count + 1
            /\ \A k \in 1..count : QueueItems'[k] = QueueItems[k]
            /\ QueueItems'[count + 1] = x
        BY <4>1, <3>1, <3>4, <1>1, QueueItemsPrimed
      <4>3. /\ Append(QueueItems, x) \in Seq(Type) /\ Len(Append(QueueItems, x)) = count + 1
            /\ \A k \in 1..count : Append(QueueItems, x)[k] = QueueItems[k]
            /\ Append(QueueItems, x)[count + 1] = x
        BY <1>1, AppendProperties
      <4>4. \A k \in 1..count + 1 : QueueItems'[k] = Append(QueueItems, x)[k]
        BY <4>2, <4>3, <1>1
      <4> QED BY <4>2, <4>3, <4>4, SeqEqual
    <3>6. Len(QueueItems) # maxQueueSize
      BY <1>1, <2>2 DEF isFullQueue
    <3> QED BY <3>1, <3>5, <3>6, <1>6 DEF Queue!Next, Queue!addQueue, Running, QueueItems
  <2> QED BY <2>1, <2>2
<1>7. ASSUME Running, deleteQueue PROVE Queue!Next
  <2>1. CASE isEmptyQueue
    <3>1. UNCHANGED QueueItems /\ answer' = <<"refused">> /\ maxQueueSize' = maxQueueSize
      BY <1>7, <2>1 DEF deleteQueue, Refuse, QueueItems, Entry
    <3> QED BY <3>1, <2>1, <1>3, <1>7 DEF Queue!Next, Queue!deleteQueue, Running, QueueItems
  <2>2. CASE ~isEmptyQueue
    <3>1. /\ maxQueueSize' = maxQueueSize /\ queueFront' = Advance(queueFront)
          /\ count' = count - 1 /\ list' = list /\ answer' = <<"done">>
      BY <1>7, <2>2 DEF deleteQueue
    <3>2. \A k \in 1..count - 1 : list'[Entry(k)'] = QueueItems[k + 1]
      <4> SUFFICES ASSUME NEW k \in 1..count - 1 PROVE list[Entry(k)'] = QueueItems[k + 1]
        BY <3>1
      <4>1. Entry(k)' = Entry(k + 1) /\ k + 1 \in 1..count
        BY <3>1, <1>1, EntryAfterDelete DEF QueueInv
      <4> QED BY <4>1 DEF QueueItems
    <3>3. QueueItems' = [k \in 1..count - 1 |-> QueueItems[k + 1]]
      BY <1>2, <3>1, <3>2
    <3>4. QueueItems' = Tail(QueueItems)
      <4>1. /\ QueueItems' \in Seq(Type) /\ Len(QueueItems') = count - 1
            /\ \A k \in 1..count - 1 : QueueItems'[k] = QueueItems[k + 1]
        BY <3>1, <3>3, <1>1, QueueItemsPrimed
      <4>2. /\ Tail(QueueItems) \in Seq(Type) /\ Len(Tail(QueueItems)) = count - 1
            /\ \A k \in 1..count - 1 : Tail(QueueItems)[k] = QueueItems[k + 1]
        BY <1>1, <1>3, <2>2, HeadTailProperties
      <4> QED BY <4>1, <4>2, SeqEqual
    <3> QED BY <3>1, <3>4, <2>2, <1>3, <1>7 DEF Queue!Next, Queue!deleteQueue, Running, QueueItems
  <2> QED BY <2>1, <2>2
<1>8. ASSUME Running, front \/ back PROVE Queue!Next
  <2>1. UNCHANGED QueueItems /\ maxQueueSize' = maxQueueSize
    BY <1>8 DEF front, back, QueueItems, Entry
  <2>2. CASE isEmptyQueue
    BY <2>1, <2>2, <1>3, <1>8 DEF Queue!Next, Queue!front, Queue!back, front, back, Running, QueueItems
  <2>3. CASE ~isEmptyQueue
    <3>1. count \in 1..count /\ 1 \in 1..count /\ 1 \in 1..maxQueueSize
      BY <1>1, <2>3 DEF isEmptyQueue
    <3>2. QueueItems[1] = list[queueFront]
      <4>1. Entry(1) = queueFront
        BY <3>1, EntryIs DEF QueueInv, TypeOK
      <4> QED BY <4>1, <3>1 DEF QueueItems
    <3>3. QueueItems[Len(QueueItems)] = list[queueRear]
      <4>1. queueRear = Entry(count)
        BY <2>3, RearIsLast DEF isEmptyQueue
      <4> QED BY <4>1, <3>1, <1>1 DEF QueueItems
    <3> QED BY <3>2, <3>3, <2>1, <2>3, <1>3, <1>8 DEF Queue!Next, Queue!front, Queue!back, front, back, Running, QueueItems
  <2> QED BY <2>2, <2>3
<1> QED BY <1>4, <1>5, <1>6, <1>7, <1>8 DEF Next, Ended

-----------------------------------------------------------------------------
(* doublyLinkedList: one object, ascending, and linked both ways.          *)
D == "doublyLinkedList"

(* The links back are a field of the same nodes. *)
BackField(f, nds) == DOMAIN f = nds /\ f = [a \in nds |-> f[a]]

DoublyInv(cs) ==
  /\ Chained(D, cs) /\ One(cs)
  /\ head = At(cs["list"], 1) /\ tail = At(cs["list"], Len(cs["list"])) /\ size = Len(cs["list"])
  /\ BackField(link2, DOMAIN info) /\ BackLinked(link2, cs["list"])
  /\ Sorted(N!Values(info, cs["list"])) /\ Answered

LEMMA DoublyKnown ==
  ASSUME NEW cs, DoublyInv(cs), NEW c, c = cs["list"]
  PROVE  /\ Known(D, cs, "list", c) /\ Room(Addresses[D]) /\ Chained(D, cs) /\ D \in LinkedKinds
         /\ Doubly!nodes = c /\ Doubly!Proper(link, head)
         /\ head = At(c, 1) /\ tail = At(c, Len(c)) /\ size = Len(c) /\ "list" \in Objects
         /\ BackField(link2, DOMAIN info) /\ BackLinked(link2, c)
<1>1. D \in LinkedKinds /\ Chained(D, cs) /\ "list" \in Objects
  BY DEF LinkedKinds, D, DoublyInv, Objects
<1>2. Known(D, cs, "list", c) /\ Room(Addresses[D])
  BY <1>1, KnownOf, RoomFor
<1>3. /\ head = At(c, 1) /\ tail = At(c, Len(c)) /\ size = Len(c)
      /\ BackField(link2, DOMAIN info) /\ BackLinked(link2, c)
  BY DEF DoublyInv
<1>4. N!Chain(link, head) = c /\ N!Proper(link, head)
  BY <1>1, <1>2, <1>3, HeapFacts DEF Chained
<1>5. Doubly!Chain(link, head) = N!Chain(link, head)
  BY Zenon DEF Doubly!Chain, N!Chain, Doubly!Cardinality, N!Cardinality
<1>6. Doubly!Proper(link, head) <=> N!Proper(link, head)
  BY ONLY <1>5, Zenon DEF Doubly!Proper, N!Proper, Doubly!IsInjective, N!IsInjective,
     Doubly!Last, N!Last, Doubly!null, N!null
<1> QED BY <1>1, <1>2, <1>3, <1>4, <1>5, <1>6 DEF Doubly!nodes

LEMMA DoublyContents ==
  ASSUME kind = D, NEW cs, DoublyInv(cs)
  PROVE  /\ contents = Items(Objects, info, cs) /\ contents["list"] = N!Values(info, cs["list"])
         /\ Sorted(contents["list"])
<1>1. One(cs) /\ Doubly!nodes = cs["list"] /\ kind \in {"doublyLinkedList", "linkedQueueType"}
  BY DoublyKnown DEF DoublyInv, D
<1>2. Sorted(N!Values(info, cs["list"]))
  BY DEF DoublyInv
<1> QED BY <1>1, <1>2, OneChainContents

LEMMA DoublyContentsNext ==
  ASSUME kind' = D, NEW cs, DoublyInv(cs)'
  PROVE  contents' = Items(Objects, info', cs)
<1>1. D \in LinkedKinds /\ Heap(Addresses[D], Elements[D], Objects, info', link', cs) /\ "list" \in Objects
  BY DEF LinkedKinds, D, DoublyInv, Objects, Chained
<1>2. N!Chain(link', At(cs["list"], 1)) = cs["list"] /\ head' = At(cs["list"], 1)
  BY <1>1, RoomFor, HeapFacts DEF DoublyInv
<1>3. One(cs) /\ kind' \in {"doublyLinkedList", "linkedQueueType"}
  BY DEF DoublyInv, D, One
<1> QED BY <1>2, <1>3, OneChainContentsNext

LEMMA DoublySet ==
  ASSUME kind = D, kind' = D, NEW cs, DoublyInv(cs), NEW t, NEW v,
         Changed(D, cs, "list", t, v), Sorted(v), Answered',
         head' = At(t, 1), tail' = At(t, Len(t)), size' = Len(t),
         BackField(link2', DOMAIN info'), BackLinked(link2', t)
  PROVE  (\E ds : DoublyInv(ds)') /\ Sequence!Becomes("list", v)
<1>1. PICK ds : ds = [cs EXCEPT !["list"] = t]
  OBVIOUS
<1>2. /\ One(ds) /\ ds["list"] = t /\ N!Values(info', ds["list"]) = v
      /\ Items(Objects, info', ds) = [Items(Objects, info, cs) EXCEPT !["list"] = v]
      /\ Chained(D, ds)'
  <2>1. OneChanged(D, cs, ds, t, v)
    BY <1>1 DEF DoublyInv, Chained, Heap, OneChanged
  <2> QED BY ONLY <2>1, OneSet
<1>3. DoublyInv(ds)'
  <2>1. Sorted(N!Values(info', ds["list"])) /\ BackLinked(link2', ds["list"])
    BY <1>2, Zenon
  <2> QED BY <1>2, <2>1, Zenon DEF DoublyInv
<1>4. contents' = [contents EXCEPT !["list"] = v]
  BY <1>2, <1>3, DoublyContents, DoublyContentsNext
<1> QED BY <1>3, <1>4, Zenon DEF Sequence!Becomes

LEMMA DoublySame ==
  ASSUME kind = D, kind' = D, NEW cs, DoublyInv(cs),
         UNCHANGED <<info, link, link2, head, tail, size>>, Answered'
  PROVE  DoublyInv(cs)' /\ contents' = contents
<1>1. DoublyInv(cs)'
  BY DEF DoublyInv, Chained, BackField
<1>2. contents' = contents
  BY <1>1, DoublyContents, DoublyContentsNext
<1> QED BY <1>1, <1>2

LEMMA DoublyHeld ==
  ASSUME kind = D, NEW cs, DoublyInv(cs), NEW c, c = cs["list"]
  PROVE  Held("list", c) /\ contents["list"] = N!Values(info, c)
<1>1. Known(D, cs, "list", c) /\ contents["list"] = N!Values(info, c)
  BY DoublyKnown, DoublyContents
<1> QED BY <1>1 DEF Held, Known

(* The links back after an insertion and a deletion. *)
LEMMA BackFieldWith ==
  ASSUME NEW b, NEW nds, BackField(b, nds), NEW f, DOMAIN f = nds, NEW a, NEW p, NEW x
  PROVE  BackField(N!With(b, a, p), DOMAIN N!With(f, a, x))
BY DEF BackField, N!With

LEMMA BackFieldWithout ==
  ASSUME NEW b, NEW nds, BackField(b, nds), NEW f, DOMAIN f = nds, NEW gone
  PROVE  BackField(N!Without(b, gone), DOMAIN N!Without(f, gone))
BY DEF BackField, N!Without, N!Restrict

LEMMA BackFieldExcept ==
  ASSUME NEW b, NEW nds, BackField(b, nds), NEW a, NEW p
  PROVE  BackField([b EXCEPT ![a] = p], nds)
BY DEF BackField

LEMMA DoublyInsert ==
  ASSUME kind = D, kind' = D, NEW cs, DoublyInv(cs),
         NEW x, x \in Elements[D], NEW a, a \in Addresses[D], Doubly!insert(x, a)
  PROVE  (\E ds : DoublyInv(ds)') /\ Sequence!insert("list", x)
<1>1. PICK c : c = cs["list"]
  OBVIOUS
<1>2. /\ Known(D, cs, "list", c) /\ Room(Addresses[D]) /\ Chained(D, cs) /\ D \in LinkedKinds
      /\ Doubly!nodes = c /\ "list" \in Objects
      /\ head = At(c, 1) /\ tail = At(c, Len(c)) /\ size = Len(c)
      /\ BackField(link2, DOMAIN info) /\ BackLinked(link2, c)
  BY <1>1, DoublyKnown
<1>3. /\ Ends(c) /\ Len(c) \in Nat /\ N!Values(info, c) \in Seq(Nat) /\ c \in Seq(Nat) /\ IsInjective(c)
      /\ Len(N!Values(info, c)) = Len(c) /\ ToSet(c) \subseteq DOMAIN info
  BY <1>2 DEF Known, ValueEnds
<1>4. PICK k : k = Doubly!FirstFrom(info, c, x) /\ StopsAt(N!Values(info, c), x, k) /\ x \in Nat
  <2>1. Doubly!FirstFrom(info, c, x) = N!FirstFrom(info, c, x)
    BY Zenon DEF Doubly!FirstFrom, N!FirstFrom, Doubly!SelectInSeq, N!SelectInSeq, Doubly!Min, N!Min
  <2> QED BY <2>1, <1>1, <1>2, Stops
<1>5. k \in 1..Len(c) + 1 /\ (k = 1 <=> ~(k > 1))
  BY <1>3, <1>4 DEF StopsAt
<1>6. /\ At(c, k) = (IF k <= Len(c) THEN c[k] ELSE 0)
      /\ At(c, k - 1) = IF k > 1 THEN c[k - 1] ELSE 0
  BY <1>3, <1>5 DEF At
<1>7. /\ a \notin DOMAIN info /\ info' = N!With(info, a, x)
      /\ link' = N!With(IF k = 1 THEN link ELSE [link EXCEPT ![c[k - 1]] = a], a, At(c, k))
      /\ link2' = N!With(IF k > Len(c) THEN link2 ELSE [link2 EXCEPT ![c[k]] = a], a, At(c, k - 1))
      /\ head' = (IF k = 1 THEN a ELSE head) /\ tail' = (IF k > Len(c) THEN a ELSE tail)
      /\ size' = size + 1 /\ reply' = <<"list", "insert", "done", x>>
  <2>1. \E d \in {c} : \E j \in {Doubly!FirstFrom(info, d, x)} :
          /\ a \notin DOMAIN info
          /\ info' = N!With(info, a, x)
          /\ link' = N!With(IF j = 1 THEN link ELSE [link EXCEPT ![d[j - 1]] = a],
                            a, IF j <= Len(d) THEN d[j] ELSE 0)
          /\ link2' = N!With(IF j > Len(d) THEN link2 ELSE [link2 EXCEPT ![d[j]] = a],
                             a, IF j > 1 THEN d[j - 1] ELSE 0)
          /\ head' = IF j = 1 THEN a ELSE head
          /\ tail' = IF j > Len(d) THEN a ELSE tail
          /\ size' = size + 1
          /\ reply' = <<"list", "insert", "done", x>>
    BY <1>2, Zenon DEF Doubly!insert, Doubly!With, N!With, Doubly!null, Doubly!List
  <2> QED BY ONLY <2>1, <1>4, <1>6
<1>8. PICK t, v : /\ Changed(D, cs, "list", t, v) /\ InsertEnd(c, k, a, t)
                  /\ v = InsertAt(N!Values(info, c), k, x) /\ t = InsertAt(c, k, a)
  <2>1. Inserting(D, cs, "list", k, a, x)
    BY <1>1, <1>5, <1>7, Zenon DEF Inserting
  <2> QED BY <1>1, <1>2, <2>1, InsertStep
<1>9. contents["list"] = N!Values(info, c) /\ Sorted(N!Values(info, c))
  BY <1>1, DoublyContents
<1>10. BackLinked(link2', t)
  <2>1. a \in Nat /\ a \notin ToSet(c)
    BY <1>2, <1>3, <1>7 DEF Room
  <2> QED BY <1>2, <1>3, <1>5, <1>7, <1>8, <2>1, BackInsert
<1>11. BackField(link2', DOMAIN info')
  <2>1. BackField(IF k > Len(c) THEN link2 ELSE [link2 EXCEPT ![c[k]] = a], DOMAIN info)
    BY <1>2, BackFieldExcept
  <2> QED BY <1>7, <2>1, BackFieldWith
<1>12. (\E ds : DoublyInv(ds)') /\ Sequence!Becomes("list", v)
  <2>1. head' = At(t, 1) /\ size' = Len(t) /\ tail' = At(t, Len(t))
    BY <1>2, <1>3, <1>5, <1>7, <1>8 DEF InsertEnd
  <2>2. Answered'
    BY <1>7 DEF Answered
  <2>3. Sorted(v)
    BY <1>3, <1>4, <1>8, <1>9, SortedAfterInsert
  <2> QED BY <1>8, <1>10, <1>11, <2>1, <2>2, <2>3, DoublySet
<1>13. Sequence!insert("list", x)
  BY <1>4, <1>7, <1>8, <1>9, <1>12, SequenceInsert
<1> QED BY <1>12, <1>13

(* deleteNode: what both branches make of the links and of the ends.       *)
DoublyDeleted(c, k) ==
  /\ info' = N!Without(info, {c[k]})
  /\ link' = N!Without(IF k = 1 THEN link ELSE [link EXCEPT ![c[k - 1]] = link[c[k]]], {c[k]})
  /\ link2' = N!Without(IF k = Len(c) THEN link2 ELSE [link2 EXCEPT ![c[k + 1]] = At(c, k - 1)], {c[k]})
  /\ head' = IF k = 1 THEN link[c[1]] ELSE head
  /\ tail' = IF k = 1 /\ link[c[1]] = 0 THEN 0
             ELSE IF k > 1 /\ tail = c[k] THEN c[k - 1] ELSE tail

LEMMA DoublyDeletes ==
  ASSUME NEW cs, DoublyInv(cs), NEW c, c = cs["list"], NEW k, k \in 1..Len(c),
         \/ k = 1 /\ Doubly!deleteFirst
         \/ k > 1 /\ Doubly!deleteLater(c[k])
  PROVE  DoublyDeleted(c, k)
<1>1. /\ Known(D, cs, "list", c) /\ head = At(c, 1) /\ tail = At(c, Len(c))
      /\ BackLinked(link2, c)
  BY DoublyKnown
<1>2. /\ Len(c) \in Nat /\ Ends(c) /\ \A i \in 1..Len(c) : link[c[i]] = At(c, i + 1) /\ c[i] \in Nat \ {0}
  BY <1>1 DEF Known
<1>3. \A i \in 1..Len(c) : link2[c[i]] = At(c, i - 1)
  BY <1>1 DEF BackLinked
<1>4. /\ At(c, k + 1) = (IF k = Len(c) THEN 0 ELSE c[k + 1])
      /\ At(c, k - 1) = (IF k = 1 THEN 0 ELSE c[k - 1])
      /\ (k # Len(c) => c[k + 1] # 0)
  BY <1>2 DEF At
<1>5. link[c[k]] = At(c, k + 1) /\ link2[c[k]] = At(c, k - 1)
  BY <1>2, <1>3
<1>6. link[c[k]] = (IF k = Len(c) THEN 0 ELSE c[k + 1]) /\ (link[c[k]] = 0 <=> k = Len(c))
  BY <1>4, <1>5
<1>7. CASE k = 1 /\ Doubly!deleteFirst
  <2>1. head = c[k] /\ k = 1 /\ ~(k > 1) /\ At(c, k - 1) = 0
    BY <1>1, <1>2, <1>4, <1>7 DEF Ends
  <2>2. /\ head' = link[c[k]]
        /\ link2' = N!Without(IF k = Len(c) THEN link2 ELSE [link2 EXCEPT ![link[c[k]]] = 0], {c[k]})
        /\ link' = N!Without(link, {c[k]}) /\ info' = N!Without(info, {c[k]})
        /\ tail' = IF link[c[k]] = 0 THEN 0 ELSE tail
    BY <1>6, <1>7, <2>1, Zenon DEF Doubly!deleteFirst, Doubly!Without, N!Without, Doubly!Restrict, N!Restrict,
       Doubly!null
  <2>3. k # Len(c) => link[c[k]] = c[k + 1]
    BY <1>6
  <2> QED BY <2>1, <2>2, <2>3, Zenon DEF DoublyDeleted
<1>8. CASE k > 1 /\ Doubly!deleteLater(c[k])
  <2>1. k # 1 /\ link2[c[k]] = c[k - 1] /\ At(c, k - 1) = c[k - 1]
    BY <1>4, <1>5, <1>8
  <2>2. /\ link' = N!Without([link EXCEPT ![c[k - 1]] = link[c[k]]], {c[k]})
        /\ link2' = N!Without(IF k = Len(c) THEN link2 ELSE [link2 EXCEPT ![link[c[k]]] = At(c, k - 1)], {c[k]})
        /\ info' = N!Without(info, {c[k]})
        /\ tail' = (IF c[k] = tail THEN c[k - 1] ELSE tail) /\ head' = head
    BY <1>6, <1>8, <2>1, Zenon DEF Doubly!deleteLater, Doubly!Without, N!Without, Doubly!Restrict, N!Restrict,
       Doubly!null
  <2>3. k # Len(c) => link[c[k]] = c[k + 1]
    BY <1>6
  <2> QED BY <1>8, <2>1, <2>2, <2>3, Zenon DEF DoublyDeleted
<1> QED BY <1>7, <1>8

LEMMA DoublyDelete ==
  ASSUME kind = D, kind' = D, NEW cs, DoublyInv(cs), NEW x, x \in Elements[D], Doubly!deleteNode(x)
  PROVE  (\E ds : DoublyInv(ds)') /\ Sequence!deleteNode("list", x)
<1>1. PICK c : c = cs["list"]
  OBVIOUS
<1>2. /\ Known(D, cs, "list", c) /\ Room(Addresses[D]) /\ Chained(D, cs) /\ D \in LinkedKinds
      /\ Doubly!nodes = c /\ "list" \in Objects
      /\ head = At(c, 1) /\ tail = At(c, Len(c)) /\ size = Len(c)
      /\ BackField(link2, DOMAIN info) /\ BackLinked(link2, c)
  BY <1>1, DoublyKnown
<1>3. PICK v : v = N!Values(info, c)
  OBVIOUS
<1>4. /\ Ends(c) /\ Len(c) \in Nat /\ v \in Seq(Nat) /\ Len(v) = Len(c) /\ c \in Seq(Nat) /\ IsInjective(c)
      /\ \A i \in 1..Len(c) : link[c[i]] = At(c, i + 1)
  BY <1>2, <1>3 DEF Known, ValueEnds
<1>5. PICK k : /\ k = Doubly!FirstFrom(info, c, x) /\ StopsAt(v, x, k) /\ x \in Nat
               /\ \A i \in 1..Len(c) : v[i] = info[c[i]]
  <2>1. Doubly!FirstFrom(info, c, x) = N!FirstFrom(info, c, x)
    BY Zenon DEF Doubly!FirstFrom, N!FirstFrom, Doubly!SelectInSeq, N!SelectInSeq, Doubly!Min, N!Min
  <2>2. /\ StopsAt(N!Values(info, c), x, N!FirstFrom(info, c, x)) /\ x \in Nat
        /\ \A i \in 1..Len(c) : N!Values(info, c)[i] = info[c[i]]
    BY <1>1, <1>2, Stops
  <2> QED BY <2>1, <2>2, <1>3
<1>6. contents["list"] = v /\ Sorted(v)
  BY <1>1, <1>3, DoublyContents
<1>7. k \in 1..Len(c) + 1 /\ (k <= Len(c) => k \in 1..Len(c) /\ v[k] = info[c[k]]) /\ (k # 1 <=> k > 1)
  BY <1>4, <1>5 DEF StopsAt
<1>8. Doubly!Holds(c, k, x) <=> k <= Len(v) /\ v[k] = x
  BY <1>4, <1>7 DEF Doubly!Holds
<1>9. CASE ~Doubly!Holds(c, k, x)
  <2>1. UNCHANGED <<info, link, link2, head, tail, size>> /\ reply' = <<"list", "deleteNode", "refused", x>>
    <3>1. UNCHANGED <<Doubly!heap, head, tail, size>> /\ reply' = <<"list", "deleteNode", "refused", x>>
      BY <1>2, <1>5, <1>9, Zenon DEF Doubly!deleteNode, Doubly!List
    <3> QED BY <3>1 DEF Doubly!heap
  <2>2. Answered'
    BY <2>1 DEF Answered
  <2>3. DoublyInv(cs)' /\ contents' = contents
    BY <2>1, <2>2, DoublySame
  <2>4. Sequence!deleteNode("list", x)
    BY <1>4, <1>5, <1>6, <1>8, <1>9, <2>1, <2>3, SequenceRefuses
  <2> QED BY <2>3, <2>4
<1>10. CASE Doubly!Holds(c, k, x)
  <2>1. k \in 1..Len(c) /\ v[k] = x
    BY <1>4, <1>7, <1>8, <1>10
  <2>2. /\ (k = 1 /\ Doubly!deleteFirst) \/ (k > 1 /\ Doubly!deleteLater(c[k]))
        /\ size' = size - 1 /\ reply' = <<"list", "deleteNode", "done", x>>
    BY <1>2, <1>5, <1>10, Zenon DEF Doubly!deleteNode, Doubly!List
  <2>3. DoublyDeleted(c, k)
    BY <1>1, <2>1, <2>2, DoublyDeletes
  <2>4. PICK t, w : /\ Changed(D, cs, "list", t, w) /\ RemoveEnd(c, k, t)
                    /\ w = RemoveAt(v, k) /\ t = RemoveAt(c, k)
    <3>1. Removing(cs, "list", k)
      BY <1>1, <2>1, <2>3, Zenon DEF Removing, DoublyDeleted
    <3> QED BY <1>1, <1>2, <1>3, <3>1, RemoveStep
  <2>5. head' = At(t, 1) /\ size' = Len(t) /\ tail' = At(t, Len(t))
    <3>1. link[c[1]] = At(c, 2)
      BY <1>4, <2>1
    <3> QED BY <1>2, <2>2, <2>3, <2>4, <3>1 DEF RemoveEnd, DoublyDeleted
  <2>6. BackLinked(link2', t)
    BY <1>2, <1>4, <2>1, <2>3, <2>4, BackRemove DEF DoublyDeleted
  <2>7. BackField(link2', DOMAIN info')
    <3>1. BackField(IF k = Len(c) THEN link2 ELSE [link2 EXCEPT ![c[k + 1]] = At(c, k - 1)], DOMAIN info)
      BY <1>2, BackFieldExcept
    <3> QED BY <2>3, <3>1, BackFieldWithout DEF DoublyDeleted
  <2>8. (\E ds : DoublyInv(ds)') /\ Sequence!Becomes("list", w)
    <3>1. Answered'
      BY <2>2 DEF Answered
    <3>2. Sorted(w)
      BY <1>4, <1>6, <2>1, <2>4, SortedRemove
    <3> QED BY <2>4, <2>5, <2>6, <2>7, <3>1, <3>2, DoublySet
  <2>9. Sequence!deleteNode("list", x)
    <3>1. k <= Len(v)
      BY <1>4, <2>1
    <3> QED BY <1>4, <1>5, <1>6, <2>1, <2>2, <2>4, <2>8, <3>1, SequenceDelete
  <2> QED BY <2>8, <2>9
<1> QED BY <1>9, <1>10

LEMMA DoublyDestroy ==
  ASSUME kind = D, kind' = D, NEW cs, DoublyInv(cs), Doubly!destroy
  PROVE  (\E ds : DoublyInv(ds)') /\ Sequence!destroyList("list")
<1>1. /\ Chained(D, cs) /\ D \in LinkedKinds /\ Doubly!nodes = cs["list"] /\ "list" \in Objects
      /\ BackField(link2, DOMAIN info)
  BY DoublyKnown
<1>2. /\ info' = N!Without(info, ToSet(cs["list"])) /\ link' = N!Without(link, ToSet(cs["list"]))
      /\ link2' = N!Without(link2, ToSet(cs["list"]))
      /\ head' = 0 /\ tail' = 0 /\ size' = 0 /\ reply' = <<"list", "destroyList", "done">>
  BY <1>1, Zenon DEF Doubly!destroy, Doubly!ToSet, ToSet, Doubly!Without,
     N!Without, Doubly!Restrict, N!Restrict, Doubly!null, Doubly!List
<1>3. PICK t, v : t = <<>> /\ v = <<>> /\ Changed(D, cs, "list", t, v)
  BY <1>1, <1>2, ClearStep
<1>4. At(t, 1) = 0 /\ At(t, Len(t)) = 0 /\ Len(t) = 0 /\ Sorted(v) /\ BackLinked(link2', t)
  BY <1>3 DEF At, Sorted, BackLinked
<1>5. BackField(link2', DOMAIN info')
  BY <1>1, <1>2, BackFieldWithout
<1>6. Answered'
  BY <1>2 DEF Answered
<1>7. (\E ds : DoublyInv(ds)') /\ Sequence!Becomes("list", v)
  BY <1>2, <1>3, <1>4, <1>5, <1>6, DoublySet
<1> QED BY <1>2, <1>3, <1>7, Zenon DEF Sequence!destroyList, Sequence!Answers

LEMMA DoublyReads ==
  ASSUME kind = D, kind' = D, NEW cs, DoublyInv(cs), Doubly!front \/ Doubly!Back \/ Doubly!length
  PROVE  /\ DoublyInv(cs)'
         /\ Sequence!front("list") \/ Sequence!back("list") \/ Sequence!length("list")
<1>1. PICK c : c = cs["list"]
  OBVIOUS
<1>2. Held("list", c) /\ head = At(c, 1) /\ tail = At(c, Len(c)) /\ size = Len(c)
  BY <1>1, DoublyHeld, DoublyKnown
<1>3. /\ UNCHANGED <<info, link, link2, head, tail, size>>
      /\ \/ reply' = IF At(c, 1) = 0 THEN <<"list", "front", "aborted">>
                     ELSE <<"list", "front", "value", info[At(c, 1)]>>
         \/ reply' = IF At(c, Len(c)) = 0 THEN <<"list", "back", "aborted">>
                     ELSE <<"list", "back", "value", info[At(c, Len(c))]>>
         \/ reply' = <<"list", "length", "value", Len(c)>>
  BY <1>2 DEF Doubly!front, Doubly!Back, Doubly!length, Doubly!EndOf, Doubly!Answers, Doubly!heap,
     Doubly!null, Doubly!List
<1>4. Answered'
  BY <1>3 DEF Answered
<1>5. DoublyInv(cs)' /\ contents' = contents
  BY <1>3, <1>4, DoublySame
<1> QED BY <1>2, <1>3, <1>5, FrontIs, BackIs, LengthIs

LEMMA DoublySearch ==
  ASSUME kind = D, kind' = D, NEW cs, DoublyInv(cs), NEW x, Doubly!search(x)
  PROVE  DoublyInv(cs)' /\ Sequence!search("list", x)
<1>1. PICK c : c = cs["list"]
  OBVIOUS
<1>2. Held("list", c) /\ Known(D, cs, "list", c) /\ Doubly!nodes = c
  BY <1>1, DoublyHeld, DoublyKnown
<1>3. Doubly!FirstWith(info, c, x) = Find(N!Values(info, c), x)
  <2>1. Doubly!FirstWith(info, c, x) = N!FirstWith(info, c, x)
    BY Zenon DEF Doubly!FirstWith, N!FirstWith, Doubly!SelectInSeq, N!SelectInSeq, Doubly!Min, N!Min
  <2> QED BY <2>1, <1>2, FirstWithIsFind DEF Known
<1>4. UNCHANGED <<Doubly!heap, head, tail, size>>
      /\ reply' = <<"list", "search", IF Find(N!Values(info, c), x) # 0 THEN "found" ELSE "missing", x>>
  BY <1>2, <1>3, Zenon DEF Doubly!search, Doubly!Answers, Doubly!List
<1>5. UNCHANGED <<info, link, link2, head, tail, size>>
  BY <1>4 DEF Doubly!heap
<1>6. Answered'
  BY <1>4 DEF Answered
<1>7. DoublyInv(cs)' /\ contents' = contents
  BY <1>5, <1>6, DoublySame
<1> QED BY <1>2, <1>4, <1>7, SearchIs

LEMMA DoublyStep ==
  ASSUME kind = D, kind' = D, NEW cs, DoublyInv(cs), Doubly!Next
  PROVE  /\ \E ds : DoublyInv(ds)'
         /\ UNCHANGED <<info, link, link2, head, tail, size, reply>> \/ Sequence!Next
<1> DEFINE StillInv == \E ds : DoublyInv(ds)'
<1>1. \A x \in Elements[D] : x \in UNION {Elements[k] : k \in SequenceKinds}
  BY DEF SequenceKinds, LinkedKinds, D
<1>2. "list" \in Objects
  BY DEF Objects
<1>3. CASE Doubly!Ended
  <2>1. UNCHANGED <<info, link, link2, head, tail, size, reply>>
    BY <1>3 DEF Doubly!Ended, Doubly!vars, Doubly!heap
  <2>2. Answered'
    BY <2>1 DEF Answered, DoublyInv
  <2> QED BY <2>1, <2>2, DoublySame
<1>4. ASSUME Doubly!destroy \/ Doubly!front \/ Doubly!Back \/ Doubly!length
      PROVE  StillInv /\ Sequence!Next
  BY <1>2, <1>4, DoublyDestroy, DoublyReads, Zenon DEF Sequence!Next
<1>5. ASSUME NEW x \in Elements[D], Doubly!deleteNode(x) \/ Doubly!search(x)
      PROVE  StillInv /\ Sequence!Next
  <2>1. CASE Doubly!deleteNode(x)
    BY <2>1, <1>1, <1>2, <1>5, DoublyDelete, Zenon DEF Sequence!Next
  <2>2. CASE Doubly!search(x)
    BY <2>2, <1>1, <1>2, <1>5, DoublySearch, Zenon DEF Sequence!Next
  <2> QED BY <1>5, <2>1, <2>2
<1>6. ASSUME NEW x \in Elements[D], NEW a \in Addresses[D], Doubly!insert(x, a)
      PROVE  StillInv /\ Sequence!Next
  BY <1>1, <1>2, <1>6, DoublyInsert, Zenon DEF Sequence!Next
<1> HIDE DEF StillInv
<1>7. Doubly!Ended \/ (StillInv /\ Sequence!Next)
  BY <1>4, <1>5, <1>6, Zenon DEF Doubly!Next, D
<1> QED BY <1>3, <1>7 DEF StillInv

-----------------------------------------------------------------------------
(* The search tree.                                                        *)
B == "bSearchTreeType"

TreeInv(w) == TreeOf(Addresses[B], Elements[B], info, link, link2, head, w)

Members == {info[p] : p \in DOMAIN info}

LEMMA TreeBounds == Bounds(Addresses[B], Elements[B])
BY RoomFor DEF Bounds, LinkedKinds, B

(* What Path returns, and when it ends at a node with the element. *)
LEMMA TreePath ==
  ASSUME NEW w, TreeInv(w), NEW x
  PROVE  \E s : /\ Tree!Path(x) = s /\ Linked(Route(info, link, link2, x), head, s)
                /\ Tree!Hit(s, x) <=> (s # <<>> /\ info[s[Len(s)]] = x)
                /\ Tree!Hit(s, x) <=> x \in Members
                /\ \A q \in DOMAIN info : info[q] = x => s = w[q]
                /\ s # <<>> => s[Len(s)] \in DOMAIN info /\ s = w[s[Len(s)]]
<1>1. Bounds(Addresses[B], Elements[B]) /\ TreeOf(Addresses[B], Elements[B], info, link, link2, head, w)
  BY TreeBounds DEF TreeInv
<1>2. PICK s : Linked(Route(info, link, link2, x), head, s)
  BY ONLY <1>1, WaysEnd
<1>3. Pointers(Route(info, link, link2, x))
  BY ONLY <1>1, TreeTypes
<1>4. N!Chain(Route(info, link, link2, x), head) = s
  BY ONLY <1>2, <1>3, ChainIs
<1>5. Tree!Path(x) = N!Chain(Route(info, link, link2, x), head)
  BY Zenon DEF Tree!Path, Tree!Chain, N!Chain, Tree!Cardinality, N!Cardinality, Route, Tree!null
<1>6. Tree!Hit(s, x) <=> (s # <<>> /\ info[s[Len(s)]] = x)
  BY Zenon DEF Tree!Hit, Tree!Last
<1>7. /\ \A q \in DOMAIN info : info[q] = x => s = w[q]
      /\ s # <<>> => s[Len(s)] \in DOMAIN info /\ s = w[s[Len(s)]]
      /\ (\E q \in DOMAIN info : info[q] = x) <=> (s # <<>> /\ info[s[Len(s)]] = x)
  BY ONLY <1>1, <1>2, SearchFinds
<1>8. (\E q \in DOMAIN info : info[q] = x) <=> x \in Members
  BY DEF Members
<1> QED BY <1>2, <1>4, <1>5, <1>6, <1>7, <1>8

(* The calls of the set. *)
LEMMA SetCalls ==
  ASSUME kind = B, kind' = B, NEW x \in Elements[B]
  PROVE  /\ Members' = Members \cup {x}
            /\ reply' = <<"insert", x, IF x \in Members THEN "refused" ELSE "done">> => Set!Next
         /\ Members' = Members \ {x}
            /\ reply' = <<"deleteNode", x, IF x \in Members THEN "done" ELSE "refused">> => Set!Next
         /\ Members' = Members
            /\ reply' = <<"search", x, IF x \in Members THEN "found" ELSE "missing">> => Set!Next
<1>1. ASSUME Members' = Members \cup {x}, reply' = <<"insert", x, IF x \in Members THEN "refused" ELSE "done">>
      PROVE  Set!insert(x)
  BY <1>1 DEF Set!insert, Members, B
<1>2. ASSUME Members' = Members \ {x}, reply' = <<"deleteNode", x, IF x \in Members THEN "done" ELSE "refused">>
      PROVE  Set!deleteNode(x)
  BY <1>2 DEF Set!deleteNode, Members, B
<1>3. ASSUME Members' = Members, reply' = <<"search", x, IF x \in Members THEN "found" ELSE "missing">>
      PROVE  Set!search(x)
  BY <1>3 DEF Set!search, Members, B
<1>4. Set!insert(x) \/ Set!deleteNode(x) \/ Set!search(x) => Set!Next
  BY DEF Set!Next, B
<1> QED BY <1>1, <1>2, <1>3, <1>4

LEMMA TreeSame ==
  ASSUME NEW w, TreeInv(w), UNCHANGED <<info, link, link2, head>>
  PROVE  TreeInv(w)' /\ Members' = Members
BY DEF TreeInv, Members

LEMMA TreeSearch ==
  ASSUME kind = B, kind' = B, NEW w, TreeInv(w), NEW x \in Elements[B], Tree!search(x)
  PROVE  TreeInv(w)' /\ Set!Next
<1>1. PICK s : Tree!Path(x) = s /\ (Tree!Hit(s, x) <=> x \in Members)
  BY TreePath
<1>2. /\ reply' = <<"search", x, IF Tree!Hit(Tree!Path(x), x) THEN "found" ELSE "missing">>
      /\ UNCHANGED <<info, link, link2, head>>
  BY DEF Tree!search, Tree!Answers, Tree!heap
<1>3. reply' = <<"search", x, IF x \in Members THEN "found" ELSE "missing">>
  BY <1>1, <1>2
<1>4. TreeInv(w)' /\ Members' = Members
  BY <1>2, TreeSame
<1> QED BY <1>3, <1>4, SetCalls

LEMMA TreeInserts ==
  ASSUME kind = B, kind' = B, NEW w, TreeInv(w), NEW x \in Elements[B], NEW a \in Addresses[B],
         Tree!insert(x, a)
  PROVE  (\E v : TreeInv(v)') /\ Set!Next
<1>0. Bounds(Addresses[B], Elements[B]) /\ TreeOf(Addresses[B], Elements[B], info, link, link2, head, w)
  BY TreeBounds DEF TreeInv
<1>1. PICK s : /\ Tree!Path(x) = s /\ Linked(Route(info, link, link2, x), head, s)
               /\ Tree!Hit(s, x) <=> x \in Members
  BY TreePath
<1>2. /\ a \notin DOMAIN info
      /\ \/ Tree!Hit(s, x) /\ Tree!Answers(<<"insert", x, "refused">>)
         \/ /\ ~Tree!Hit(s, x)
            /\ info' = Tree!With(info, a, x)
            /\ head' = IF s = <<>> THEN a ELSE head
            /\ link' = Tree!With(IF s # <<>> /\ info[Tree!Last(s)] > x
                                 THEN [link EXCEPT ![Tree!Last(s)] = a] ELSE link, a, Tree!null)
            /\ link2' = Tree!With(IF s # <<>> /\ info[Tree!Last(s)] < x
                                  THEN [link2 EXCEPT ![Tree!Last(s)] = a] ELSE link2, a, Tree!null)
            /\ reply' = <<"insert", x, "done">>
  BY <1>1, Zenon DEF Tree!insert
<1>3. CASE Tree!Hit(s, x) /\ Tree!Answers(<<"insert", x, "refused">>)
  <2>1. reply' = <<"insert", x, "refused">> /\ UNCHANGED <<info, link, link2, head>>
    BY <1>3 DEF Tree!Answers, Tree!heap
  <2>2. TreeInv(w)' /\ Members' = Members
    BY <2>1, TreeSame
  <2>3. x \in Members /\ Members' = Members \cup {x}
    BY <1>1, <1>3, <2>2
  <2> QED BY <2>1, <2>2, <2>3, SetCalls
<1>4. CASE ~Tree!Hit(s, x)
  <2>1. Planted(info, link, link2, head, s, x, a, info', link', link2', head')
    BY <1>2, <1>4, Zenon DEF Planted, Tree!With, N!With, Tree!Last, Tree!null
  <2>2. \A q \in DOMAIN info : info[q] # x
    BY <1>1, <1>4 DEF Members
  <2>3. Linked(Route(info, link, link2, x), head, s) /\ a \notin DOMAIN info
    BY <1>1, <1>2
  <2>4. PICK v : TreeOf(Addresses[B], Elements[B], info', link', link2', head', v)
    BY ONLY <1>0, <2>1, <2>2, <2>3, x \in Elements[B], a \in Addresses[B], TreeInsert
  <2>5. TreeInv(v)'
    BY <2>4 DEF TreeInv
  <2>6. info' = Tree!With(info, a, x) /\ reply' = <<"insert", x, "done">>
    BY <1>2, <1>4
  <2>7. x \notin Members
    BY <1>1, <1>4
  <2>8. Members' = Members \cup {x}
    BY <2>3, <2>6 DEF Members, Tree!With
  <2> QED BY <2>5, <2>6, <2>7, <2>8, SetCalls
<1> QED BY <1>2, <1>3, <1>4

(* Bypass takes the node out of the tree. *)
LEMMA TreeBypass ==
  ASSUME NEW w, TreeInv(w), NEW x, NEW n \in DOMAIN info, info[n] = x, NEW s, s = w[n], NEW child,
         (link[n] = 0 /\ child = link2[n]) \/ (link2[n] = 0 /\ child = link[n]),
         Tree!Bypass(s, x, child)
  PROVE  (\E v : TreeInv(v)') /\ Members' = Members \ {x}
<1>0. Bounds(Addresses[B], Elements[B]) /\ TreeOf(Addresses[B], Elements[B], info, link, link2, head, w)
  BY TreeBounds DEF TreeInv
<1>1. s \in Seq(Nat) /\ Len(s) \in 1..Cardinality(DOMAIN info) /\ s[Len(s)] = n
      /\ Cardinality(DOMAIN info) \in Nat
  <2>1. n \in DOMAIN info
    OBVIOUS
  <2>2. /\ w[n] \in Seq(Nat) /\ Len(w[n]) \in 1..Cardinality(DOMAIN info) /\ w[n][Len(w[n])] = n
        /\ Cardinality(DOMAIN info) \in Nat
    BY ONLY <1>0, <2>1, WayFacts
  <2> QED BY <2>2
<1>2. PICK b : b = w[n][Len(w[n]) - 1]
  OBVIOUS
<1>3. /\ Len(w[n]) > 1 => b \in DOMAIN info /\ b # n
      /\ \A p \in DOMAIN info :
           /\ link[p] = n <=> Len(w[n]) > 1 /\ p = b /\ info[b] > info[n]
           /\ link2[p] = n <=> Len(w[n]) > 1 /\ p = b /\ info[b] < info[n]
      /\ head = n <=> Len(w[n]) = 1
  <2>1. n \in DOMAIN info
    OBVIOUS
  <2> QED BY ONLY <1>0, <1>2, <2>1, ParentOf
<1>4. PICK before : before = IF Len(s) = 1 THEN 0 ELSE s[Len(s) - 1]
  OBVIOUS
<1>5. /\ head' = IF before = 0 THEN child ELSE head
      /\ link' = Tree!Without(IF before # 0 /\ info[before] > x
                              THEN [link EXCEPT ![before] = child] ELSE link, {n})
      /\ link2' = Tree!Without(IF before # 0 /\ info[before] < x
                               THEN [link2 EXCEPT ![before] = child] ELSE link2, {n})
      /\ info' = Tree!Without(info, {n})
  <2>1. Tree!Last(s) = n /\ Tree!null = 0
    BY <1>1 DEF Tree!Last, Tree!null
  <2> QED BY <1>4, <2>1, Zenon DEF Tree!Bypass
<1>6. 0 \notin DOMAIN info /\ DOMAIN link = DOMAIN info /\ DOMAIN link2 = DOMAIN info
  <2>1. 0 \notin DOMAIN info
    BY ONLY <1>0, TreeTypes
  <2> QED BY <1>0, <2>1 DEF TreeOf
<1>7. (before = 0 <=> Len(s) = 1) /\ (Len(s) # 1 => Len(s) > 1 /\ before = b) 
  <2>1. PICK e \in Nat : e = Len(s) /\ e >= 1
    BY <1>1
  <2>2. CASE e = 1
    BY <2>1, <2>2, <1>4
  <2>3. CASE e # 1
    <3>3. Len(s) # 1 /\ s = w[n]
      BY <2>1, <2>3
    <3>4. before = b
      BY <3>3, <1>2, <1>4, Zenon
    <3>5. e >= 1 /\ e # 1
      BY <2>1, <2>3
    <3>6. e > 1
      BY ONLY <3>5, e \in Nat
    <3>1. Len(w[n]) > 1 /\ before = b
      BY <2>1, <3>3, <3>4, <3>6, Zenon
    <3>2. before # 0
      BY <3>1, <1>3, <1>6
    <3> QED BY <2>1, <2>3, <3>1, <3>2
  <2> QED BY <2>2, <2>3
<1>20. (before # 0 <=> Len(w[n]) > 1) /\ (Len(w[n]) > 1 => before = b) /\ (before = 0 <=> Len(w[n]) = 1)
  <2>1. PICK e \in Nat : e = Len(s) /\ e = Len(w[n]) /\ e >= 1
    BY <1>1
  <2>2. (before = 0 <=> e = 1) /\ (e # 1 => before = b)
    BY <1>7, <2>1
  <2>3. e > 1 <=> e # 1
    <3>1. e >= 1
      BY <2>1
    <3> QED BY ONLY <3>1, e \in Nat
  <2> QED BY <2>1, <2>2, <2>3
<1>8. \A p \in DOMAIN info :
        /\ link[p] = n <=> before # 0 /\ p = before /\ info[before] > x
        /\ link2[p] = n <=> before # 0 /\ p = before /\ info[before] < x
  BY <1>3, <1>20
<1>9. head = n <=> before = 0
  BY <1>3, <1>20
<1>10. info' = [p \in DOMAIN info \ {n} |-> info[p]]
  BY <1>5 DEF Tree!Without, Tree!Restrict
<1>11. link' = [p \in DOMAIN info \ {n} |-> IF link[p] = n THEN child ELSE link[p]]
  <2>1. link' = [p \in DOMAIN info \ {n} |->
                  (IF before # 0 /\ info[before] > x THEN [link EXCEPT ![before] = child] ELSE link)[p]]
    BY <1>5, <1>6 DEF Tree!Without, Tree!Restrict
  <2>2. \A p \in DOMAIN info \ {n} :
          (IF before # 0 /\ info[before] > x THEN [link EXCEPT ![before] = child] ELSE link)[p]
          = IF link[p] = n THEN child ELSE link[p]
    BY <1>6, <1>8
  <2> QED BY <2>1, <2>2, Zenon
<1>12. link2' = [p \in DOMAIN info \ {n} |-> IF link2[p] = n THEN child ELSE link2[p]]
  <2>1. link2' = [p \in DOMAIN info \ {n} |->
                  (IF before # 0 /\ info[before] < x THEN [link2 EXCEPT ![before] = child] ELSE link2)[p]]
    BY <1>5, <1>6 DEF Tree!Without, Tree!Restrict
  <2>2. \A p \in DOMAIN info \ {n} :
          (IF before # 0 /\ info[before] < x THEN [link2 EXCEPT ![before] = child] ELSE link2)[p]
          = IF link2[p] = n THEN child ELSE link2[p]
    BY <1>6, <1>8
  <2> QED BY <2>1, <2>2, Zenon
<1>13. head' = IF head = n THEN child ELSE head
  BY <1>5, <1>9
<1>14. Unlinked(info, link, link2, head, n, child, info', link', link2', head')
  BY <1>10, <1>11, <1>12, <1>13, Zenon DEF Unlinked
<1>15. PICK v : TreeOf(Addresses[B], Elements[B], info', link', link2', head', v)
  <2>1. n \in DOMAIN info
    OBVIOUS
  <2>2. (link[n] = 0 /\ child = link2[n]) \/ (link2[n] = 0 /\ child = link[n])
    OBVIOUS
  <2>3. CASE link[n] = 0 /\ child = link2[n]
    BY ONLY <1>0, <2>1, <2>2, <1>14, TreeUnlink
  <2>4. CASE link2[n] = 0 /\ child = link[n]
    BY ONLY <1>0, <2>1, <2>2, <1>14, TreeUnlink
  <2> QED BY <2>2, <2>3, <2>4
<1>16. \A q \in DOMAIN info : info[q] = x => q = n
  <2> SUFFICES ASSUME NEW q \in DOMAIN info, info[q] = x PROVE q = n
    OBVIOUS
  <2>1. q \in DOMAIN info /\ n \in DOMAIN info /\ info[q] = info[n]
    OBVIOUS
  <2> QED BY ONLY <1>0, <2>1, KeysApart
<1>17. Members' = Members \ {x}
  BY <1>10, <1>16 DEF Members
<1> QED BY <1>15, <1>17 DEF TreeInv

LEMMA TreeTakes ==
  ASSUME NEW w, TreeInv(w), NEW n \in DOMAIN info, link[n] # 0, Tree!TakePredecessor(n)
  PROVE  (\E v : TreeInv(v)') /\ Members' = Members \ {info[n]}
<1>0. Bounds(Addresses[B], Elements[B]) /\ TreeOf(Addresses[B], Elements[B], info, link, link2, head, w)
  BY TreeBounds DEF TreeInv
<1>1. n \in DOMAIN info /\ link[n] # 0
  OBVIOUS
<1>2. DOMAIN link = DOMAIN info /\ DOMAIN link2 = DOMAIN info /\ link[n] \in DOMAIN info
  BY <1>0 DEF TreeOf
<1>3. PICK c : Linked(link2, link[n], c)
  <2>1. link[n] \in DOMAIN info \cup {0}
    BY <1>2
  <2> QED BY ONLY <1>0, <2>1, WaysEnd
<1>4. Pointers(link2)
  BY ONLY <1>0, TreeTypes
<1>5. N!Chain(link2, link[n]) = c
  BY ONLY <1>3, <1>4, ChainIs
<1>6. Tree!Chain(link2, link[n]) = c
  BY <1>5, Zenon DEF Tree!Chain, N!Chain, Tree!Cardinality, N!Cardinality
<1>7. PICK m : m = c[Len(c)]
  OBVIOUS
<1>8. /\ info' = Tree!Without([info EXCEPT ![n] = info[m]], {m})
      /\ link' = Tree!Without(IF Len(c) > 1 THEN link ELSE [link EXCEPT ![n] = link[m]], {m})
      /\ link2' = Tree!Without(IF Len(c) = 1 THEN link2
                               ELSE [link2 EXCEPT ![c[Len(c) - 1]] = link[m]], {m})
      /\ head' = head
  <2>1. Tree!Last(c) = m
    BY <1>7 DEF Tree!Last
  <2> QED BY <1>6, <2>1, Zenon DEF Tree!TakePredecessor
<1>9. Len(c) \in Nat /\ Len(c) >= 1 /\ \A i \in 1..Len(c) : c[i] \in DOMAIN info
  BY ONLY <1>0, <1>1, <1>3, Spine
<1>10. m \in DOMAIN info /\ m # n
  BY ONLY <1>0, <1>1, <1>3, <1>7, Predecessor
<1>11. info' = [p \in DOMAIN info \ {m} |-> IF p = n THEN info[m] ELSE info[p]]
  BY <1>8 DEF Tree!Without, Tree!Restrict
<1>12. link' = [p \in DOMAIN info \ {m} |-> IF Len(c) = 1 /\ p = n THEN link[m] ELSE link[p]]
  <2>1. link' = [p \in DOMAIN info \ {m} |-> (IF Len(c) > 1 THEN link ELSE [link EXCEPT ![n] = link[m]])[p]]
    BY <1>2, <1>8 DEF Tree!Without, Tree!Restrict
  <2>2. Len(c) > 1 <=> Len(c) # 1
    <3>1. PICK e \in Nat : e = Len(c) /\ e >= 1
      BY <1>9
    <3>2. e > 1 <=> e # 1
      BY ONLY <3>1, e \in Nat
    <3> QED BY <3>1, <3>2
  <2>3. \A p \in DOMAIN info \ {m} : (IF Len(c) > 1 THEN link ELSE [link EXCEPT ![n] = link[m]])[p]
                                     = IF Len(c) = 1 /\ p = n THEN link[m] ELSE link[p]
    BY <1>2, <2>2
  <2> QED BY <2>1, <2>3, Zenon
<1>13. link2' = [p \in DOMAIN info \ {m} |-> IF Len(c) > 1 /\ p = c[Len(c) - 1] THEN link[m] ELSE link2[p]]
  <2>1. link2' = [p \in DOMAIN info \ {m} |->
                   (IF Len(c) = 1 THEN link2 ELSE [link2 EXCEPT ![c[Len(c) - 1]] = link[m]])[p]]
    BY <1>2, <1>8 DEF Tree!Without, Tree!Restrict
  <2>2. Len(c) > 1 <=> Len(c) # 1
    <3>1. PICK e \in Nat : e = Len(c) /\ e >= 1
      BY <1>9
    <3>2. e > 1 <=> e # 1
      BY ONLY <3>1, e \in Nat
    <3> QED BY <3>1, <3>2
  <2>3. \A p \in DOMAIN info \ {m} :
          (IF Len(c) = 1 THEN link2 ELSE [link2 EXCEPT ![c[Len(c) - 1]] = link[m]])[p]
          = IF Len(c) > 1 /\ p = c[Len(c) - 1] THEN link[m] ELSE link2[p]
    BY <1>2, <2>2
  <2> QED BY <2>1, <2>3, Zenon
<1>14. Taken(info, link, link2, n, c, m, info', link', link2')
  BY <1>11, <1>12, <1>13, Zenon DEF Taken
<1>15. PICK v : TreeOf(Addresses[B], Elements[B], info', link', link2', head, v)
  BY ONLY <1>0, <1>1, <1>3, <1>7, <1>14, TreeTake
<1>16. TreeInv(v)'
  BY <1>8, <1>15 DEF TreeInv
<1>17. \A q \in DOMAIN info : info[q] = info[n] => q = n
  <2> SUFFICES ASSUME NEW q \in DOMAIN info, info[q] = info[n] PROVE q = n
    OBVIOUS
  <2>1. q \in DOMAIN info /\ n \in DOMAIN info /\ info[q] = info[n]
    OBVIOUS
  <2> QED BY ONLY <1>0, <2>1, KeysApart
<1>18. Members' = Members \ {info[n]}
  <2>1. ASSUME NEW q \in DOMAIN info, q # n PROVE info[q] \in Members' /\ info[q] # info[n]
    <3>1. CASE q = m
      BY <1>1, <1>10, <1>11, <1>17, <2>1, <3>1 DEF Members
    <3>2. CASE q # m
      BY <1>11, <1>17, <2>1, <3>2 DEF Members
    <3> QED BY <3>1, <3>2
  <2>2. ASSUME NEW q \in DOMAIN info \ {m} PROVE info'[q] \in Members \ {info[n]}
    BY <1>10, <1>11, <1>17, <2>2 DEF Members
  <2>3. DOMAIN info' = DOMAIN info \ {m}
    BY <1>11
  <2> QED BY <2>1, <2>2, <2>3 DEF Members
<1> QED BY <1>16, <1>18

LEMMA TreeDeletes ==
  ASSUME kind = B, kind' = B, NEW w, TreeInv(w), NEW x \in Elements[B], Tree!deleteNode(x)
  PROVE  (\E v : TreeInv(v)') /\ Set!Next
<1>1. PICK s : /\ Tree!Path(x) = s /\ (Tree!Hit(s, x) <=> x \in Members)
               /\ Tree!Hit(s, x) <=> (s # <<>> /\ info[s[Len(s)]] = x)
               /\ s # <<>> => s[Len(s)] \in DOMAIN info /\ s = w[s[Len(s)]]
  BY TreePath
<1>2. PICK n : n = s[Len(s)]
  OBVIOUS
<1>3. \/ ~Tree!Hit(s, x) /\ Tree!Answers(<<"deleteNode", x, "refused">>)
      \/ /\ Tree!Hit(s, x)
         /\ \/ link[n] = 0 /\ Tree!Bypass(s, x, link2[n])
            \/ link[n] # 0 /\ link2[n] = 0 /\ Tree!Bypass(s, x, link[n])
            \/ link[n] # 0 /\ link2[n] # 0 /\ Tree!TakePredecessor(n)
         /\ reply' = <<"deleteNode", x, "done">>
  <2>1. Tree!Last(s) = n /\ Tree!null = 0
    BY <1>2 DEF Tree!Last, Tree!null
  <2> QED BY <1>1, <2>1, Zenon DEF Tree!deleteNode
<1>4. CASE ~Tree!Hit(s, x)
  <2>1. reply' = <<"deleteNode", x, "refused">> /\ UNCHANGED <<info, link, link2, head>>
    BY <1>3, <1>4 DEF Tree!Answers, Tree!heap
  <2>2. TreeInv(w)' /\ Members' = Members
    BY <2>1, TreeSame
  <2>3. x \notin Members /\ Members' = Members \ {x}
    BY <1>1, <1>4, <2>2
  <2> QED BY <2>1, <2>2, <2>3, SetCalls
<1>5. CASE Tree!Hit(s, x)
  <2>1. n \in DOMAIN info /\ info[n] = x /\ s = w[n] /\ x \in Members /\ TreeInv(w)
    BY <1>1, <1>2, <1>5
  <2>2. reply' = <<"deleteNode", x, "done">>
    BY <1>3, <1>5
  <2>3. (\E v : TreeInv(v)') /\ Members' = Members \ {x}
    <3>1. CASE link[n] = 0 /\ Tree!Bypass(s, x, link2[n])
      BY <2>1, <3>1, TreeBypass
    <3>2. CASE link[n] # 0 /\ link2[n] = 0 /\ Tree!Bypass(s, x, link[n])
      BY <2>1, <3>2, TreeBypass
    <3>3. CASE link[n] # 0 /\ link2[n] # 0 /\ Tree!TakePredecessor(n)
      BY <2>1, <3>3, TreeTakes
    <3> QED BY <1>3, <1>5, <3>1, <3>2, <3>3
  <2> QED BY <2>1, <2>2, <2>3, SetCalls
<1> QED BY <1>4, <1>5

LEMMA TreeStep ==
  ASSUME kind = B, kind' = B, NEW w, TreeInv(w), Tree!Next
  PROVE  (\E v : TreeInv(v)') /\ Set!Next
<1>1. ASSUME NEW x \in Elements[B], Tree!search(x) PROVE (\E v : TreeInv(v)') /\ Set!Next
  BY <1>1, TreeSearch
<1>2. ASSUME NEW x \in Elements[B], Tree!deleteNode(x) PROVE (\E v : TreeInv(v)') /\ Set!Next
  BY <1>2, TreeDeletes
<1>3. ASSUME NEW x \in Elements[B], NEW a \in Addresses[B], Tree!insert(x, a)
      PROVE  (\E v : TreeInv(v)') /\ Set!Next
  BY <1>3, TreeInserts
<1> DEFINE StillInv == \E v : TreeInv(v)'
<1> HIDE DEF StillInv
<1>4. \E x \in Elements[B] : \/ Tree!search(x) \/ Tree!deleteNode(x)
                             \/ \E a \in Addresses[B] : Tree!insert(x, a)
  BY Zenon DEF Tree!Next, B
<1>5. StillInv /\ Set!Next
  BY <1>1, <1>2, <1>3, <1>4, Zenon DEF StillInv
<1> QED BY <1>5 DEF StillInv

LEMMA EmptyTree ==
  ASSUME NEW f, f = <<>>, NEW T
  PROVE  DOMAIN f = {} /\ f \in [{} -> T]
<1>1. DOMAIN f = {}
  OBVIOUS
<1>2. f = [p \in DOMAIN f |-> f[p]]
  OBVIOUS
<1>3. f = [p \in {} |-> f[p]]
  BY <1>1, <1>2, Zenon
<1> QED BY <1>1, <1>3

LEMMA TreeInits ==
  ASSUME StructInit
  PROVE  (kind = B => \E w : TreeInv(w)) /\ Set!Init
<1>1. CASE kind = B
  <2>1. info = <<>> /\ link = <<>> /\ link2 = <<>> /\ head = 0 /\ reply = <<"", 0, "done">>
    BY <1>1 DEF StructInit, Tree!Init, Tree!null, B
  <2>2. /\ DOMAIN info = {} /\ info \in [{} -> Elements[B]]
        /\ DOMAIN link = {} /\ link \in [{} -> {0}] /\ DOMAIN link2 = {} /\ link2 \in [{} -> {0}]
    BY ONLY <2>1, EmptyTree
  <2>3. TreeOf(Addresses[B], Elements[B], info, link, link2, 0, 0)
    BY ONLY <2>2, TreeEmpty
  <2>4. TreeInv(0)
    BY <2>1, <2>3 DEF TreeInv
  <2>5. Members = {}
    BY <2>2 DEF Members
  <2> QED BY <1>1, <2>1, <2>4, <2>5 DEF Set!Init, Members, B
<1>2. CASE kind # B
  BY <1>2 DEF Set!Init, B
<1> QED BY <1>1, <1>2

(* The other structures are not the tree. *)
LEMMA NotTree ==
  ASSUME kind' = kind, kind # B
  PROVE  UNCHANGED Set!state
BY DEF Set!state, B

LEMMA TreeSafe ==
  ASSUME NEW w, TreeInv(w)
  PROVE  Tree!TypeOK /\ Tree!Ordered /\ Tree!OneTree
<1>0. Bounds(Addresses[B], Elements[B]) /\ TreeOf(Addresses[B], Elements[B], info, link, link2, head, w)
  BY TreeBounds DEF TreeInv
<1>1. /\ IsFiniteSet(DOMAIN info) /\ DOMAIN info \subseteq Nat \ {0}
      /\ \A p \in DOMAIN info :
           info[p] \in Nat /\ link[p] \in DOMAIN info \cup {0} /\ link2[p] \in DOMAIN info \cup {0}
  BY ONLY <1>0, TreeTypes
<1>2. head \in DOMAIN info \cup {0}
  BY <1>0 DEF TreeOf
<1>3. PICK h \in Nat : h = Cardinality(DOMAIN info) + 1
  <2>1. Cardinality(DOMAIN info) \in Nat
    BY <1>1, FS_CardinalityType
  <2> QED BY <2>1
<1>4. PICK f : Inorder(f, info, link, link2) /\ InorderIn(info, link, link2, h, head) = f[h][head]
  <2>1. DOMAIN info \subseteq Nat /\ \A p \in DOMAIN info : link[p] \in Nat /\ link2[p] \in Nat
    BY <1>1
  <2> QED BY ONLY <2>1, h \in Nat, InorderWalks
<1>5. Tree!inorder = InorderIn(info, link, link2, h, head)
  BY <1>3, Zenon DEF Tree!inorder, InorderIn, Tree!Cardinality, Cardinality
<1>6. PICK s : s = f[Cardinality(DOMAIN info) + 1][head] /\ s = Tree!inorder
  BY <1>3, <1>4, <1>5
<1>7. s \in Seq(Nat) /\ ToSet(s) = DOMAIN info /\ Ascending(info, s)
  <2>1. Inorder(f, info, link, link2) /\ s = f[Cardinality(DOMAIN info) + 1][head]
    BY <1>4, <1>6
  <2> QED BY ONLY <1>0, <2>1, InorderIs
<1>8. Tree!Ordered
  BY <1>6, <1>7, Zenon DEF Tree!Ordered, Ascending
<1>9. ASSUME NEW i \in DOMAIN s, NEW j \in DOMAIN s, s[i] = s[j] PROVE i = j
  <2>1. i \in 1..Len(s) /\ j \in 1..Len(s) /\ s[i] \in DOMAIN info
    BY <1>7, <1>9 DEF ToSet
  <2>2. info[s[i]] \in Nat
    BY <1>1, <2>1
  <2>3. (i < j => info[s[i]] < info[s[j]]) /\ (j < i => info[s[j]] < info[s[i]])
    BY <1>7, <2>1 DEF Ascending
  <2>4. ~(i < j) /\ ~(j < i)
    BY <1>9, <2>2, <2>3
  <2> QED BY <2>1, <2>4
<1>10. Tree!IsInjective(s)
  BY <1>9, Zenon DEF Tree!IsInjective
<1>11. Tree!ToSet(s) = DOMAIN info
  BY <1>7, Zenon DEF Tree!ToSet, ToSet
<1>12. Tree!OneTree
  BY <1>1, <1>2, <1>6, <1>10, <1>11 DEF Tree!OneTree, Tree!null
<1>13. Tree!TypeOK
  <2>1. Addresses["bSearchTreeType"] = Addresses[B] /\ Elements["bSearchTreeType"] = Elements[B]
    BY DEF B
  <2>2. /\ DOMAIN info \subseteq Addresses[B] /\ info \in [DOMAIN info -> Elements[B]]
        /\ link \in [DOMAIN info -> Addresses[B] \cup {0}]
        /\ link2 \in [DOMAIN info -> Addresses[B] \cup {0}] /\ head \in Addresses[B] \cup {0}
    BY <1>0 DEF TreeOf
  <2> QED BY <2>1, <2>2 DEF Tree!TypeOK, Tree!Pointer, Tree!null
<1> QED BY <1>8, <1>12, <1>13

-----------------------------------------------------------------------------
(* The two fields that pop of the stack derived from the list leaves       *)
(* behind: an address, perhaps of a deleted node, and the insertions since *)
(* the object was last cleared or assigned.                                *)
StackFields ==
  tail \in [Objects -> Addresses[S] \cup {0}] /\ size \in [Objects -> Nat] /\ Answered

LEMMA StackFieldsSame ==
  ASSUME StackFields, UNCHANGED <<tail, size, reply>>
  PROVE  StackFields'
BY DEF StackFields, Answered

LEMMA StackFieldsSet ==
  ASSUME StackFields, NEW l \in Objects, NEW p \in Addresses[S] \cup {0}, NEW n \in Nat,
         tail' = [tail EXCEPT ![l] = p], size' = [size EXCEPT ![l] = n], reply'[3] = "done"
  PROVE  StackFields'
BY DEF StackFields, Answered

LEMMA StackFieldsCopied ==
  ASSUME NEW cs, ListStackInv(cs), StackFields, NEW l \in Objects, NEW m \in Objects,
         ListStack!assign(l, m)
  PROVE  StackFields'
<1>1. reply'[3] = "done"
  BY DEF ListStack!assign
<1>2. CASE l = m
  BY <1>1, <1>2 DEF ListStack!assign, ListStack!fields, StackFields, Answered
<1>3. CASE l # m
  <2>1. PICK c : c = cs[m] /\ c \in Seq(Addresses[S]) /\ c = ListStack!nodes(m)
    BY ListStackKnown DEF Known
  <2>2. PICK kept : kept = DOMAIN link \ ListStack!NodeSet(l)
    OBVIOUS
  <2>3. ListStackCopies(l, m, c, kept)
    <3>1. ListStack!copyList(l, m)
      BY <1>3 DEF ListStack!assign
    <3>2. \E d \in {ListStack!nodes(m)}, others \in {DOMAIN link \ ListStack!NodeSet(l)} :
            ListStackCopies(l, m, d, others)
      BY ONLY <3>1, Zenon DEF ListStack!copyList, ListStackCopies
    <3> QED BY ONLY <3>2, <2>1, <2>2, Zenon
  <2>4. PICK new \in [1..Len(c) -> Addresses[S]] :
          /\ tail' = [tail EXCEPT ![l] = IF c = <<>> THEN 0 ELSE new[Len(c)]]
          /\ size' = [size EXCEPT ![l] = IF c = <<>> THEN 0 ELSE size[m]]
    <3>1. PICK new \in ListStack!Fresh(Len(c), kept) :
            /\ tail' = [tail EXCEPT ![l] = IF c = <<>> THEN 0 ELSE new[Len(c)]]
            /\ size' = [size EXCEPT ![l] = IF c = <<>> THEN 0 ELSE size[m]]
      BY ONLY <2>3, Zenon DEF ListStackCopies, ListStack!null
    <3>2. new \in [1..Len(c) -> Addresses[S] \ kept]
      BY ONLY <3>1, Zenon DEF ListStack!Fresh, S
    <3>3. new \in [1..Len(c) -> Addresses[S]]
      BY ONLY <3>2
    <3> QED BY <3>1, <3>3
  <2>5. /\ (IF c = <<>> THEN 0 ELSE new[Len(c)]) \in Addresses[S] \cup {0}
        /\ (IF c = <<>> THEN 0 ELSE size[m]) \in Nat
    <3>1. c # <<>> => Len(c) \in 1..Len(c)
      BY <2>1
    <3>2. size[m] \in Nat
      BY DEF StackFields
    <3> QED BY <2>4, <3>1, <3>2
  <2> QED BY <1>1, <2>4, <2>5, StackFieldsSet
<1> QED BY <1>2, <1>3

LEMMA StackFieldsStep ==
  ASSUME NEW cs, ListStackInv(cs), StackFields, ListStack!Next
  PROVE  StackFields'
<1>1. CASE ListStack!Ended
  BY <1>1, StackFieldsSame DEF ListStack!Ended, ListStack!vars, ListStack!fields
<1>2. ASSUME NEW l \in Objects, ListStack!destroyList(l) PROVE StackFields'
  BY <1>2, StackFieldsSet DEF ListStack!destroyList, ListStack!null
<1>3. ASSUME NEW l \in Objects, ListStack!pop(l) PROVE StackFields'
  BY <1>3 DEF ListStack!pop, StackFields, Answered
<1>4. ASSUME NEW l \in Objects, ListStack!front(l) PROVE StackFields'
  <2>1. head[l] # 0 => head[l] \in DOMAIN info
    <3>1. PICK c : c = cs[l]
      OBVIOUS
    <3>2. /\ Known(S, cs, l, c) /\ head[l] = At(c, 1)
      BY <3>1, ListStackKnown
    <3>3. Ends(c) /\ \A i \in 1..Len(c) : c[i] \in DOMAIN info
      BY <3>2 DEF Known
    <3> QED BY <3>2, <3>3 DEF Ends
  <2>2. UNCHANGED <<tail, size>> /\ Answered'
    BY <1>4, <2>1 DEF ListStack!front, ListStack!End, ListStack!Answers, ListStack!fields,
       ListStack!null, Answered
  <2> QED BY <2>2 DEF StackFields
<1>5. ASSUME NEW l \in Objects, NEW x, ListStack!search(l, x) PROVE StackFields'
  BY <1>5 DEF ListStack!search, ListStack!Answers, ListStack!fields, StackFields, Answered
<1>6. ASSUME NEW l \in Objects, NEW x, NEW a \in Addresses[S], ListStack!insertFirst(l, x, a)
      PROVE  StackFields'
  <2>1. /\ tail' = [tail EXCEPT ![l] = IF tail[l] = 0 THEN a ELSE tail[l]]
        /\ size' = [size EXCEPT ![l] = size[l] + 1] /\ reply'[3] = "done"
    BY <1>6 DEF ListStack!insertFirst, ListStack!NewNode, ListStack!null, StackFields
  <2>2. /\ (IF tail[l] = 0 THEN a ELSE tail[l]) \in Addresses[S] \cup {0}
        /\ size[l] + 1 \in Nat
    BY DEF StackFields
  <2> QED BY <2>1, <2>2, StackFieldsSet
<1>7. ASSUME NEW l \in Objects, NEW m \in Objects, ListStack!assign(l, m) PROVE StackFields'
  BY <1>7, StackFieldsCopied
<1>8. /\ ~ListStack!Uses("back") /\ ~ListStack!Uses("length") /\ ~ListStack!Uses("print")
      /\ ~ListStack!Uses("deleteNode") /\ ~ListStack!Uses("insertLast")
  BY DEF ListStack!Uses, StackMethods
<1>9. ASSUME NEW l, NEW x, NEW a PROVE ~ListStack!deleteNode(l, x) /\ ~ListStack!insertLast(l, x, a)
  BY <1>8, Zenon DEF ListStack!deleteNode, ListStack!insertLast
<1> HIDE DEF StackFields
<1> QED BY <1>1, <1>2, <1>3, <1>4, <1>5, <1>6, <1>7, <1>8, <1>9, Zenon DEF ListStack!Next, S

-----------------------------------------------------------------------------
(* All structures together.                                                *)
StructInv ==
  /\ kind \in LinkedKinds \cup {"queueType"} /\ QueueInv
  /\ kind = U => \E cs : ListInv(cs)
  /\ kind = S => (\E cs : ListStackInv(cs)) /\ StackFields
  /\ kind = O => \E cs : OrderedInv(cs)
  /\ kind = D => \E cs : DoublyInv(cs)
  /\ kind = K => \E cs : LinkedStackInv(cs)
  /\ kind = Q => \E cs : LinkedQueueInv(cs)
  /\ kind = B => \E w : TreeInv(w)

LEMMA NamesApart ==
  /\ SequenceKinds = {U, S, O, D, K, Q}
  /\ U # S /\ U # O /\ U # D /\ U # K /\ U # Q /\ S # O /\ S # D /\ S # K /\ S # Q
  /\ O # D /\ O # K /\ O # Q /\ D # K /\ D # Q /\ K # Q
  /\ B \notin {U, S, O, D, K, Q}
BY DEF SequenceKinds, LinkedKinds, U, S, O, D, K, Q, B

LEMMA EmptyChains ==
  ASSUME NEW k, NEW cs, cs = [l \in Objects |-> <<>>], info = <<>>, link = <<>>
  PROVE  /\ Chained(k, cs) /\ One(cs) /\ cs["list"] = <<>> /\ \A l \in Objects : cs[l] = <<>>
         /\ Items(Objects, info, cs) = [l \in Objects |-> <<>>]
         /\ N!Values(info, cs["list"]) = <<>>
<1>1. Heap(Addresses[k], Elements[k], Objects, info, link, cs)
      /\ Items(Objects, info, cs) = [l \in Objects |-> <<>>]
  BY HeapEmpty
<1>2. One(cs) /\ cs["list"] = <<>> /\ \A l \in Objects : cs[l] = <<>>
  BY DEF One, Objects
<1>3. N!Values(info, <<>>) = <<>>
  BY DEF N!Values
<1> QED BY <1>1, <1>2, <1>3 DEF Chained

LEMMA EmptyBack ==
  ASSUME NEW f, f = <<>>, NEW g, g = <<>>
  PROVE  BackField(f, DOMAIN g) /\ BackLinked(f, <<>>)
<1>1. f \in [DOMAIN f -> Nat]
  OBVIOUS
<1>2. f = [a \in DOMAIN f |-> f[a]]
  BY ONLY <1>1
<1>3. DOMAIN f = DOMAIN g
  BY Zenon
<1>4. f = [a \in DOMAIN g |-> f[a]]
  BY ONLY <1>2, <1>3, Zenon
<1>5. 1..Len(<<>>) = {}
  OBVIOUS
<1> QED BY <1>3, <1>4, <1>5, Zenon DEF BackField, BackLinked

LEMMA StructInitInv ==
  ASSUME StructInit
  PROVE  StructInv /\ (kind \in SequenceKinds => Sequence!Init)
<1>1. Init /\ kind \in LinkedKinds \cup {"queueType"}
  BY StructuresAssumption DEF StructInit
<1>2. QueueInv
  BY <1>1, QueueInit
<1>3. PICK cs : cs = [l \in Objects |-> <<>>]
  OBVIOUS
<1>4. At(<<>>, 1) = 0 /\ At(<<>>, Len(<<>>)) = 0 /\ Len(<<>>) = 0 /\ Sorted(<<>>)
  BY DEF At, Sorted
<1>5. /\ Firsts(Objects, cs) = [l \in Objects |-> 0] /\ Lasts(Objects, cs) = [l \in Objects |-> 0]
      /\ Lengths(Objects, cs) = [l \in Objects |-> 0]
  BY <1>3, <1>4 DEF Firsts, Lasts, Lengths
<1>6. /\ Firsts({"list"}, cs) = [l \in {"list"} |-> 0] /\ Lasts({"list"}, cs) = [l \in {"list"} |-> 0]
      /\ Lengths({"list"}, cs) = [l \in {"list"} |-> 0]
  BY <1>3, <1>4 DEF Firsts, Lasts, Lengths, Objects
<1>7. ASSUME contents = Items(Objects, info, cs), info = <<>>, link = <<>>, reply = <<"", "", "done">>
      PROVE  Sequence!Init
  <2>1. contents = [l \in Objects |-> <<>>]
    BY <1>3, <1>7, EmptyChains
  <2> QED BY <1>7, <2>1 DEF Sequence!Init
<1>8. ASSUME reply = <<"", "", "done">> PROVE Answered
  BY <1>8 DEF Answered
<1>9. CASE kind = U
  <2>1. /\ info = <<>> /\ link = <<>> /\ head = [l \in Objects |-> 0] /\ tail = [l \in Objects |-> 0]
        /\ size = [l \in Objects |-> 0] /\ reply = <<"", "", "done">>
    BY <1>9, NamesApart DEF StructInit, List!Init, List!null, U, S, O, D, K, Q
  <2>2. ListInv(cs)
    BY <1>3, <1>5, <1>8, <2>1, EmptyChains DEF ListInv
  <2> QED BY <1>1, <1>2, <1>7, <1>9, <2>1, <2>2, ListContents, NamesApart DEF StructInv
<1>10. CASE kind = S
  <2>1. /\ info = <<>> /\ link = <<>> /\ head = [l \in Objects |-> 0] /\ tail = [l \in Objects |-> 0]
        /\ size = [l \in Objects |-> 0] /\ reply = <<"", "", "done">>
    BY <1>10, NamesApart DEF StructInit, ListStack!Init, ListStack!null, U, S, O, D, K, Q
  <2>2. ListStackInv(cs)
    BY <1>3, <1>5, <2>1, EmptyChains DEF ListStackInv
  <2>3. StackFields
    BY <1>8, <2>1 DEF StackFields
  <2> QED BY <1>1, <1>2, <1>7, <1>10, <2>1, <2>2, <2>3, ListStackContents, NamesApart DEF StructInv
<1>11. CASE kind = O
  <2>1. /\ info = <<>> /\ link = <<>> /\ head = [l \in {"list"} |-> 0] /\ tail = [l \in {"list"} |-> 0]
        /\ size = [l \in {"list"} |-> 0] /\ reply = <<"", "", "done">>
    BY <1>11, NamesApart DEF StructInit, Ordered!Init, Ordered!null, U, S, O, D, K, Q
  <2>2. OrderedInv(cs)
    BY <1>3, <1>4, <1>6, <1>8, <2>1, EmptyChains DEF OrderedInv
  <2> QED BY <1>1, <1>2, <1>7, <1>11, <2>1, <2>2, OrderedContents, NamesApart DEF StructInv
<1>12. CASE kind = D
  <2>1. /\ info = <<>> /\ link = <<>> /\ link2 = <<>> /\ head = 0 /\ tail = 0 /\ size = 0
        /\ reply = <<"", "", "done">>
    BY <1>12, NamesApart DEF StructInit, Doubly!Init, Doubly!null, U, S, O, D, K, Q
  <2>2. BackField(link2, DOMAIN info) /\ BackLinked(link2, <<>>)
    BY <2>1, EmptyBack
  <2>3. DoublyInv(cs)
    BY <1>3, <1>4, <1>8, <2>1, <2>2, EmptyChains DEF DoublyInv
  <2> QED BY <1>1, <1>2, <1>7, <1>12, <2>1, <2>3, DoublyContents, NamesApart DEF StructInv
<1>13. CASE kind = K
  <2>1. /\ info = <<>> /\ link = <<>> /\ head = [l \in Objects |-> 0] /\ reply = <<"", "", "done">>
    BY <1>13, NamesApart DEF StructInit, LinkedStack!Init, LinkedStack!null, U, S, O, D, K, Q
  <2>2. LinkedStackInv(cs)
    BY <1>3, <1>5, <2>1, EmptyChains DEF LinkedStackInv
  <2> QED BY <1>1, <1>2, <1>7, <1>13, <2>1, <2>2, LinkedStackContents, NamesApart DEF StructInv
<1>14. CASE kind = Q
  <2>1. /\ info = <<>> /\ link = <<>> /\ head = 0 /\ tail = 0 /\ reply = <<"", "", "done">>
    BY <1>14, NamesApart DEF StructInit, LinkedQueue!Init, LinkedQueue!null, U, S, O, D, K, Q
  <2>2. LinkedQueueInv(cs)
    BY <1>3, <1>4, <1>8, <2>1, EmptyChains DEF LinkedQueueInv
  <2> QED BY <1>1, <1>2, <1>7, <1>14, <2>1, <2>2, LinkedQueueContents, NamesApart DEF StructInv
<1>15. CASE kind \notin {U, S, O, D, K, Q}
  BY <1>1, <1>2, <1>15, TreeInits, NamesApart DEF StructInv
<1> QED BY <1>9, <1>10, <1>11, <1>12, <1>13, <1>14, <1>15

(* The circular array does the same among the others as alone. *)
LEMMA StructIsQueue == StructSpec => Spec
<1>1. StructInit => Init
  BY DEF StructInit
<1>2. [StructNext]_<<vars, kind, linked>> => [Next]_vars
  BY DEF StructNext
<1> QED BY <1>1, <1>2, PTL DEF StructSpec, Spec

(* One step keeps the invariant, and is one of the abstract sequences.     *)
LEMMA StructStep ==
  ASSUME StructInv, [StructNext]_<<vars, kind, linked>>
  PROVE  StructInv' /\ [(kind \in SequenceKinds) => Sequence!Next]_linked
<1> DEFINE Same == UNCHANGED <<info, link, link2, head, tail, size, reply>>
<1>1. kind' = kind /\ kind' \in LinkedKinds \cup {"queueType"}
  BY DEF StructInv, StructNext
<1>2. QueueInv'
  <2>1. [Next]_vars
    BY DEF StructNext
  <2> QED BY <2>1, QueueStep DEF StructInv
<1>3. ASSUME Same PROVE UNCHANGED linked
  BY <1>3 DEF linked, node, object
<1>4. CASE UNCHANGED linked
  <2>1. Same
    BY <1>4 DEF linked, node, object
  <2>2. ASSUME NEW cs, kind = U, ListInv(cs) PROVE ListInv(cs)'
    BY <2>1, <2>2 DEF ListInv, Chained, Answered
  <2>3. ASSUME NEW cs, kind = S, ListStackInv(cs) PROVE ListStackInv(cs)'
    BY <2>1, <2>3 DEF ListStackInv, Chained
  <2>10. StackFields => StackFields'
    BY <2>1, StackFieldsSame
  <2>4. ASSUME NEW cs, kind = O, OrderedInv(cs) PROVE OrderedInv(cs)'
    BY <2>1, <2>4 DEF OrderedInv, Chained, Answered
  <2>5. ASSUME NEW cs, kind = D, DoublyInv(cs) PROVE DoublyInv(cs)'
    BY <2>1, <2>5 DEF DoublyInv, Chained, Answered, BackField
  <2>6. ASSUME NEW cs, kind = K, LinkedStackInv(cs) PROVE LinkedStackInv(cs)'
    BY <2>1, <2>6 DEF LinkedStackInv, Chained
  <2>7. ASSUME NEW cs, kind = Q, LinkedQueueInv(cs) PROVE LinkedQueueInv(cs)'
    BY <2>1, <2>7 DEF LinkedQueueInv, Chained, Answered
  <2>9. ASSUME NEW w, TreeInv(w) PROVE TreeInv(w)'
    BY <2>1, <2>9, TreeSame
  <2>8. StructInv'
    BY <1>1, <1>2, <2>2, <2>3, <2>4, <2>5, <2>6, <2>7, <2>9, <2>10, Zenon DEF StructInv
  <2> QED BY <1>4, <2>8
<1>5. ASSUME ~UNCHANGED linked PROVE StructNext /\ (kind \in LinkedKinds => UNCHANGED vars)
  <2>1. "queueType" \notin LinkedKinds
    BY DEF LinkedKinds
  <2>2. StructNext
    BY <1>5
  <2> QED BY <1>5, <2>1, <2>2 DEF StructNext
<1>6. CASE kind = U
  <2>1. CASE List!Next /\ UNCHANGED link2
    <3>1. PICK cs : ListInv(cs)
      BY <1>6 DEF StructInv
    <3>2. (\E ds : ListInv(ds)') /\ (UNCHANGED <<info, link, head, tail, size, reply>> \/ Sequence!Next)
      BY <1>1, <1>6, <2>1, <3>1, ListStep
    <3>3. Sequence!Next \/ UNCHANGED linked
      BY <2>1, <3>2, <1>3
    <3> QED BY <1>1, <1>2, <1>6, <3>2, <3>3, NamesApart, Zenon DEF StructInv
  <2> QED BY <1>4, <1>5, <1>6, <2>1, NamesApart DEF StructNext, U, S, O, D, K, Q
<1>7. CASE kind = S
  <2>1. CASE ListStack!Next /\ UNCHANGED link2
    <3>1. PICK cs : ListStackInv(cs) /\ StackFields
      BY <1>7 DEF StructInv
    <3>2. (\E ds : ListStackInv(ds)') /\ (UNCHANGED <<info, link, head, tail, size, reply>> \/ Sequence!Next)
      BY <1>1, <1>7, <2>1, <3>1, ListStackStep
    <3>3. Sequence!Next \/ UNCHANGED linked
      BY <2>1, <3>2, <1>3
    <3>4. StackFields'
      BY <2>1, <3>1, StackFieldsStep
    <3> QED BY <1>1, <1>2, <1>7, <3>2, <3>3, <3>4, NamesApart, Zenon DEF StructInv
  <2> QED BY <1>4, <1>5, <1>7, <2>1, NamesApart DEF StructNext, U, S, O, D, K, Q
<1>8. CASE kind = O
  <2>1. CASE Ordered!Next /\ UNCHANGED link2
    <3>1. PICK cs : OrderedInv(cs)
      BY <1>8 DEF StructInv
    <3>2. (\E ds : OrderedInv(ds)') /\ (UNCHANGED <<info, link, head, tail, size, reply>> \/ Sequence!Next)
      BY <1>1, <1>8, <2>1, <3>1, OrderedStep
    <3>3. Sequence!Next \/ UNCHANGED linked
      BY <2>1, <3>2, <1>3
    <3> QED BY <1>1, <1>2, <1>8, <3>2, <3>3, NamesApart, Zenon DEF StructInv
  <2> QED BY <1>4, <1>5, <1>8, <2>1, NamesApart DEF StructNext, U, S, O, D, K, Q
<1>9. CASE kind = D
  <2>1. CASE Doubly!Next
    <3>1. PICK cs : DoublyInv(cs)
      BY <1>9 DEF StructInv
    <3>2. (\E ds : DoublyInv(ds)') /\ (Same \/ Sequence!Next)
      BY <1>1, <1>9, <2>1, <3>1, DoublyStep
    <3>3. Sequence!Next \/ UNCHANGED linked
      BY <2>1, <3>2, <1>3
    <3> QED BY <1>1, <1>2, <1>9, <3>2, <3>3, NamesApart, Zenon DEF StructInv
  <2> QED BY <1>4, <1>5, <1>9, <2>1, NamesApart DEF StructNext, U, S, O, D, K, Q
<1>10. CASE kind = K
  <2>1. CASE LinkedStack!Next /\ UNCHANGED <<link2, tail, size>>
    <3>1. PICK cs : LinkedStackInv(cs)
      BY <1>10 DEF StructInv
    <3>2. (\E ds : LinkedStackInv(ds)') /\ (UNCHANGED <<info, link, head, reply>> \/ Sequence!Next)
      BY <1>1, <1>10, <2>1, <3>1, LinkedStackStep
    <3>3. Sequence!Next \/ UNCHANGED linked
      BY <2>1, <3>2, <1>3
    <3> QED BY <1>1, <1>2, <1>10, <3>2, <3>3, NamesApart, Zenon DEF StructInv
  <2> QED BY <1>4, <1>5, <1>10, <2>1, NamesApart DEF StructNext, U, S, O, D, K, Q
<1>11. CASE kind = Q
  <2>1. CASE LinkedQueue!Next /\ UNCHANGED <<link2, size>>
    <3>1. PICK cs : LinkedQueueInv(cs)
      BY <1>11 DEF StructInv
    <3>2. (\E ds : LinkedQueueInv(ds)') /\ (UNCHANGED <<info, link, head, tail, reply>> \/ Sequence!Next)
      BY <1>1, <1>11, <2>1, <3>1, LinkedQueueStep
    <3>3. Sequence!Next \/ UNCHANGED linked
      BY <2>1, <3>2, <1>3
    <3> QED BY <1>1, <1>2, <1>11, <3>2, <3>3, NamesApart, Zenon DEF StructInv
  <2> QED BY <1>4, <1>5, <1>11, <2>1, NamesApart DEF StructNext, U, S, O, D, K, Q
<1>12. CASE kind = B
  <2>1. CASE Tree!Next /\ UNCHANGED <<tail, size>>
    <3>1. PICK w : TreeInv(w)
      BY <1>12 DEF StructInv
    <3>2. \E v : TreeInv(v)'
      BY <1>1, <1>12, <2>1, <3>1, TreeStep
    <3> QED BY <1>1, <1>2, <1>12, <3>2, NamesApart, Zenon DEF StructInv
  <2> QED BY <1>4, <1>5, <1>12, <2>1, NamesApart DEF StructNext, U, S, O, D, K, Q, B
<1>13. CASE kind \notin {U, S, O, D, K, Q, B}
  BY <1>1, <1>2, <1>13, NamesApart DEF StructInv
<1> QED BY <1>6, <1>7, <1>8, <1>9, <1>10, <1>11, <1>12, <1>13

(* And one of the abstract set. *)
LEMMA SetStep ==
  ASSUME StructInv, [StructNext]_<<vars, kind, linked>>
  PROVE  [Set!Next]_(Set!state)
<1>1. kind' = kind
  BY DEF StructNext
<1>2. CASE kind # B
  BY <1>1, <1>2, NotTree
<1>3. CASE kind = B /\ UNCHANGED linked
  BY <1>1, <1>3 DEF linked, node, Set!state
<1>4. CASE kind = B /\ ~UNCHANGED linked
  <2>1. Tree!Next
    BY <1>4 DEF StructNext, B
  <2>2. PICK w : TreeInv(w)
    BY <1>4 DEF StructInv
  <2> QED BY <1>1, <1>4, <2>1, <2>2, TreeStep
<1> QED BY <1>2, <1>3, <1>4

LEMMA StructInvHolds == StructSpec => []StructInv
<1>1. StructInit => StructInv
  BY StructInitInv
<1>2. StructInv /\ [StructNext]_<<vars, kind, linked>> => StructInv'
  BY StructStep
<1> QED BY <1>1, <1>2, PTL DEF StructSpec

-----------------------------------------------------------------------------
(* What the runs check of one state follows from the invariant.            *)
LEMMA Fields ==
  ASSUME NEW k, k \in LinkedKinds, NEW cs, Chained(k, cs)
  PROVE  /\ DOMAIN info \subseteq Addresses[k] /\ info \in [DOMAIN info -> Elements[k]]
         /\ link \in [DOMAIN info -> Addresses[k] \cup {0}]
         /\ \A l \in Objects : /\ \A i \in Int : At(cs[l], i) \in Addresses[k] \cup {0}
                               /\ At(cs[l], 1) \in Addresses[k] \cup {0}
                               /\ At(cs[l], Len(cs[l])) \in Addresses[k] \cup {0}
                               /\ Len(cs[l]) \in 0..Cardinality(Addresses[k])
<1>1. Room(Addresses[k])
  BY RoomFor
<1>2. /\ DOMAIN info \subseteq Addresses[k] /\ info \in [DOMAIN info -> Elements[k]]
      /\ link \in [DOMAIN info -> Addresses[k] \cup {0}]
  BY DEF Chained, Heap
<1>3. ASSUME NEW l \in Objects
      PROVE  /\ \A i \in Int : At(cs[l], i) \in Addresses[k] \cup {0}
             /\ At(cs[l], 1) \in Addresses[k] \cup {0}
             /\ At(cs[l], Len(cs[l])) \in Addresses[k] \cup {0}
             /\ Len(cs[l]) \in 0..Cardinality(Addresses[k])
  <2>1. cs[l] \in Seq(Addresses[k]) /\ Len(cs[l]) \in Nat /\ Len(cs[l]) <= Cardinality(Addresses[k])
    BY <1>1, HeapFacts DEF Chained
  <2>2. Cardinality(Addresses[k]) \in Nat
    BY <1>1, FS_CardinalityType DEF Room
  <2> QED BY <2>1, <2>2 DEF At
<1> QED BY <1>2, <1>3

LEMMA LastOf ==
  ASSUME NEW A, NEW c \in Seq(A)
  PROVE  At(c, Len(c)) = IF c = <<>> THEN 0 ELSE c[Len(c)]
BY DEF At

LEMMA Owned ==
  ASSUME NEW k, k \in LinkedKinds, NEW cs, Chained(k, cs)
  PROVE  /\ \A l, m \in Objects : l # m => ToSet(cs[l]) \cap ToSet(cs[m]) = {}
         /\ DOMAIN link = UNION {ToSet(cs[l]) : l \in Objects} /\ DOMAIN info = DOMAIN link
BY DEF Chained, Heap

(* One object: its nodes are all there are. *)
LEMMA OneOwned ==
  ASSUME NEW k, k \in LinkedKinds, NEW cs, Chained(k, cs), One(cs)
  PROVE  DOMAIN link = ToSet(cs["list"]) /\ DOMAIN info = DOMAIN link
<1>1. ToSet(<<>>) = {}
  BY DEF ToSet
<1>2. UNION {ToSet(cs[l]) : l \in Objects} = ToSet(cs["list"]) \cup ToSet(cs["other"])
  BY DEF Objects
<1> QED BY <1>1, <1>2, Owned DEF One

(* unorderedLinkedList *)
LEMMA ListSafe ==
  ASSUME NEW cs, ListInv(cs)
  PROVE  List!TypeOK /\ List!WellLinked /\ List!NodesOwned
<1>1. U \in LinkedKinds /\ Chained(U, cs)
  BY DEF LinkedKinds, U, ListInv
<1>2. Addresses["unorderedLinkedList"] = Addresses[U] /\ Elements["unorderedLinkedList"] = Elements[U]
  BY DEF U
<1>4. /\ head \in [Objects -> Addresses[U] \cup {0}] /\ tail \in [Objects -> Addresses[U] \cup {0}]
      /\ size \in [Objects -> Nat] /\ Answered
  <2>1. \A l \in Objects : Len(cs[l]) \in Nat
    BY <1>1, KnownOf DEF Known
  <2> QED BY <1>1, <2>1, Fields DEF ListInv, Firsts, Lasts, Lengths
<1>5. List!TypeOK
  BY <1>1, <1>2, <1>4, Fields DEF List!TypeOK, List!Pointer, List!null, Answered
<1>6. ASSUME NEW l \in Objects
      PROVE  /\ size[l] = Len(List!nodes(l)) /\ List!Proper(link, head[l]) /\ List!nodes(l) = cs[l]
             /\ tail[l] = IF List!nodes(l) = <<>> THEN List!null ELSE List!Last(List!nodes(l))
  <2>1. /\ List!nodes(l) = cs[l] /\ size[l] = Len(cs[l]) /\ List!Proper(link, head[l])
        /\ tail[l] = At(cs[l], Len(cs[l])) /\ cs[l] \in Seq(Addresses[U])
    BY <1>1, ListNodes, KnownOf DEF Known
  <2> QED BY <2>1, LastOf DEF List!null, List!Last
<1>7. List!WellLinked
  BY <1>6, Zenon DEF List!WellLinked, List!CountMatches
<1>8. \A l \in Objects : List!NodeSet(l) = ToSet(cs[l])
  BY <1>6, Zenon DEF List!NodeSet, List!ToSet, ToSet
<1>9. UNION {List!NodeSet(l) : l \in Objects} = UNION {ToSet(cs[l]) : l \in Objects}
  BY <1>8
<1>10. List!NodesOwned
  BY <1>1, <1>8, <1>9, Owned DEF List!NodesOwned
<1> QED BY <1>5, <1>7, <1>10

(* stackUnorderedLinkedList and linkedStackType *)
LEMMA ListStackSafe ==
  ASSUME NEW cs, ListStackInv(cs)
  PROVE  ListStack!NodesOwned /\ (StackFields => ListStack!TypeOK)
<1>1. S \in LinkedKinds /\ Chained(S, cs)
  BY DEF LinkedKinds, S, ListStackInv
<1>2. \A l \in Objects : ListStack!nodes(l) = cs[l]
  BY ListStackKnown
<1>3. \A l \in Objects : ListStack!NodeSet(l) = ToSet(cs[l])
  BY <1>2, Zenon DEF ListStack!NodeSet, ListStack!ToSet, ToSet
<1>4. UNION {ListStack!NodeSet(l) : l \in Objects} = UNION {ToSet(cs[l]) : l \in Objects}
  BY <1>3
<1>5. ListStack!NodesOwned
  BY <1>1, <1>3, <1>4, Owned DEF ListStack!NodesOwned
<1>6. Addresses["stackUnorderedLinkedList"] = Addresses[S] /\ Elements["stackUnorderedLinkedList"] = Elements[S]
  BY DEF S
<1>7. head \in [Objects -> Addresses[S] \cup {0}]
  BY <1>1, Fields DEF ListStackInv, Firsts
<1>8. StackFields => ListStack!TypeOK
  BY <1>1, <1>6, <1>7, Fields DEF StackFields, ListStack!TypeOK, ListStack!Pointer, ListStack!null, Answered
<1> QED BY <1>5, <1>8

LEMMA LinkedStackSafe ==
  ASSUME NEW cs, LinkedStackInv(cs)
  PROVE  LinkedStack!TypeOK /\ LinkedStack!NodesOwned
<1>1. K \in LinkedKinds /\ Chained(K, cs)
  BY DEF LinkedKinds, K, LinkedStackInv
<1>2. ASSUME NEW l \in Objects PROVE LinkedStack!nodes(l) = cs[l] /\ LinkedStack!Proper(link, head[l])
  <2>1. LinkedStack!nodes(l) = cs[l] /\ head[l] = At(cs[l], 1) /\ Room(Addresses[K])
    BY LinkedStackKnown
  <2>2. N!Proper(link, At(cs[l], 1))
    BY <1>1, <2>1, HeapFacts DEF Chained
  <2>3. LinkedStack!Chain(link, head[l]) = N!Chain(link, head[l])
    BY Zenon DEF LinkedStack!Chain, N!Chain, LinkedStack!Cardinality, N!Cardinality
  <2>4. LinkedStack!Proper(link, head[l]) <=> N!Proper(link, head[l])
    BY ONLY <2>3, Zenon DEF LinkedStack!Proper, N!Proper, LinkedStack!IsInjective, N!IsInjective,
       LinkedStack!Last, N!Last, LinkedStack!null, N!null
  <2> QED BY <2>1, <2>2, <2>4
<1>3. \A l \in Objects : LinkedStack!NodeSet(l) = ToSet(cs[l])
  BY <1>2, Zenon DEF LinkedStack!NodeSet, LinkedStack!ToSet, ToSet
<1>4. UNION {LinkedStack!NodeSet(l) : l \in Objects} = UNION {ToSet(cs[l]) : l \in Objects}
  BY <1>3
<1>5. LinkedStack!NodesOwned
  BY <1>1, <1>2, <1>3, <1>4, Owned DEF LinkedStack!NodesOwned
<1>6. Addresses["linkedStackType"] = Addresses[K] /\ Elements["linkedStackType"] = Elements[K]
  BY DEF K
<1>7. head \in [Objects -> Addresses[K] \cup {0}]
  BY <1>1, Fields DEF LinkedStackInv, Firsts
<1>8. LinkedStack!TypeOK
  BY <1>1, <1>6, <1>7, Fields DEF LinkedStack!TypeOK, LinkedStack!Pointer, LinkedStack!null
<1> QED BY <1>5, <1>8

(* orderedLinkedList *)
LEMMA OrderedSafe ==
  ASSUME NEW cs, OrderedInv(cs)
  PROVE  Ordered!TypeOK /\ Ordered!WellLinked /\ Ordered!NodesOwned
<1>1. O \in LinkedKinds /\ Chained(O, cs) /\ "list" \in Objects /\ Answered
  BY DEF LinkedKinds, O, OrderedInv, Objects
<1>2. Addresses["orderedLinkedList"] = Addresses[O] /\ Elements["orderedLinkedList"] = Elements[O]
  BY DEF O
<1>4. PICK c : c = cs["list"]
  OBVIOUS
<1>5. /\ Ordered!nodes("list") = c /\ Ordered!Proper(link, head["list"]) /\ c \in Seq(Addresses[O])
      /\ head["list"] = At(c, 1) /\ tail["list"] = At(c, Len(c)) /\ size["list"] = Len(c)
  BY <1>4, OrderedKnown DEF Known
<1>6. /\ head = [l \in {"list"} |-> At(cs[l], 1)] /\ tail = [l \in {"list"} |-> At(cs[l], Len(cs[l]))]
      /\ size = [l \in {"list"} |-> Len(cs[l])]
  BY DEF OrderedInv, Firsts, Lasts, Lengths
<1>7. /\ head \in [{"list"} -> Addresses[O] \cup {0}] /\ tail \in [{"list"} -> Addresses[O] \cup {0}]
      /\ size \in [{"list"} -> Nat]
  <2>1. /\ Len(c) \in Nat /\ At(c, 1) \in Addresses[O] \cup {0}
        /\ At(c, Len(c)) \in Addresses[O] \cup {0}
    BY <1>1, <1>4, <1>5, Fields
  <2> QED BY <1>4, <1>6, <2>1
<1>8. Ordered!TypeOK
  BY <1>1, <1>2, <1>7, Fields DEF Ordered!TypeOK, Ordered!Pointer, Ordered!null, Answered
<1>9. tail["list"] = IF c = <<>> THEN 0 ELSE c[Len(c)]
  BY <1>5, LastOf
<1>10. Ordered!WellLinked
  BY <1>5, <1>9 DEF Ordered!WellLinked, Ordered!CountMatches, Ordered!null, Ordered!Last
<1>11. Ordered!NodeSet("list") = ToSet(c)
  BY <1>5, Zenon DEF Ordered!NodeSet, Ordered!ToSet, ToSet
<1>12. DOMAIN link = ToSet(c)
  BY <1>1, <1>4, OneOwned DEF OrderedInv
<1>13. Ordered!NodesOwned
  BY <1>11, <1>12 DEF Ordered!NodesOwned
<1> QED BY <1>8, <1>10, <1>13

(* linkedQueueType *)
LEMMA LinkedQueueSafe ==
  ASSUME NEW cs, LinkedQueueInv(cs)
  PROVE  LinkedQueue!TypeOK /\ LinkedQueue!RearIsLast /\ LinkedQueue!NoneLost
<1>1. Q \in LinkedKinds /\ Chained(Q, cs) /\ "list" \in Objects /\ Answered
  BY DEF LinkedKinds, Q, LinkedQueueInv, Objects
<1>2. Addresses["linkedQueueType"] = Addresses[Q] /\ Elements["linkedQueueType"] = Elements[Q]
  BY DEF Q
<1>3. PICK c : c = cs["list"]
  OBVIOUS
<1>4. /\ LinkedQueue!nodes = c /\ LinkedQueue!Proper(link, head) /\ c \in Seq(Addresses[Q])
      /\ head = At(c, 1) /\ tail = At(c, Len(c))
  BY <1>3, LinkedQueueKnown DEF Known
<1>5. head \in Addresses[Q] \cup {0} /\ tail \in Addresses[Q] \cup {0}
  <2>1. Len(c) \in Int
    BY <1>4
  <2> QED BY <1>1, <1>3, <1>4, <2>1, Fields
<1>6. LinkedQueue!TypeOK
  BY <1>1, <1>2, <1>5, Fields DEF LinkedQueue!TypeOK, LinkedQueue!Pointer, LinkedQueue!null, Answered
<1>7. tail = IF c = <<>> THEN 0 ELSE c[Len(c)]
  BY <1>4, LastOf
<1>8. LinkedQueue!RearIsLast
  BY <1>4, <1>7 DEF LinkedQueue!RearIsLast, LinkedQueue!null, LinkedQueue!Last
<1>9. DOMAIN link = ToSet(c)
  BY <1>1, <1>3, OneOwned DEF LinkedQueueInv
<1>10. LinkedQueue!NoneLost
  BY <1>4, <1>9 DEF LinkedQueue!NoneLost, LinkedQueue!ToSet, ToSet
<1> QED BY <1>6, <1>8, <1>10

(* doublyLinkedList *)
LEMMA LengthCounts ==
  ASSUME NEW A, NEW c \in Seq(A), IsInjective(c)
  PROVE  Cardinality(ToSet(c)) = Len(c)
<1>1. PICK n \in Nat : n = Len(c) /\ DOMAIN c = 1..n
  OBVIOUS
<1>2. c \in [1..n -> ToSet(c)] /\ \A b \in ToSet(c) : \E i \in 1..n : c[i] = b
  BY <1>1 DEF ToSet
<1>3. \A i, j \in 1..n : c[i] = c[j] => i = j
  BY <1>1, Zenon DEF IsInjective
<1>4. ExistsBijection(1..n, ToSet(c))
  BY <1>2, <1>3 DEF ExistsBijection, Bijection, Injection, Surjection, IsInjective
<1>5. IsFiniteSet(1..n) /\ Cardinality(1..n) = n
  BY FS_Interval
<1> QED BY <1>1, <1>4, <1>5, FS_Bijection

LEMMA DoublySafe ==
  ASSUME NEW cs, DoublyInv(cs)
  PROVE  Doubly!TypeOK /\ Doubly!LastIsLast /\ Doubly!BothWays /\ Doubly!NoneLost
<1>1. D \in LinkedKinds /\ Chained(D, cs) /\ "list" \in Objects /\ Answered
  BY DEF LinkedKinds, D, DoublyInv, Objects
<1>2. Addresses["doublyLinkedList"] = Addresses[D] /\ Elements["doublyLinkedList"] = Elements[D]
  BY DEF D
<1>3. Doubly!Cardinality(Addresses[D]) = Cardinality(Addresses[D])
      /\ Doubly!Cardinality(DOMAIN info) = Cardinality(DOMAIN info)
  BY Zenon DEF Doubly!Cardinality, Cardinality
<1>4. PICK c : c = cs["list"]
  OBVIOUS
<1>5. /\ Doubly!nodes = c /\ Doubly!Proper(link, head) /\ c \in Seq(Addresses[D]) /\ c \in Seq(Nat)
      /\ head = At(c, 1) /\ tail = At(c, Len(c)) /\ size = Len(c) /\ IsInjective(c)
      /\ BackField(link2, DOMAIN info) /\ BackLinked(link2, c) /\ Room(Addresses[D])
  BY <1>4, DoublyKnown DEF Known
<1>6. DOMAIN link = ToSet(c) /\ DOMAIN info = ToSet(c)
  BY <1>1, <1>4, OneOwned DEF DoublyInv
<1>7. /\ head \in Addresses[D] \cup {0} /\ tail \in Addresses[D] \cup {0}
      /\ size \in 0..Cardinality(Addresses[D]) /\ \A i \in Int : At(c, i) \in Addresses[D] \cup {0}
  <2>1. Len(c) \in Int
    BY <1>5
  <2> QED BY <1>1, <1>4, <1>5, <2>1, Fields
<1>8. link2 \in [DOMAIN info -> Addresses[D] \cup {0}]
  <2>1. ASSUME NEW a \in DOMAIN info PROVE link2[a] \in Addresses[D] \cup {0}
    <3>1. PICK i \in 1..Len(c) : a = c[i]
      BY <1>5, <1>6 DEF ToSet
    <3>2. link2[c[i]] = At(c, i - 1) /\ i - 1 \in Int
      BY <1>5 DEF BackLinked
    <3> QED BY <1>7, <3>1, <3>2
  <2>2. link2 = [a \in DOMAIN info |-> link2[a]]
    BY <1>5 DEF BackField
  <2> QED BY <2>1, <2>2
<1>9. Doubly!TypeOK
  BY <1>1, <1>2, <1>3, <1>7, <1>8, Fields DEF Doubly!TypeOK, Doubly!Pointer, Doubly!null, Answered
<1>10. tail = IF c = <<>> THEN 0 ELSE c[Len(c)]
  BY <1>5, LastOf
<1>11. Doubly!LastIsLast
  BY <1>5, <1>10 DEF Doubly!LastIsLast, Doubly!null, Doubly!Last
<1>12. Doubly!NoneLost
  <2>1. Cardinality(DOMAIN info) = Len(c)
    BY <1>5, <1>6, LengthCounts
  <2> QED BY <1>3, <1>5, <1>6, <2>1 DEF Doubly!NoneLost, Doubly!ToSet, ToSet
<1>13. N!Chain(link2, tail) = Reverse(c) /\ N!Proper(link2, tail)
  <2>1. Linked(link2, tail, Reverse(c))
    BY <1>5, BackIsReverse
  <2>2. Pointers(link2)
    <3>1. DOMAIN link2 = DOMAIN info /\ DOMAIN info \subseteq Addresses[D]
      BY <1>1, <1>5, Fields DEF BackField
    <3> QED BY <1>5, <1>7, <1>8, <3>1, FS_Subset DEF Pointers, Room
  <2> QED BY <2>1, <2>2, ChainIs, ProperIs
<1>14. Doubly!Chain(link2, tail) = N!Chain(link2, tail)
  BY Zenon DEF Doubly!Chain, N!Chain, Doubly!Cardinality, N!Cardinality
<1>15. Doubly!Proper(link2, tail) <=> N!Proper(link2, tail)
  BY ONLY <1>14, Zenon DEF Doubly!Proper, N!Proper, Doubly!IsInjective, N!IsInjective,
     Doubly!Last, N!Last, Doubly!null, N!null
<1>16. Doubly!Reverse(c) = Reverse(c)
  BY Zenon DEF Doubly!Reverse, Reverse
<1>17. Doubly!BothWays
  BY <1>5, <1>13, <1>14, <1>15, <1>16 DEF Doubly!BothWays
<1> QED BY <1>9, <1>11, <1>12, <1>17

LEMMA StructSafe ==
  ASSUME StructInv
  PROVE  StructTypeOK /\ WellLinked /\ NodesOwned
<1>1. TypeOK /\ RearFollows
  BY DEF StructInv, QueueInv
<1>2. kind = U => List!TypeOK /\ List!WellLinked /\ List!NodesOwned
  BY ListSafe DEF StructInv
<1>3. kind = S => ListStack!TypeOK /\ ListStack!NodesOwned
  BY ListStackSafe DEF StructInv
<1>4. kind = O => Ordered!TypeOK /\ Ordered!WellLinked /\ Ordered!NodesOwned
  BY OrderedSafe DEF StructInv
<1>5. kind = D => Doubly!TypeOK /\ Doubly!LastIsLast /\ Doubly!BothWays /\ Doubly!NoneLost
  BY DoublySafe DEF StructInv
<1>6. kind = K => LinkedStack!TypeOK /\ LinkedStack!NodesOwned
  BY LinkedStackSafe DEF StructInv
<1>7. kind = Q => LinkedQueue!TypeOK /\ LinkedQueue!RearIsLast /\ LinkedQueue!NoneLost
  BY LinkedQueueSafe DEF StructInv
<1>8. kind = B => Tree!TypeOK /\ Tree!Ordered /\ Tree!OneTree
  BY TreeSafe DEF StructInv
<1>9. StructTypeOK
  BY <1>1, <1>2, <1>3, <1>4, <1>5, <1>6, <1>7, <1>8 DEF StructTypeOK, U, S, O, D, K, Q, B
<1>10. WellLinked
  BY <1>1, <1>2, <1>4, <1>5, <1>7, <1>8 DEF WellLinked, U, O, D, Q, B
<1>11. NodesOwned
  BY <1>2, <1>3, <1>4, <1>5, <1>6, <1>7, <1>8 DEF NodesOwned, U, S, O, D, K, Q, B
<1> QED BY <1>9, <1>10, <1>11

-----------------------------------------------------------------------------
(* Lists, stacks and the linked queue are sequences: every call of every   *)
(* method, whatever calls went before, leaves and answers what linkedList.h*)
(* (7-54), stack.h (6-29) and queue.h (6-48) promise.                      *)
THEOREM StructuresAreSequences == StructSpec => IsSequence
<1>1. StructInit => (kind \in SequenceKinds => Sequence!Init)
  BY StructInitInv
<1>2. StructInv /\ [StructNext]_<<vars, kind, linked>> => [(kind \in SequenceKinds) => Sequence!Next]_linked
  BY StructStep
<1> QED BY <1>1, <1>2, StructInvHolds, PTL DEF StructSpec, IsSequence

(* The search tree is a set: the loops of search, insert and deleteNode    *)
(* (binarySearchTree.h), which follow one path and never turn back, miss   *)
(* no element, and deleteNode loses none but its own, whatever calls went  *)
(* before.                                                                 *)
THEOREM StructuresTreeIsSet == StructSpec => IsSet
<1>1. StructInit => Set!Init
  BY TreeInits
<1>2. StructInv /\ [StructNext]_<<vars, kind, linked>> => [Set!Next]_(Set!state)
  BY SetStep
<1> QED BY <1>1, <1>2, StructInvHolds, PTL DEF StructSpec, IsSet, Set!Spec

(* The fields of every object, also of the stack derived from the list,    *)
(* are null or lead to a place for a node, the count never goes below      *)
(* zero, every node's links are null or such places, and the indices of    *)
(* the circular array stay inside it (queue.h:128-168).                    *)
THEOREM StructuresTyped == StructSpec => []StructTypeOK
BY StructInvHolds, StructSafe, PTL

(* The last node, the rear, the count and the links back agree with the    *)
(* chain from the front after every branch of every method                 *)
(* (unorderedLinkedList.h:63-178, orderedLinkedList.h:47-196,              *)
(* doublyLinkedList.h:104-330, linkedQueue.h:88-197, queue.h:128-168).     *)
THEOREM StructuresWellLinked == StructSpec => []WellLinked
BY StructInvHolds, StructSafe, PTL

(* No node is lost, deleted twice or shared, also after copies             *)
(* (linkedList.h:201-246, linkedStack.h:203-290, linkedQueue.h:88-137).    *)
THEOREM StructuresOwnNodes == StructSpec => []NodesOwned
BY StructInvHolds, StructSafe, PTL

(* front and back return, and addQueue and deleteQueue leave, elements     *)
(* that were added (queue.h:128-168), though entries are never cleared.    *)
THEOREM OnlyStoredAlways == StructSpec => []OnlyStored
BY StructIsQueue, QueueInvHolds, PTL DEF QueueInv

(* queueType is a queue: for every size of the array, sequence of calls    *)
(* and type of element, its answers are those of queueADT (queue.h:6-48).  *)
THEOREM QueueTypeIsFifo == (Spec => IsFifo) /\ (StructSpec => IsFifo)
<1>1. Spec => IsFifo
  BY QueueInvHolds, FifoInit, FifoStep, PTL DEF Spec, IsFifo, Queue!Spec
<1> QED BY <1>1, StructIsQueue, PTL
=============================================================================
