------------------------ MODULE HyperContainerProofs ------------------------
(***************************************************************************)
(* A hypercontainer, for every page size, region, number of arrays,        *)
(* element size that divides a page, set of frames, reserved pages and     *)
(* sequence of calls, whichever of them the OS refused.                    *)
(*                                                                         *)
(* 1. The layout: containers touch, never overlap, ascend in their array   *)
(*    and have room for what their caller asked.                           *)
(* 2. The page frames: the page frame array, the page table and what the   *)
(*    process holds agree, so that no call fails because they would not.   *)
(*    The invariant FramesIInv adds them to the layout.                    *)
(* 3. The bytes: HyperContainer implements the independent arrays of       *)
(*    CallerArrays.  What the proof follows is a byte, from its address    *)
(*    over the page frame array to its frame: through the closing and the  *)
(*    opening of a gap in that array, the copying of the bytes behind a    *)
(*    container, and the move of the containers behind it.                 *)
(***************************************************************************)
EXTENDS HyperContainer, NaturalsProofs

-----------------------------------------------------------------------------
(* The geometry of pages: division and remainder. *)
LEMMA DivMod ==
  ASSUME NEW a \in Int, NEW d \in Nat \ {0}
  PROVE  /\ a \div d \in Int /\ a % d \in 0..d - 1
         /\ a = d * (a \div d) + (a % d)
  OBVIOUS

LEMMA DivExact ==
  ASSUME NEW k \in Int, NEW d \in Nat \ {0}
  PROVE  (d * k) \div d = k
  OBVIOUS

LEMMA ModExact ==
  ASSUME NEW k \in Int, NEW d \in Nat \ {0}
  PROVE  (d * k) % d = 0
  OBVIOUS

LEMMA Cancel ==
  ASSUME NEW d \in Nat \ {0}, NEW k \in Int, NEW l \in Int, d * k >= d * l
  PROVE  k >= l
  OBVIOUS

-----------------------------------------------------------------------------
(* mappingAddress and nextMappingAddress: the first page boundary at or    *)
(* after an address.                                                       *)
LEMMA RoundUpProperties ==
  ASSUME PageSizeAssumption, NEW a \in Int
  PROVE  /\ RoundUp(a) \in Int
         /\ a <= RoundUp(a) /\ RoundUp(a) < a + PageSize
         /\ \E k \in Int : RoundUp(a) = PageSize * k
<1>1. PageSize \in Nat \ {0}
  BY DEF PageSizeAssumption
<1> DEFINE q == a \div PageSize
           r == a % PageSize
<1>2. q \in Int /\ r \in 0..PageSize - 1 /\ a = PageSize * q + r
  BY <1>1, DivMod
<1>3. CASE r = 0
  <2>1. RoundUp(a) = a
    BY <1>3 DEF RoundUp
  <2> HIDE DEF r, q
  <2>2. RoundUp(a) = PageSize * q
    BY <2>1, <1>2, <1>3, <1>1
  <2> QED BY <2>1, <2>2, <1>1, <1>2
<1>4. CASE r # 0
  <2>1. RoundUp(a) = a - r + PageSize
    BY <1>4 DEF RoundUp
  <2> HIDE DEF r, q
  <2>2. RoundUp(a) = PageSize * q + PageSize
    BY <2>1, <1>2, <1>1
  <2>3. PageSize * q + PageSize = PageSize * (q + 1) /\ q + 1 \in Int
    BY <1>1, <1>2
  <2> QED BY <2>1, <2>2, <2>3, <1>1, <1>2, <1>4
<1> QED BY <1>3, <1>4

(* PagesFor rounds up: the pages hold the bytes. *)
LEMMA PagesForCovers ==
  ASSUME PageSizeAssumption, NEW bytes \in Int
  PROVE  PagesFor(bytes) \in Nat /\ PageSize * PagesFor(bytes) >= bytes
<1>1. PageSize \in Nat \ {0}
  BY DEF PageSizeAssumption
<1>2. CASE bytes <= 0
  BY <1>1, <1>2 DEF PagesFor
<1>3. CASE bytes > 0
  <2> DEFINE x == bytes + PageSize - 1
             q == x \div PageSize
             r == x % PageSize
  <2>1. x \in Int /\ x >= PageSize
    BY <1>1, <1>3
  <2>2. q \in Int /\ r \in 0..PageSize - 1 /\ x = PageSize * q + r
    BY <1>1, <2>1, DivMod
  <2>3. PagesFor(bytes) = q
    BY <1>3 DEF PagesFor
  <2>4. PageSize * q >= bytes
    <3> HIDE DEF q, r
    <3> QED BY <2>2, <1>1
  <2>5. q >= 0
    <3> HIDE DEF q, r, x
    <3>1. PageSize * q >= PageSize * 0
      BY <2>4, <1>1, <1>3, <2>2
    <3> QED BY <3>1, <2>2, <1>1, Cancel
  <2> HIDE DEF q
  <2> QED BY <2>2, <2>3, <2>4, <2>5
<1> QED BY <1>2, <1>3

(* The bytes of the pages a container owns. *)
LEMMA OwnPages ==
  ASSUME PageSizeAssumption, NEW c, c.address \in Int,
         c.type_size \in Nat, c.elements_num \in Nat
  PROVE  /\ nextAddress(c) \in Int /\ nextAddress(c) >= c.address
         /\ nbrOfPages(c) \in Int
         /\ guestBytes(c) \in 0..PageSize - 1 /\ priorFreeBytes(c) \in 0..PageSize - 1
         /\ PageSize * nbrOfPages(c) + priorFreeBytes(c) - guestBytes(c) = c.type_size * c.elements_num
<1> DEFINE first == RoundUp(c.address)
           past  == RoundUp(nextAddress(c))
<1>1. PageSize \in Nat \ {0}
  BY DEF PageSizeAssumption
<1>2. nextAddress(c) \in Int /\ nextAddress(c) >= c.address
      /\ nextAddress(c) = c.address + c.type_size * c.elements_num
  BY DEF nextAddress
<1>3. /\ first \in Int /\ c.address <= first /\ first < c.address + PageSize
      /\ \E k \in Int : first = PageSize * k
  BY RoundUpProperties
<1>4. /\ past \in Int /\ nextAddress(c) <= past /\ past < nextAddress(c) + PageSize
      /\ \E k \in Int : past = PageSize * k
  BY <1>2, RoundUpProperties
<1>5. /\ priorFreeBytes(c) = first - c.address
      /\ guestBytes(c) = past - nextAddress(c)
      /\ nbrOfPages(c) = (past - first) \div PageSize
  BY DEF priorFreeBytes, guestBytes, nbrOfPages, mappingAddress, nextMappingAddress
<1> HIDE DEF first, past
<1>6. nbrOfPages(c) \in Int /\ PageSize * nbrOfPages(c) = past - first
  <2>1. PICK k \in Int : first = PageSize * k
    BY <1>3
  <2>2. PICK l \in Int : past = PageSize * l
    BY <1>4
  <2>3. past - first = PageSize * (l - k) /\ l - k \in Int
    BY <2>1, <2>2, <1>1
  <2>4. (past - first) \div PageSize = l - k
    BY <2>3, <1>1, DivExact
  <2> QED BY <2>3, <2>4, <1>5
<1>7. c.type_size * c.elements_num \in Int
  OBVIOUS
<1>8. PageSize * nbrOfPages(c) + priorFreeBytes(c) - guestBytes(c) = c.type_size * c.elements_num
  BY <1>2, <1>3, <1>4, <1>5, <1>6, <1>7
<1>9. guestBytes(c) \in 0..PageSize - 1 /\ priorFreeBytes(c) \in 0..PageSize - 1
  BY <1>1, <1>2, <1>3, <1>4, <1>5
<1> QED BY <1>2, <1>6, <1>8, <1>9

(* The division that gives a reallocated container its number of elements  *)
(* is exact when the element size divides the page size: the end of the    *)
(* container moves by exactly the pages added or removed.                  *)
LEMMA ElementsExact ==
  ASSUME PageSizeAssumption, NEW c, c.address \in Int,
         c.type_size \in Nat \ {0}, c.elements_num \in Nat,
         PageSize % c.type_size = 0, NEW pages \in Int
  PROVE  /\ ElementsIn(c, pages) \in Int
         /\ c.type_size * ElementsIn(c, pages) = PageSize * pages + priorFreeBytes(c) - guestBytes(c)
         /\ c.address + c.type_size * ElementsIn(c, pages)
              = nextAddress(c) + (pages - nbrOfPages(c)) * PageSize
<1> DEFINE T == c.type_size
           r == PageSize \div T
           N == nbrOfPages(c)
           m == c.elements_num
           num == PageSize * pages + priorFreeBytes(c) - guestBytes(c)
<1>1. PageSize \in Nat \ {0}
  BY DEF PageSizeAssumption
<1>2. r \in Int /\ PageSize = T * r
  <2>1. T \in Nat \ {0} /\ PageSize % T = 0
    OBVIOUS
  <2> HIDE DEF T
  <2>2. r \in Int /\ PageSize = T * r + (PageSize % T)
    BY <1>1, <2>1, DivMod
  <2> HIDE DEF r
  <2>3. T * r \in Int
    BY <2>1, <2>2
  <2> QED BY <2>1, <2>2, <2>3
<1>3. /\ N \in Int /\ guestBytes(c) \in Int /\ priorFreeBytes(c) \in Int
      /\ PageSize * N + priorFreeBytes(c) - guestBytes(c) = T * m
  BY OwnPages, <1>1
<1>4. nextAddress(c) = c.address + T * m
  BY DEF nextAddress
<1>5. ElementsIn(c, pages) = num \div T
  <2>1. pages * PageSize = PageSize * pages
    BY <1>1
  <2> QED BY <2>1 DEF ElementsIn
<1>6. T \in Nat \ {0} /\ m \in Nat
  OBVIOUS
<1> HIDE DEF T, r, N, m
<1>7. PageSize * (pages - N) = PageSize * pages - PageSize * N
  BY <1>1, <1>3
<1>8. num = PageSize * (pages - N) + T * m
  <2>1. PageSize * pages \in Int /\ PageSize * N \in Int /\ T * m \in Int
    BY <1>1, <1>3, <1>6
  <2> QED BY <1>3, <1>7, <2>1
<1>9. PageSize * (pages - N) = T * (r * (pages - N))
  BY <1>1, <1>2, <1>3, <1>6
<1>10. r * (pages - N) \in Int
  BY <1>2, <1>3
<1>11. num = T * (r * (pages - N) + m)
  BY <1>8, <1>9, <1>10, <1>6
<1>12. num \div T = r * (pages - N) + m
  BY <1>11, <1>10, <1>6, DivExact
<1>13. ElementsIn(c, pages) \in Int /\ T * ElementsIn(c, pages) = num
  BY <1>5, <1>11, <1>12, <1>10, <1>6
<1>14. (pages - N) * PageSize = PageSize * (pages - N)
  BY <1>1, <1>3
<1>15. c.address + T * ElementsIn(c, pages) = nextAddress(c) + (pages - N) * PageSize
  <2> HIDE DEF num
  <2>1. PageSize * (pages - N) \in Int /\ T * m \in Int
    BY <1>1, <1>3, <1>6
  <2> QED BY <1>13, <1>8, <1>14, <1>4, <2>1
<1> QED BY <1>13, <1>15 DEF T, N, num

(* A reallocation to n elements leaves room for n elements, whatever bytes *)
(* of other containers share the first and the last page.                  *)
LEMMA RequestSuffices ==
  ASSUME PageSizeAssumption, NEW c, c.address \in Int,
         c.type_size \in Nat \ {0}, c.elements_num \in Nat,
         PageSize % c.type_size = 0, NEW n \in Nat
  PROVE  /\ RequestedPages(c, n) \in Nat
         /\ ElementsIn(c, RequestedPages(c, n)) >= n
         /\ ElementsIn(c, nbrOfPages(c)) = c.elements_num
<1> DEFINE bytes == n * c.type_size - priorFreeBytes(c) + guestBytes(c)
           R == RequestedPages(c, n)
           E == ElementsIn(c, R)
<1>1. PageSize \in Nat \ {0}
  BY DEF PageSizeAssumption
<1>2. /\ nbrOfPages(c) \in Int /\ guestBytes(c) \in Int /\ priorFreeBytes(c) \in Int
      /\ PageSize * nbrOfPages(c) + priorFreeBytes(c) - guestBytes(c) = c.type_size * c.elements_num
  BY OwnPages, <1>1
<1>3. bytes \in Int
  BY <1>2
<1>4. R \in Nat /\ PageSize * R >= bytes
  <2> HIDE DEF bytes
  <2>1. PagesFor(bytes) \in Nat /\ PageSize * PagesFor(bytes) >= bytes
    BY <1>3, PagesForCovers
  <2> QED BY <2>1 DEF RequestedPages, bytes
<1> HIDE DEF R
<1>5. E \in Int /\ c.type_size * E = PageSize * R + priorFreeBytes(c) - guestBytes(c)
  BY <1>4, ElementsExact
<1>6. E >= n
  <2> HIDE DEF E
  <2>1. PageSize * R \in Int /\ n * c.type_size = c.type_size * n
    BY <1>1, <1>4
  <2>2. c.type_size * E >= c.type_size * n
    BY <1>2, <1>4, <1>5, <2>1
  <2> QED BY <2>2, <1>5, Cancel
<1>7. ElementsIn(c, nbrOfPages(c)) = c.elements_num
  <2> DEFINE F == ElementsIn(c, nbrOfPages(c))
  <2>1. F \in Int /\ c.type_size * F = c.type_size * c.elements_num
    BY <1>2, ElementsExact
  <2> HIDE DEF F
  <2>2. F >= c.elements_num /\ c.elements_num >= F
    BY <2>1, Cancel
  <2> QED BY <2>1, <2>2 DEF F
<1> QED BY <1>4, <1>6, <1>7 DEF R

-----------------------------------------------------------------------------
Indices == 1..Len(containers)

(* The first byte of container i and the one after its last. *)
Address(i) == pointer[containers[i].reference]
End(i) == Address(i) + containers[i].type_size * containers[i].elements_num

ContextType == [reference : PtrVars, type_size : Nat, elements_num : Nat]

LayoutType ==
  /\ containers \in Seq(ContextType)
  /\ pointer \in [PtrVars -> Nat] /\ asked \in [PtrVars -> Nat]

Contiguous ==
  \A i \in Indices : Address(i) = IF i = 1 THEN Base ELSE End(i - 1)

SizesRight ==
  \A i \in Indices :
    containers[i].type_size = TypeSize[containers[i].reference] /\ containers[i].elements_num > 0

OwnVariables ==
  \A i, j \in Indices : containers[i].reference = containers[j].reference => i = j

(* Not only neighbours: this is what makes LayoutInv inductive, since      *)
(* operator[] finds the right container only among distinct addresses.     *)
EndsBefore == \A i, j \in Indices : i < j => End(i) <= Address(j)

LayoutIInv ==
  LayoutType /\ Contiguous /\ SizesRight /\ OwnVariables /\ EndsBefore /\ CallerHasRoom

-----------------------------------------------------------------------------
LEMMA Member ==
  ASSUME NEW T, NEW s \in Seq(T), NEW i \in 1..Len(s)
  PROVE  s[i] \in T
  OBVIOUS

(* The invariant, container by container. *)
LEMMA Entrywise ==
  ASSUME LayoutIInv
  PROVE  /\ Len(containers) \in Nat
         /\ \A i \in Indices :
              /\ containers[i] \in ContextType
              /\ containers[i].reference \in PtrVars
              /\ containers[i].type_size \in Nat \ {0}
              /\ ReallocCounts # {} => PageSize % containers[i].type_size = 0
              /\ containers[i].elements_num \in Nat \ {0}
              /\ Address(i) \in Nat /\ End(i) \in Nat /\ Address(i) < End(i)
<1>1. containers \in Seq(ContextType) /\ pointer \in [PtrVars -> Nat] /\ SizesRight
  BY DEF LayoutIInv, LayoutType
<1>2. Len(containers) \in Nat
  BY <1>1
<1>3. ASSUME NEW i \in Indices
      PROVE  /\ containers[i] \in ContextType
             /\ containers[i].reference \in PtrVars
             /\ containers[i].type_size \in Nat \ {0}
             /\ ReallocCounts # {} => PageSize % containers[i].type_size = 0
             /\ containers[i].elements_num \in Nat \ {0}
             /\ Address(i) \in Nat /\ End(i) \in Nat /\ Address(i) < End(i)
  <2> DEFINE c == containers[i]
  <2>1. c \in ContextType
    BY <1>1, Member DEF Indices
  <2>2. c.type_size = TypeSize[c.reference] /\ c.elements_num > 0
    BY <1>1 DEF SizesRight
  <2>3. c.reference \in PtrVars /\ c.elements_num \in Nat \ {0}
    BY <2>1, <2>2 DEF ContextType
  <2>4. /\ c.type_size \in Nat \ {0}
        /\ ReallocCounts # {} => PageSize % c.type_size = 0
    BY <2>2, <2>3, HyperContainerAssumption, DivisibleAssumption
  <2>5. Address(i) \in Nat /\ End(i) = Address(i) + c.type_size * c.elements_num
    BY <1>1, <2>3 DEF Address, End
  <2> HIDE DEF c
  <2>6. c.type_size * c.elements_num \in Nat /\ c.type_size * c.elements_num > 0
    BY <2>3, <2>4
  <2>7. End(i) \in Nat /\ Address(i) < End(i)
    BY <2>5, <2>6
  <2> QED BY <2>1, <2>3, <2>4, <2>5, <2>7 DEF c
<1> QED BY <1>2, <1>3

LEMMA ContextOf ==
  ASSUME NEW i
  PROVE  /\ Context(i).address = Address(i)
         /\ Context(i).type_size = containers[i].type_size
         /\ Context(i).elements_num = containers[i].elements_num
         /\ nextAddress(Context(i)) = End(i)
  BY DEF Context, Address, End, nextAddress

(* operator[] finds the container of the variable it is given. *)
LEMMA PositionFound ==
  ASSUME LayoutIInv, NEW v \in PtrVars, InUse(v)
  PROVE  Position(v) \in Indices /\ containers[Position(v)].reference = v
<1>1. PICK j \in Indices : containers[j].reference = v
  BY DEF InUse, Indices
<1>2. Position(v) \in Indices /\ Address(Position(v)) = pointer[v]
  BY <1>1 DEF Position, Indices, Address
<1>3. Address(j) = pointer[v]
  BY <1>1 DEF Address
<1>4. \A i, k \in Indices : i < k => End(i) <= Address(k)
  BY DEF LayoutIInv, EndsBefore
<1>5. \A i \in Indices : i \in Nat /\ Address(i) \in Nat /\ End(i) \in Nat /\ Address(i) < End(i)
  BY Entrywise DEF Indices
<1> DEFINE p == Position(v)
<1> HIDE DEF p
<1>6. ASSUME p \in Indices, Address(p) = Address(j)
      PROVE  p = j
  <2>1. ~(p < j)
    BY <1>1, <1>4, <1>5, <1>6
  <2>2. ~(j < p)
    BY <1>1, <1>4, <1>5, <1>6
  <2> QED BY <1>1, <1>5, <1>6, <2>1, <2>2
<1>7. p = j
  BY <1>2, <1>3, <1>6 DEF p
<1> QED BY <1>1, <1>7 DEF p

-----------------------------------------------------------------------------
LEMMA LayoutInit == Init => LayoutIInv
<1> SUFFICES ASSUME Init PROVE LayoutIInv
  OBVIOUS
<1>1. containers = <<>> /\ Indices = {}
  BY DEF Init, Indices
<1>2. LayoutType
  BY <1>1 DEF Init, LayoutType
<1>3. CallerHasRoom
  BY <1>1 DEF CallerHasRoom, Indices
<1> QED BY <1>1, <1>2, <1>3 DEF LayoutIInv, Contiguous, SizesRight, OwnVariables, EndsBefore

(* Calls that leave the layout alone, and those that throw before they     *)
(* have changed it.                                                        *)
LEMMA LayoutUnmoved ==
  ASSUME LayoutIInv, UNCHANGED <<containers, pointer, asked>>,
         status' = "running" => status = "running"
  PROVE  LayoutIInv'
<1>1. LayoutType' /\ Contiguous' /\ SizesRight' /\ OwnVariables' /\ EndsBefore'
  BY DEF LayoutIInv, LayoutType, Contiguous, SizesRight, OwnVariables, EndsBefore,
         Indices, Address, End
<1>2. CallerHasRoom'
  BY DEF LayoutIInv, CallerHasRoom
<1> QED BY <1>1, <1>2 DEF LayoutIInv

LEMMA LayoutGone ==
  ASSUME LayoutIInv, containers' = <<>>, pointer' = pointer, asked' \in [PtrVars -> Nat]
  PROVE  LayoutIInv'
<1>1. LayoutType'
  BY DEF LayoutIInv, LayoutType
<1>2. Indices' = {} /\ Len(containers') = 0
  BY DEF Indices
<1> QED BY <1>1, <1>2
  DEF LayoutIInv, Contiguous, SizesRight, OwnVariables, EndsBefore, CallerHasRoom

(* A new container at the end of the last one.                             *)
LEMMA LayoutAppended ==
  ASSUME LayoutIInv, NEW v \in PtrVars, ~InUse(v), NEW n \in Nat \ {0},
         containers' = Append(containers,
           [reference |-> v, type_size |-> TypeSize[v], elements_num |-> n]),
         pointer' = [pointer EXCEPT ![v] =
           IF containers = <<>> THEN Base ELSE nextAddress(Context(Len(containers)))],
         \/ asked' = [asked EXCEPT ![v] = n]
         \/ asked' = asked /\ status' # "running",
         status' = "running" => status = "running"
  PROVE  LayoutIInv'
<1>0. PICK m \in Nat : m = Len(containers)
  BY Entrywise
<1> DEFINE c == [reference |-> v, type_size |-> TypeSize[v], elements_num |-> n]
           at == IF containers = <<>> THEN Base ELSE nextAddress(Context(Len(containers)))
<1>1. /\ containers \in Seq(ContextType) /\ m = Len(containers) /\ m \in Nat
      /\ pointer \in [PtrVars -> Nat] /\ asked \in [PtrVars -> Nat]
  BY <1>0 DEF LayoutIInv, LayoutType
<1>2. c \in ContextType /\ TypeSize[v] \in Nat \ {0} /\ Base \in Nat
  BY HyperContainerAssumption DEF ContextType
<1>3. at \in Nat /\ at = IF m = 0 THEN Base ELSE End(m)
  <2>1. CASE containers = <<>>
    BY <2>1, <1>2, <1>0
  <2>2. CASE containers # <<>>
    <3>1. m > 0 /\ m \in Indices
      BY <2>2, <1>1 DEF Indices
    <3>2. End(m) \in Nat /\ nextAddress(Context(m)) = End(m)
      BY <3>1, Entrywise, ContextOf
    <3> QED BY <3>1, <3>2, <2>2, <1>0
  <2> QED BY <2>1, <2>2
<1> HIDE DEF at, c
<1>4. /\ containers' \in Seq(ContextType) /\ Len(containers') = m + 1
      /\ containers'[m + 1] = c
      /\ \A i \in 1..m : containers'[i] = containers[i]
  BY <1>1, <1>2 DEF c
<1>5. Indices' = 1..m + 1 /\ Indices = 1..m
  BY <1>4 DEF Indices
<1>6. \A i \in 1..m : containers[i].reference \in PtrVars /\ containers[i].reference # v
  BY Entrywise, <1>5, <1>0 DEF InUse
<1>7. /\ pointer' \in [PtrVars -> Nat] /\ pointer'[v] = at
      /\ \A w \in PtrVars : w # v => pointer'[w] = pointer[w]
  BY <1>1, <1>3 DEF at
<1>8. c.reference = v /\ c.type_size = TypeSize[v] /\ c.elements_num = n
  BY DEF c
<1>9. \A i \in 1..m : Address(i)' = Address(i) /\ End(i)' = End(i)
  BY <1>4, <1>6, <1>7 DEF Address, End
<1>10. Address(m + 1)' = at
  BY <1>4, <1>7, <1>8 DEF Address
<1>11. \A i \in 1..m + 1 : i # m + 1 => i \in 1..m
  BY <1>1
<1>12. LayoutType'
  BY <1>1, <1>4, <1>7 DEF LayoutType
<1>13. Contiguous'
  <2> SUFFICES ASSUME NEW i \in 1..m + 1
               PROVE  Address(i)' = IF i = 1 THEN Base ELSE End(i - 1)'
    BY <1>5 DEF Contiguous
  <2>1. CASE i = m + 1
    <3>1. i # 1 => m \in 1..m /\ i - 1 = m /\ m # 0
      BY <1>1, <2>1
    <3>2. i = 1 => m = 0
      BY <1>1, <2>1
    <3> QED BY <3>1, <3>2, <2>1, <1>3, <1>9, <1>10
  <2>2. CASE i # m + 1
    <3>1. i \in 1..m /\ (i # 1 => i - 1 \in 1..m)
      BY <1>1, <2>2
    <3>2. Address(i) = IF i = 1 THEN Base ELSE End(i - 1)
      BY <3>1, <1>5 DEF LayoutIInv, Contiguous
    <3> QED BY <3>1, <3>2, <1>9
  <2> QED BY <2>1, <2>2
<1>14. SizesRight'
  <2> SUFFICES ASSUME NEW i \in 1..m + 1
               PROVE  /\ containers'[i].type_size = TypeSize[containers'[i].reference]
                      /\ containers'[i].elements_num > 0
    BY <1>5 DEF SizesRight
  <2>1. CASE i = m + 1
    BY <2>1, <1>4, <1>8
  <2>2. CASE i # m + 1
    BY <2>2, <1>4, <1>5, <1>11 DEF LayoutIInv, SizesRight
  <2> QED BY <2>1, <2>2
<1>15. OwnVariables'
  <2> SUFFICES ASSUME NEW i \in 1..m + 1, NEW j \in 1..m + 1,
                      containers'[i].reference = containers'[j].reference
               PROVE  i = j
    BY <1>5 DEF OwnVariables
  <2>1. CASE i = m + 1 \/ j = m + 1
    BY <2>1, <1>4, <1>6, <1>8, <1>11
  <2>2. CASE i # m + 1 /\ j # m + 1
    BY <2>2, <1>4, <1>5, <1>11 DEF LayoutIInv, OwnVariables
  <2> QED BY <2>1, <2>2
<1>16. EndsBefore'
  <2> SUFFICES ASSUME NEW i \in 1..m + 1, NEW j \in 1..m + 1, i < j
               PROVE  End(i)' <= Address(j)'
    BY <1>5 DEF EndsBefore
  <2>1. i \in 1..m
    BY <1>1
  <2>2. CASE j # m + 1
    <3>1. j \in 1..m
      BY <2>2, <1>11
    <3>2. End(i) <= Address(j)
      BY <2>1, <3>1, <1>5 DEF LayoutIInv, EndsBefore
    <3> QED BY <2>1, <3>1, <3>2, <1>9
  <2>3. CASE j = m + 1
    <3>1. m \in 1..m /\ m # 0
      BY <2>1, <1>1
    <3>2. End(i) <= End(m)
      <4>1. CASE i = m
        BY <4>1, <3>1, <1>5, Entrywise
      <4>2. CASE i # m
        <5>1. i < m
          BY <4>2, <2>1, <1>1
        <5>2. End(i) <= Address(m)
          BY <5>1, <2>1, <3>1, <1>5 DEF LayoutIInv, EndsBefore
        <5>3. /\ End(i) \in Nat /\ Address(m) \in Nat
              /\ End(m) \in Nat /\ Address(m) < End(m)
          BY <2>1, <3>1, <1>5, Entrywise
        <5> QED BY <5>2, <5>3
      <4> QED BY <4>1, <4>2
    <3> QED BY <3>1, <3>2, <2>1, <2>3, <1>3, <1>9, <1>10
  <2> QED BY <2>2, <2>3
<1>17. CallerHasRoom'
  <2> SUFFICES ASSUME status' = "running", NEW i \in 1..m + 1
               PROVE  containers'[i].elements_num >= asked'[containers'[i].reference]
    BY <1>4 DEF CallerHasRoom
  <2>1. status = "running" /\ asked' = [asked EXCEPT ![v] = n]
    OBVIOUS
  <2>2. asked'[v] = n /\ \A w \in PtrVars : w # v => asked'[w] = asked[w]
    BY <2>1, <1>1
  <2>3. CASE i = m + 1
    BY <2>2, <2>3, <1>4, <1>8
  <2>4. CASE i # m + 1
    <3>1. i \in 1..m
      BY <2>4, <1>11
    <3>2. containers[i].elements_num >= asked[containers[i].reference]
      BY <3>1, <2>1, <1>0 DEF LayoutIInv, CallerHasRoom
    <3> QED BY <3>1, <3>2, <2>2, <1>4, <1>6
  <2> QED BY <2>3, <2>4
<1> QED BY <1>12, <1>13, <1>14, <1>15, <1>16, <1>17 DEF LayoutIInv

(* What Resettle does to the first byte and the end of every container: k  *)
(* keeps its address, its end and everything behind it move.               *)
LEMMA ResettleMoves ==
  ASSUME LayoutIInv, ReallocCounts # {},
         NEW k \in Indices, NEW n \in Nat \ {0}, NEW pages \in Int,
         NEW by \in Int, by = (pages - nbrOfPages(Context(k))) * PageSize,
         ElementsIn(Context(k), pages) >= n,
         Resettle(k, pages, by)
  PROVE  /\ ElementsIn(Context(k), pages) \in Nat \ {0}
         /\ pointer' = [v \in PtrVars |-> IF Behind(k, v) THEN pointer[v] + by ELSE pointer[v]]
         /\ containers' \in Seq(ContextType) /\ Len(containers') = Len(containers)
         /\ \A i \in Indices :
              /\ containers'[i].reference = containers[i].reference
              /\ containers'[i].type_size = containers[i].type_size
              /\ containers'[i].elements_num =
                   IF i = k THEN ElementsIn(Context(k), pages) ELSE containers[i].elements_num
              /\ Behind(k, containers[i].reference) <=> i > k
              /\ Address(i)' = IF i > k THEN Address(i) + by ELSE Address(i)
              /\ End(i)' = IF i >= k THEN End(i) + by ELSE End(i)
         /\ Address(k) + containers[k].type_size * ElementsIn(Context(k), pages) = End(k) + by
<1>1. PICK m \in Nat : m = Len(containers)
  BY Entrywise
<1>2. Indices = 1..m
  BY <1>1 DEF Indices
<1>3. /\ containers \in Seq(ContextType)
      /\ pointer \in [PtrVars -> Nat] /\ asked \in [PtrVars -> Nat]
  BY DEF LayoutIInv, LayoutType
<1>4. \A i \in 1..m :
        /\ containers[i] \in ContextType
        /\ containers[i].reference \in PtrVars
        /\ containers[i].type_size \in Nat \ {0}
        /\ ReallocCounts # {} => PageSize % containers[i].type_size = 0
        /\ containers[i].elements_num \in Nat \ {0}
        /\ Address(i) \in Nat /\ End(i) \in Nat /\ Address(i) < End(i)
  BY <1>2, Entrywise
<1> DEFINE e == ElementsIn(Context(k), pages)
<1>5. e \in Nat \ {0} /\ Address(k) + containers[k].type_size * e = End(k) + by
  <2> DEFINE c == Context(k)
  <2>1. /\ c.address \in Int /\ c.type_size \in Nat \ {0} /\ c.elements_num \in Nat
        /\ PageSize % c.type_size = 0
    <3>1. /\ c.address = Address(k) /\ c.type_size = containers[k].type_size
          /\ c.elements_num = containers[k].elements_num
      BY ContextOf
    <3>2. k \in 1..m /\ PageSize % containers[k].type_size = 0
      BY <1>2, <1>4
    <3> HIDE DEF c
    <3> QED BY <3>1, <3>2, <1>4
  <2>2. /\ ElementsIn(c, pages) \in Int
        /\ c.address + c.type_size * ElementsIn(c, pages)
             = nextAddress(c) + (pages - nbrOfPages(c)) * PageSize
    <3> HIDE DEF c
    <3> QED BY <2>1, PageSizeAssumption, ElementsExact
  <2> QED BY <2>2, ContextOf
<1> HIDE DEF e
<1>6. /\ containers' = [containers EXCEPT ![k].elements_num = e]
      /\ pointer' = [v \in PtrVars |-> IF Behind(k, v) THEN pointer[v] + by ELSE pointer[v]]
  BY DEF Resettle, Moved, e
<1>7. /\ containers' \in Seq(ContextType) /\ Len(containers') = m
      /\ \A i \in 1..m :
           /\ containers'[i].reference = containers[i].reference
           /\ containers'[i].type_size = containers[i].type_size
           /\ containers'[i].elements_num = IF i = k THEN e ELSE containers[i].elements_num
  <2> DEFINE new == [containers[k] EXCEPT !.elements_num = e]
  <2>1. containers' = [containers EXCEPT ![k] = new]
    BY <1>6
  <2>2. /\ new \in ContextType /\ new.reference = containers[k].reference
        /\ new.type_size = containers[k].type_size /\ new.elements_num = e
    BY <1>2, <1>4, <1>5 DEF ContextType
  <2> HIDE DEF new
  <2>3. ASSUME NEW T, NEW s \in Seq(T), NEW i \in 1..Len(s), NEW x \in T
        PROVE  /\ [s EXCEPT ![i] = x] \in Seq(T) /\ Len([s EXCEPT ![i] = x]) = Len(s)
               /\ \A j \in 1..Len(s) : [s EXCEPT ![i] = x][j] = IF j = i THEN x ELSE s[j]
    OBVIOUS
  <2>4. /\ containers' \in Seq(ContextType) /\ Len(containers') = m
        /\ \A i \in 1..m : containers'[i] = IF i = k THEN new ELSE containers[i]
    BY <2>1, <2>2, <2>3, <1>1, <1>2, <1>3
  <2> QED BY <2>2, <2>4
<1>8. Indices' = 1..m
  BY <1>7 DEF Indices
<1>9. k \in 1..m
  BY <1>2
<1>10. \A i \in 1..m : Behind(k, containers[i].reference) <=> i > k
  <2>1. ASSUME NEW i \in 1..m, i > k PROVE Behind(k, containers[i].reference)
    BY <2>1, <1>1, <1>9 DEF Behind
  <2>2. ASSUME NEW i \in 1..m, Behind(k, containers[i].reference) PROVE i > k
    <3>1. PICK j \in k + 1..m : containers[j].reference = containers[i].reference
      BY <2>2, <1>1 DEF Behind
    <3>2. j \in 1..m /\ j > k
      BY <1>9
    <3>3. j = i
      BY <3>1, <3>2, <1>2 DEF LayoutIInv, OwnVariables
    <3> QED BY <3>2, <3>3
  <2> QED BY <2>1, <2>2
<1>11. \A i \in 1..m : Address(i)' = IF i > k THEN Address(i) + by ELSE Address(i)
  BY <1>4, <1>6, <1>7, <1>10 DEF Address
<1>12. \A i \in 1..m : End(i)' = IF i >= k THEN End(i) + by ELSE End(i)
  <2> SUFFICES ASSUME NEW i \in 1..m PROVE End(i)' = IF i >= k THEN End(i) + by ELSE End(i)
    OBVIOUS
  <2>1. End(i)' = Address(i)' + containers'[i].type_size * containers'[i].elements_num
    BY DEF End, Address
  <2>2. End(i) = Address(i) + containers[i].type_size * containers[i].elements_num
    BY DEF End
  <2>3. CASE i = k
    BY <2>1, <2>3, <1>5, <1>7, <1>9, <1>11
  <2>4. CASE i # k
    <3>1. containers[i].type_size * containers[i].elements_num \in Int
      BY <1>4
    <3>2. End(i)' = Address(i)' + containers[i].type_size * containers[i].elements_num
      BY <2>1, <2>4, <1>7
    <3>3. Address(i) \in Nat /\ End(i) \in Nat /\ i \in Nat /\ k \in Nat
      BY <1>4, <1>9
    <3> QED BY <3>1, <3>2, <3>3, <2>2, <2>4, <1>11
  <2> QED BY <2>3, <2>4
<1> QED BY <1>1, <1>2, <1>5, <1>6, <1>7, <1>10, <1>11, <1>12 DEF e

(* The end of a reallocation: container k owns another number of pages and *)
(* everything behind it has moved by the difference.                       *)
LEMMA LayoutResettled ==
  ASSUME LayoutIInv, ReallocCounts # {},
         NEW k \in Indices, NEW n \in Nat \ {0}, NEW pages \in Int,
         NEW by \in Int, by = (pages - nbrOfPages(Context(k))) * PageSize,
         ElementsIn(Context(k), pages) >= n,
         Resettle(k, pages, by),
         asked' = [asked EXCEPT ![containers[k].reference] = n],
         status' = "running" => status = "running"
  PROVE  LayoutIInv'
<1>1. PICK m \in Nat : m = Len(containers)
  BY Entrywise
<1>2. Indices = 1..m
  BY <1>1 DEF Indices
<1>3. /\ containers \in Seq(ContextType)
      /\ pointer \in [PtrVars -> Nat] /\ asked \in [PtrVars -> Nat]
  BY DEF LayoutIInv, LayoutType
<1>4. \A i \in 1..m :
        /\ containers[i] \in ContextType
        /\ containers[i].reference \in PtrVars
        /\ containers[i].type_size \in Nat \ {0}
        /\ ReallocCounts # {} => PageSize % containers[i].type_size = 0
        /\ containers[i].elements_num \in Nat \ {0}
        /\ Address(i) \in Nat /\ End(i) \in Nat /\ Address(i) < End(i)
  BY <1>2, Entrywise
<1>0. /\ containers' \in Seq(ContextType) /\ Len(containers') = Len(containers)
      /\ \A i \in Indices :
           /\ containers'[i].reference = containers[i].reference
           /\ containers'[i].type_size = containers[i].type_size
           /\ containers'[i].elements_num =
                IF i = k THEN ElementsIn(Context(k), pages) ELSE containers[i].elements_num
           /\ Address(i)' = IF i > k THEN Address(i) + by ELSE Address(i)
           /\ End(i)' = IF i >= k THEN End(i) + by ELSE End(i)
  BY ResettleMoves
<1> DEFINE e == ElementsIn(Context(k), pages)
<1>5. e \in Nat \ {0} /\ Address(k) + containers[k].type_size * e = End(k) + by
  BY ResettleMoves
<1>6. pointer' = [v \in PtrVars |-> IF Behind(k, v) THEN pointer[v] + by ELSE pointer[v]]
  BY ResettleMoves
<1>7. /\ containers' \in Seq(ContextType) /\ Len(containers') = m
      /\ \A i \in 1..m :
           /\ containers'[i].reference = containers[i].reference
           /\ containers'[i].type_size = containers[i].type_size
           /\ containers'[i].elements_num = IF i = k THEN e ELSE containers[i].elements_num
  BY <1>0, <1>1, <1>2
<1> HIDE DEF e
<1>8. Indices' = 1..m
  BY <1>7 DEF Indices
<1>9. k \in 1..m
  BY <1>2
<1>11. \A i \in 1..m : Address(i)' = IF i > k THEN Address(i) + by ELSE Address(i)
  BY <1>0, <1>2
<1>12. \A i \in 1..m : End(i)' = IF i >= k THEN End(i) + by ELSE End(i)
  BY <1>0, <1>2
<1>13. \A i \in 1..m : i > k => End(k) <= Address(i)
  BY <1>2, <1>9 DEF LayoutIInv, EndsBefore
<1>14. End(k) + by > Address(k)
  <2>1. containers[k].type_size * e \in Nat /\ containers[k].type_size * e > 0
    BY <1>4, <1>5, <1>9
  <2> QED BY <2>1, <1>4, <1>5, <1>9
<1>15. \A i \in 1..m : Address(i)' \in Nat
  BY <1>4, <1>9, <1>11, <1>13, <1>14
<1>16. LayoutType'
  <2>1. pointer' \in [PtrVars -> Nat]
    <3> SUFFICES ASSUME NEW v \in PtrVars
                 PROVE  (IF Behind(k, v) THEN pointer[v] + by ELSE pointer[v]) \in Nat
      BY <1>6
    <3>1. CASE Behind(k, v)
      <4>1. PICK i \in k + 1..m : containers[i].reference = v
        BY <3>1, <1>1 DEF Behind
      <4>2. i \in 1..m /\ i > k
        BY <1>9
      <4>3. Address(i) = pointer[v] /\ Address(i) + by \in Nat
        BY <4>1, <4>2, <1>11, <1>15 DEF Address
      <4> QED BY <4>3, <3>1
    <3>2. CASE ~Behind(k, v)
      BY <3>2, <1>3
    <3> QED BY <3>1, <3>2
  <2>2. asked' \in [PtrVars -> Nat]
    BY <1>3
  <2> QED BY <2>1, <2>2, <1>7 DEF LayoutType
<1>17. Contiguous'
  <2> SUFFICES ASSUME NEW i \in 1..m
               PROVE  Address(i)' = IF i = 1 THEN Base ELSE End(i - 1)'
    BY <1>8 DEF Contiguous
  <2>1. Address(i) = IF i = 1 THEN Base ELSE End(i - 1)
    BY <1>2 DEF LayoutIInv, Contiguous
  <2>2. CASE i = 1
    BY <2>1, <2>2, <1>9, <1>11
  <2>3. CASE i # 1
    <3>1. i - 1 \in 1..m /\ (i - 1 >= k <=> i > k)
      BY <2>3, <1>9
    <3> QED BY <3>1, <2>1, <2>3, <1>11, <1>12
  <2> QED BY <2>2, <2>3
<1>18. SizesRight'
  BY <1>2, <1>5, <1>7, <1>8 DEF LayoutIInv, SizesRight
<1>19. OwnVariables'
  BY <1>2, <1>7, <1>8 DEF LayoutIInv, OwnVariables
<1>20. EndsBefore'
  <2> SUFFICES ASSUME NEW i \in 1..m, NEW j \in 1..m, i < j
               PROVE  End(i)' <= Address(j)'
    BY <1>8 DEF EndsBefore
  <2>1. End(i) <= Address(j)
    BY <1>2 DEF LayoutIInv, EndsBefore
  <2>2. /\ Address(i) \in Nat /\ End(i) \in Nat /\ Address(i) < End(i)
        /\ Address(j) \in Nat /\ i \in Nat /\ j \in Nat /\ k \in Nat
        /\ Address(k) \in Nat /\ End(k) \in Nat
    BY <1>4, <1>9
  <2>3. CASE j <= k
    BY <2>1, <2>2, <2>3, <1>11, <1>12
  <2>4. CASE i >= k
    BY <2>1, <2>2, <2>4, <1>11, <1>12
  <2>5. CASE i < k /\ k < j
    <3>1. End(i) <= Address(k) /\ End(k) <= Address(j)
      BY <2>5, <1>2, <1>9 DEF LayoutIInv, EndsBefore
    <3>2. End(i)' = End(i) /\ Address(j)' = Address(j) + by
      BY <2>2, <2>5, <1>11, <1>12
    <3> QED BY <3>1, <3>2, <2>2, <1>14
  <2> QED BY <2>2, <2>3, <2>4, <2>5
<1>21. CallerHasRoom'
  <2> SUFFICES ASSUME status' = "running", NEW i \in 1..m
               PROVE  containers'[i].elements_num >= asked'[containers'[i].reference]
    BY <1>7 DEF CallerHasRoom
  <2>1. containers[i].elements_num >= asked[containers[i].reference]
    BY <1>1 DEF LayoutIInv, CallerHasRoom
  <2>2. CASE i = k
    BY <2>2, <1>3, <1>4, <1>7, <1>9 DEF e
  <2>3. CASE i # k
    <3>1. containers[i].reference # containers[k].reference
      BY <2>3, <1>2, <1>9 DEF LayoutIInv, OwnVariables
    <3> QED BY <3>1, <2>1, <2>3, <1>3, <1>4, <1>7, <1>9
  <2> QED BY <2>2, <2>3
<1> QED BY <1>16, <1>17, <1>18, <1>19, <1>20, <1>21 DEF LayoutIInv

-----------------------------------------------------------------------------
(* What each call does to the layout: it throws with the layout untouched, *)
(* or it appends a container, or it resettles one.                         *)
LEMMA ContainerAllocOutcome ==
  ASSUME NEW v \in PtrVars, NEW n, status = "running", ContainerAlloc(v, n)
  PROVE  \/ UNCHANGED <<containers, pointer, asked>> /\ status' # "running"
         \/ /\ containers' = Append(containers,
                 [reference |-> v, type_size |-> TypeSize[v], elements_num |-> n])
            /\ pointer' = [pointer EXCEPT ![v] =
                 IF containers = <<>> THEN Base ELSE nextAddress(Context(Len(containers)))]
            /\ \/ asked' = [asked EXCEPT ![v] = n]
               \/ asked' = asked /\ status' # "running"
<1> DEFINE guest   == IF containers = <<>> THEN 0 ELSE guestBytes(Context(Len(containers)))
           mapping == IF containers = <<>> THEN Base ELSE nextMappingAddress(Context(Len(containers)))
           pages   == PagesFor(TypeSize[v] * n - guest)
<1>1. CASE UNCHANGED <<bookkeeping, caller, os>> /\ Throw("no memory for contexts")
  BY <1>1 DEF bookkeeping, caller, Throw
<1>2. CASE /\ containers' = Append(containers,
                [reference |-> v, type_size |-> TypeSize[v], elements_num |-> n])
           /\ pointer' = [pointer EXCEPT ![v] =
                IF containers = <<>> THEN Base ELSE nextAddress(Context(Len(containers)))]
           /\ asked' = [asked EXCEPT ![v] = n] \/ TakePages(mapping, pages, v, n)
  <2>1. asked' = [asked EXCEPT ![v] = n] \/ (asked' = asked /\ status' # "running")
    <3> HIDE DEF mapping, pages
    <3> QED BY <1>2 DEF TakePages, Throw
  <2> QED BY <1>2, <2>1
<1> QED BY <1>1, <1>2 DEF ContainerAlloc

LEMMA ContainerReallocOutcome ==
  ASSUME LayoutIInv, ReallocCounts # {}, NEW v \in PtrVars, InUse(v), NEW n \in Nat \ {0},
         status = "running", ContainerRealloc(v, n)
  PROVE  LayoutIInv'
<1> DEFINE k == Position(v)
           R == RequestedPages(Context(k), n)
           N == nbrOfPages(Context(k))
           by == (R - N) * PageSize
<1>1. k \in Indices /\ containers[k].reference = v
  BY PositionFound
<1>2. PICK c : c = Context(k)
  OBVIOUS
<1>3. /\ c.address \in Int /\ c.type_size \in Nat \ {0} /\ c.elements_num \in Nat
      /\ PageSize % c.type_size = 0
  <2>1. /\ c.address = Address(k) /\ c.type_size = containers[k].type_size
        /\ c.elements_num = containers[k].elements_num
    BY <1>2, ContextOf
  <2> QED BY <2>1, <1>1, Entrywise
<1>4. /\ R \in Nat /\ ElementsIn(c, R) >= n /\ ElementsIn(c, N) = c.elements_num
      /\ N \in Int /\ by \in Int
  <2>1. /\ RequestedPages(c, n) \in Nat /\ ElementsIn(c, RequestedPages(c, n)) >= n
        /\ ElementsIn(c, nbrOfPages(c)) = c.elements_num
    BY <1>3, PageSizeAssumption, RequestSuffices
  <2>2. nbrOfPages(c) \in Int
    BY <1>3, PageSizeAssumption, OwnPages
  <2>3. (RequestedPages(c, n) - nbrOfPages(c)) * PageSize \in Int
    BY <2>1, <2>2, PageSizeAssumption DEF PageSizeAssumption
  <2> QED BY <2>1, <2>2, <2>3, <1>2
<1> DEFINE Threw == UNCHANGED <<containers, pointer, asked>> /\ status' # "running"
           Settled == /\ Resettle(k, R, by) /\ asked' = [asked EXCEPT ![v] = n]
                      /\ status' = "running"
<1>5. CASE Threw
  BY <1>5, LayoutUnmoved
<1>6. CASE Settled
  <2> HIDE DEF k, R
  <2>1. /\ by = (R - nbrOfPages(Context(k))) * PageSize
        /\ ElementsIn(Context(k), R) >= n
        /\ asked' = [asked EXCEPT ![containers[k].reference] = n]
    BY <1>1, <1>2, <1>4, <1>6
  <2>2. Resettle(k, R, by)
    BY <1>6
  <2>3. R \in Int /\ by \in Int /\ k \in Indices
    BY <1>1, <1>4
  <2> HIDE DEF by, N, Threw, Settled
  <2> QED BY ONLY LayoutIInv, ReallocCounts # {}, n \in Nat \ {0}, status = "running", <2>1, <2>2, <2>3, LayoutResettled
<1>7. CASE Shrink(v, n, k, R)
  <2>1. -((N - R) * PageSize) = by
    BY <1>4, PageSizeAssumption DEF PageSizeAssumption
  <2> HIDE DEF k, R
  <2>2. Threw \/ /\ Resettle(k, R, -((N - R) * PageSize))
                 /\ asked' = [asked EXCEPT ![v] = n]
                 /\ status' = "running"
    BY <1>7 DEF Shrink, Throw, bookkeeping, caller
  <2> QED BY <2>1, <2>2, <1>5, <1>6
<1>8. CASE Grow(v, n, k, R)
  <2> HIDE DEF k, R
  <2>1. Threw \/ Settled
    BY <1>8 DEF Grow, Throw, bookkeeping, caller
  <2> QED BY <2>1, <1>5, <1>6
<1>9. CASE R = N /\ asked' = [asked EXCEPT ![v] = n] /\ UNCHANGED <<bookkeeping, pointer, os, status>>
  <2>1. containers' = containers /\ pointer' = pointer /\ status' = status
    BY <1>9 DEF bookkeeping
  <2>2. LayoutType' /\ Contiguous' /\ SizesRight' /\ OwnVariables' /\ EndsBefore'
    BY <1>9, <2>1 DEF LayoutIInv, LayoutType, Contiguous, SizesRight, OwnVariables, EndsBefore,
         Indices, Address, End
  <2>3. c.elements_num >= n
    BY <1>4, <1>9
  <2>4. containers[k].elements_num >= n
    BY <2>3, <1>2, ContextOf
  <2>5. CallerHasRoom'
    <3> SUFFICES ASSUME NEW i \in Indices
                 PROVE  containers[i].elements_num >= asked'[containers[i].reference]
      BY <2>1 DEF CallerHasRoom, Indices
    <3>1. containers[i].elements_num >= asked[containers[i].reference] /\ asked \in [PtrVars -> Nat]
      BY DEF LayoutIInv, LayoutType, CallerHasRoom, Indices
    <3>2. i # k => containers[i].reference # v
      BY <1>1 DEF LayoutIInv, OwnVariables
    <3>3. containers[i].reference \in PtrVars
      BY Entrywise
    <3> HIDE DEF k
    <3> QED BY <1>9, <2>4, <3>1, <3>2, <3>3
  <2> QED BY <2>2, <2>5 DEF LayoutIInv
<1> QED BY <1>7, <1>8, <1>9 DEF ContainerRealloc

LEMMA LayoutStep == LayoutIInv /\ [Next]_vars => LayoutIInv'
<1> SUFFICES ASSUME LayoutIInv, [Next]_vars PROVE LayoutIInv'
  OBVIOUS
<1>1. ASSUME NEW v \in PtrVars, NEW n \in AllocCounts, vcmalloc(v, n) PROVE LayoutIInv'
  <2>1. status = "running" /\ ~InUse(v) /\ ContainerAlloc(v, n)
    BY <1>1 DEF vcmalloc, Running
  <2>2. n \in Nat \ {0}
    BY HyperContainerAssumption
  <2> QED BY <2>1, <2>2, ContainerAllocOutcome, LayoutUnmoved, LayoutAppended
<1>2. ASSUME NEW v \in PtrVars, NEW n \in ReallocCounts, vcrealloc(v, n) PROVE LayoutIInv'
  <2>1. status = "running" /\ InUse(v) /\ ContainerRealloc(v, n)
    BY <1>2 DEF vcrealloc, Running
  <2>2. n \in Nat \ {0}
    BY HyperContainerAssumption
  <2> QED BY <2>1, <2>2, ContainerReallocOutcome
<1>3. ASSUME NEW v \in PtrVars, Store(v) PROVE LayoutIInv'
  <2>1. UNCHANGED <<containers, pointer, asked>> /\ (status' = "running" => status = "running")
    BY <1>3 DEF Store, Running, StoreThrough, Throw, bookkeeping, caller
  <2> QED BY <2>1, LayoutUnmoved
<1>4. ASSUME NEW j \in ExtendCounts, Extend(j) PROVE LayoutIInv'
  <2>1. UNCHANGED <<containers, pointer, asked>> /\ (status' = "running" => status = "running")
    BY <1>4 DEF Extend, Running, ExtendCcStorage, ExtendPfnsStorage, Throw, bookkeeping, caller
  <2> QED BY <2>1, LayoutUnmoved
<1>5. CASE vccfree
  <2>1. CASE UNCHANGED <<bookkeeping, caller>>
    <3>1. UNCHANGED <<containers, pointer, asked>> /\ status = "running"
      BY <1>5, <2>1 DEF vccfree, Running, bookkeeping, caller
    <3> QED BY <3>1, LayoutUnmoved
  <2>2. CASE containers' = <<>> /\ pointer' = pointer /\ asked' = [v \in PtrVars |-> 0]
    BY <2>2, LayoutGone
  <2> QED BY <1>5, <2>1, <2>2 DEF vccfree, HyperContainerFree
<1>6. CASE UNCHANGED vars
  BY <1>6, LayoutUnmoved DEF vars, bookkeeping, caller
<1> QED BY <1>1, <1>2, <1>3, <1>4, <1>5, <1>6 DEF Next, Ended

LEMMA LayoutIInvHolds == Spec => []LayoutIInv
BY LayoutInit, LayoutStep, PTL DEF Spec

-----------------------------------------------------------------------------
LEMMA LayoutIInvImplies ==
  ASSUME LayoutIInv
  PROVE  LayoutInv /\ AddressesAscend /\ CallerHasRoom
<1>1. LayoutInv
  <2>1. \A i \in Indices : Context(i).address = IF i = 1 THEN Base ELSE nextAddress(Context(i - 1))
    <3> SUFFICES ASSUME NEW i \in Indices
                 PROVE  Context(i).address = IF i = 1 THEN Base ELSE nextAddress(Context(i - 1))
      OBVIOUS
    <3>1. Context(i).address = Address(i) /\ nextAddress(Context(i - 1)) = End(i - 1)
      BY ContextOf
    <3> QED BY <3>1 DEF LayoutIInv, Contiguous
  <2> QED BY <2>1 DEF LayoutInv, LayoutIInv, SizesRight, OwnVariables, Indices
<1>2. AddressesAscend
  <2> SUFFICES ASSUME NEW i \in Indices, NEW j \in Indices, i < j
               PROVE  Context(i).address < Context(j).address
    BY DEF AddressesAscend, Indices
  <2>1. Context(i).address = Address(i) /\ Context(j).address = Address(j)
    BY ContextOf
  <2>2. /\ Address(i) \in Nat /\ End(i) \in Nat /\ Address(i) < End(i)
        /\ Address(j) \in Nat
    BY Entrywise
  <2>3. End(i) <= Address(j)
    BY DEF LayoutIInv, EndsBefore
  <2> QED BY <2>1, <2>2, <2>3
<1> QED BY <1>1, <1>2 DEF LayoutIInv

(* Every container starts at the byte where its predecessor ends, through  *)
(* whatever reallocations (vcmalloc.h:418-423, 462-467) and failures: the  *)
(* division that computes elements_num_ leaves no hole, and every          *)
(* reference_ behind the container moves with it.                          *)
THEOREM LayoutAlways == Spec => []LayoutInv
BY LayoutIInvHolds, LayoutIInvImplies, PTL

(* The array that operator[] searches by halving (vcmalloc.h:181) is       *)
(* always strictly ascending.                                              *)
THEOREM AddressesAlwaysAscend == Spec => []AddressesAscend
BY LayoutIInvHolds, LayoutIInvImplies, PTL

(* After vcmalloc and vcrealloc have returned (vcmalloc.h:329, 374) the    *)
(* container has at least the elements asked for, also when a reallocation *)
(* found it in enough pages already.                                       *)
THEOREM CallerAlwaysHasRoom == Spec => []CallerHasRoom
BY LayoutIInvHolds, LayoutIInvImplies, PTL

-----------------------------------------------------------------------------
(* The page frames.  First addresses and pages, then the sequences the two *)
(* directions of ContainerRealloc cut and splice, and the page table that  *)
(* unmapping and mapping anew leaves; at last the calls.                   *)
PageCeil(a) == (RoundUp(a) - Base) \div PageSize

(* A product tells which factor is smaller. *)
LEMMA Below ==
  ASSUME NEW d \in Nat \ {0}, NEW k \in Int, NEW l \in Int, d * k < d * l
  PROVE  k < l
  OBVIOUS

(* Multiplying keeps an order. *)
LEMMA Above ==
  ASSUME NEW d \in Nat \ {0}, NEW k \in Int, NEW l \in Int, k <= l
  PROVE  d * k <= d * l
  OBVIOUS

(* The numbers a hypercontainer is made with. *)
LEMMA Sizes == PageSize \in Nat \ {0} /\ Base \in Nat \ {0} /\ RegionPages \in Nat
  BY PageSizeAssumption, HyperContainerAssumption DEF PageSizeAssumption

(* vccalloc returns the address of a page. *)
LEMMA BaseMultiple == \E b \in Nat : Base = PageSize * b
<1>1. Base \in Nat \ {0} /\ Base % PageSize = 0 /\ PageSize \in Nat \ {0}
  BY Sizes, HyperContainerAssumption
<1> DEFINE b == Base \div PageSize
<1>2. b \in Int /\ Base = PageSize * b + (Base % PageSize)
  BY <1>1, DivMod
<1> HIDE DEF b
<1>3. PageSize * b \in Int
  BY <1>1, <1>2
<1>4. Base = PageSize * b
  BY <1>1, <1>2, <1>3
<1>5. PageSize * b >= PageSize * 0
  BY <1>1, <1>4
<1>6. b >= 0
  BY <1>1, <1>2, <1>5, Cancel
<1> QED BY <1>2, <1>4, <1>6

(* The page boundary at or after an address. *)
LEMMA PageBoundary ==
  ASSUME NEW a \in Int
  PROVE  /\ PageCeil(a) \in Int /\ RoundUp(a) \in Int
         /\ RoundUp(a) = Base + PageSize * PageCeil(a)
         /\ a <= RoundUp(a) /\ RoundUp(a) < a + PageSize
<1>1. /\ RoundUp(a) \in Int /\ a <= RoundUp(a) /\ RoundUp(a) < a + PageSize
      /\ \E k \in Int : RoundUp(a) = PageSize * k
  BY PageSizeAssumption, RoundUpProperties
<1>2. PICK k \in Int : RoundUp(a) = PageSize * k
  BY <1>1
<1>3. PICK b \in Nat : Base = PageSize * b
  BY BaseMultiple
<1>4. k \in Int /\ b \in Int
  BY <1>2, <1>3
<1>5. RoundUp(a) - Base = PageSize * (k - b)
  BY <1>2, <1>3, <1>4, Sizes
<1>6. (PageSize * (k - b)) \div PageSize = k - b
  BY <1>4, Sizes, DivExact
<1>7. PageCeil(a) = k - b
  BY <1>5, <1>6 DEF PageCeil
<1> QED BY <1>1, <1>4, <1>5, <1>7, Sizes

(* The page boundary at or behind an address, as the only multiple of the  *)
(* page size there.                                                        *)
LEMMA CeilUnique ==
  ASSUME NEW a \in Int, NEW k \in Int,
         a <= Base + PageSize * k, Base + PageSize * k < a + PageSize
  PROVE  PageCeil(a) = k
<1> DEFINE c == PageCeil(a)
<1>1. /\ c \in Int /\ a <= Base + PageSize * c /\ Base + PageSize * c < a + PageSize
      /\ PageSize \in Nat \ {0} /\ Base \in Nat
  BY PageBoundary, Sizes
<1> HIDE DEF c
<1>2. /\ PageSize * (c + 1) = PageSize * c + PageSize
      /\ PageSize * (k + 1) = PageSize * k + PageSize
      /\ PageSize * c \in Int /\ PageSize * k \in Int
  BY <1>1
<1>3. PageSize * c < PageSize * (k + 1) /\ PageSize * k < PageSize * (c + 1)
  BY <1>1, <1>2
<1>4. c < k + 1 /\ k < c + 1
  BY <1>1, <1>3, Below
<1> QED BY <1>1, <1>4 DEF c

(* An address is its page and its offset in the page. *)
LEMMA PageOf ==
  ASSUME NEW x \in Int
  PROVE  /\ PageAt(x) \in Int /\ (x - Base) % PageSize \in 0..PageSize - 1
         /\ x = Base + PageSize * PageAt(x) + ((x - Base) % PageSize)
<1>1. x - Base \in Int /\ PageSize \in Nat \ {0}
  BY Sizes
<1> DEFINE q == (x - Base) \div PageSize
           r == (x - Base) % PageSize
<1>2. q \in Int /\ r \in 0..PageSize - 1 /\ x - Base = PageSize * q + r
  BY <1>1, DivMod
<1>3. PageAt(x) = q
  BY DEF PageAt
<1> HIDE DEF q, r
<1>4. PageSize * q \in Int
  BY <1>1, <1>2
<1>5. x = Base + PageSize * q + r
  BY <1>1, <1>2, <1>4, Sizes
<1> QED BY <1>2, <1>3, <1>5 DEF r

(* An address has one page. *)
LEMMA PageUnique ==
  ASSUME NEW x \in Int, NEW k \in Int,
         Base + PageSize * k <= x, x < Base + PageSize * k + PageSize
  PROVE  PageAt(x) = k
<1> DEFINE q == PageAt(x)
           r == (x - Base) % PageSize
<1>1. q \in Int /\ r \in 0..PageSize - 1 /\ x = Base + PageSize * q + r
  BY PageOf
<1> HIDE DEF q, r
<1>2. /\ PageSize * (q + 1) = PageSize * q + PageSize
      /\ PageSize * (k + 1) = PageSize * k + PageSize
      /\ PageSize * q \in Int /\ PageSize * k \in Int
  BY <1>1, Sizes
<1>3. PageSize * q < PageSize * (k + 1) /\ PageSize * k < PageSize * (q + 1)
  BY <1>1, <1>2, Sizes
<1>4. q < k + 1 /\ k < q + 1
  BY <1>1, <1>3, Below, Sizes
<1> QED BY <1>1, <1>4 DEF q

-----------------------------------------------------------------------------
(* The page of a page boundary, and of the bytes before one. *)
LEMMA PageOfBoundary ==
  ASSUME NEW a \in Int
  PROVE  PageAt(RoundUp(a)) = PageCeil(a)
<1> DEFINE c == PageCeil(a)
           x == RoundUp(a)
<1>1. c \in Int /\ x \in Int /\ x = Base + PageSize * c
  BY PageBoundary
<1> HIDE DEF c, x
<1>2. PageSize * c \in Int
  BY <1>1, Sizes
<1>3. Base + PageSize * c <= x /\ x < Base + PageSize * c + PageSize
  BY <1>1, <1>2, Sizes
<1>4. PageAt(x) = c
  BY <1>1, <1>3, PageUnique
<1> QED BY <1>4 DEF c, x

(* An address before another is in a page before the boundary that follows *)
(* that one.                                                               *)
LEMMA PageBefore ==
  ASSUME NEW a \in Int, NEW x \in Int, Base <= x, x < a
  PROVE  0 <= PageAt(x) /\ PageAt(x) < PageCeil(a)
<1> DEFINE c == PageCeil(a)
           q == PageAt(x)
           r == (x - Base) % PageSize
<1>1. c \in Int /\ a <= Base + PageSize * c
  BY PageBoundary
<1>2. q \in Int /\ r \in 0..PageSize - 1 /\ x = Base + PageSize * q + r
  BY PageOf
<1> HIDE DEF c, q, r
<1>3. PageSize * c \in Int /\ PageSize * q \in Int /\ PageSize * (q + 1) = PageSize * q + PageSize
  BY <1>1, <1>2, Sizes
<1>4. PageSize * q < PageSize * c /\ PageSize * 0 < PageSize * (q + 1)
  BY <1>1, <1>2, <1>3, Sizes
<1>5. q < c /\ 0 < q + 1
  BY <1>1, <1>2, <1>4, Below, Sizes
<1> QED BY <1>2, <1>5 DEF c, q

(* The bytes between an end and the page boundary that follows it are in   *)
(* the page that ends there: the guest bytes of vcmalloc.h:95.             *)
LEMMA PageOfGuest ==
  ASSUME NEW a \in Int, NEW x \in Int, a <= x, x < RoundUp(a)
  PROVE  PageAt(x) = PageCeil(a) - 1
<1> DEFINE c == PageCeil(a)
<1>1. c \in Int /\ RoundUp(a) = Base + PageSize * c /\ RoundUp(a) < a + PageSize
  BY PageBoundary
<1> HIDE DEF c
<1>2. PageSize * (c - 1) = PageSize * c - PageSize /\ PageSize * c \in Int
  BY <1>1, Sizes
<1>3. Base + PageSize * (c - 1) <= x /\ x < Base + PageSize * (c - 1) + PageSize
  BY <1>1, <1>2, Sizes
<1>4. PageAt(x) = c - 1
  BY <1>1, <1>3, PageUnique
<1> QED BY <1>4 DEF c

(* By whole pages. *)
LEMMA PagesFurther ==
  ASSUME NEW x \in Int, NEW d \in Int
  PROVE  /\ PageAt(x + d * PageSize) = PageAt(x) + d
         /\ PageCeil(x + d * PageSize) = PageCeil(x) + d
<1> DEFINE c == PageCeil(x)
           q == PageAt(x)
           r == (x - Base) % PageSize
<1>1. c \in Int /\ x <= Base + PageSize * c /\ Base + PageSize * c < x + PageSize
  BY PageBoundary
<1>2. q \in Int /\ r \in 0..PageSize - 1 /\ x = Base + PageSize * q + r
  BY PageOf
<1> HIDE DEF c, q, r
<1>3. /\ PageSize * (c + d) = PageSize * c + d * PageSize
      /\ PageSize * (q + d) = PageSize * q + d * PageSize
      /\ PageSize * c \in Int /\ PageSize * q \in Int /\ d * PageSize \in Int
  BY <1>1, <1>2, Sizes
<1>4. PageCeil(x + d * PageSize) = c + d
  <2> DEFINE y == x + d * PageSize
  <2>1. y \in Int /\ y <= Base + PageSize * (c + d) /\ Base + PageSize * (c + d) < y + PageSize
    BY <1>1, <1>3, Sizes
  <2> HIDE DEF y
  <2>2. PageCeil(y) = c + d
    BY <2>1, <1>1, CeilUnique
  <2> QED BY <2>2 DEF y
<1>5. PageAt(x + d * PageSize) = q + d
  <2> DEFINE y == x + d * PageSize
  <2>1. y \in Int /\ Base + PageSize * (q + d) <= y /\ y < Base + PageSize * (q + d) + PageSize
    BY <1>2, <1>3, Sizes
  <2> HIDE DEF y
  <2>2. PageAt(y) = q + d
    BY <2>1, <1>2, PageUnique
  <2> QED BY <2>2 DEF y
<1> QED BY <1>4, <1>5 DEF c, q

(* A later address has no earlier boundary. *)
LEMMA CeilMonotone ==
  ASSUME NEW a \in Int, NEW b \in Int, a <= b
  PROVE  PageCeil(a) <= PageCeil(b)
<1> DEFINE c == PageCeil(a)
           e == PageCeil(b)
<1>1. c \in Int /\ a <= Base + PageSize * c /\ Base + PageSize * c < a + PageSize
  BY PageBoundary
<1>2. e \in Int /\ b <= Base + PageSize * e
  BY PageBoundary
<1> HIDE DEF c, e
<1>3. PageSize * (e + 1) = PageSize * e + PageSize /\ PageSize * c \in Int /\ PageSize * e \in Int
  BY <1>1, <1>2, Sizes
<1>4. PageSize * c < PageSize * (e + 1)
  BY <1>1, <1>2, <1>3, Sizes
<1>5. c < e + 1
  BY <1>1, <1>2, <1>4, Below, Sizes
<1> QED BY <1>1, <1>2, <1>5 DEF c, e

(* The first page is page 0. *)
LEMMA CeilOfBase == PageCeil(Base) = 0
<1>1. Base \in Int /\ PageSize * 0 = 0
  BY Sizes
<1> QED BY <1>1, Sizes, CeilUnique

(* Where bytes placed at a end: in the guest bytes of the page, or in new  *)
(* pages for those beyond them.                                            *)
LEMMA CeilAfter ==
  ASSUME NEW a \in Int, NEW bytes \in Nat
  PROVE  PageCeil(a + bytes) = PageCeil(a) + PagesFor(bytes - (RoundUp(a) - a))
<1> DEFINE c == PageCeil(a)
           g == RoundUp(a) - a
           k == PagesFor(bytes - g)
<1>1. c \in Int /\ g \in Int /\ a + g = Base + PageSize * c /\ 0 <= g /\ g < PageSize
  BY PageBoundary, Sizes
<1> HIDE DEF c, g
<1>2. PageSize * c \in Int
  BY <1>1, Sizes
<1>3. CASE bytes <= g
  <2>1. k = 0
    BY <1>1, <1>3 DEF PagesFor
  <2>2. a + bytes <= Base + PageSize * c /\ Base + PageSize * c < a + bytes + PageSize
    BY <1>1, <1>2, <1>3, Sizes
  <2>3. PageCeil(a + bytes) = c
    BY <1>1, <2>2, CeilUnique
  <2> QED BY <2>1, <2>3, <1>1 DEF c, g
<1>4. CASE bytes > g
  <2> DEFINE over == bytes - g
             y == over + PageSize - 1
             q == y \div PageSize
             r == y % PageSize
  <2>1. over \in Nat \ {0} /\ y \in Int
    BY <1>1, <1>4, Sizes
  <2>2. q \in Int /\ r \in 0..PageSize - 1 /\ y = PageSize * q + r
    BY <2>1, Sizes, DivMod
  <2>3. k = q
    BY <2>1 DEF PagesFor
  <2> HIDE DEF q, r, k
  <2>4. PageSize * q \in Int /\ PageSize * (c + q) = PageSize * c + PageSize * q
    BY <1>1, <2>2, Sizes
  <2>5. /\ a + bytes <= Base + PageSize * (c + q)
        /\ Base + PageSize * (c + q) < a + bytes + PageSize
    BY <1>1, <1>2, <2>1, <2>2, <2>4, Sizes
  <2>6. PageCeil(a + bytes) = c + q
    BY <1>1, <2>2, <2>5, CeilUnique
  <2> QED BY <2>6, <2>3 DEF c, g, k
<1> QED BY <1>1, <1>3, <1>4

-----------------------------------------------------------------------------
(* The pages of the containers: where container i's own pages begin, and   *)
(* the page after them.                                                    *)
FirstPage(i) == PageCeil(Address(i))
PastPage(i)  == PageCeil(End(i))

(* nbrOfPages of a container is the number of page boundaries it passes:   *)
(* its own pages begin where those of its predecessor end.                 *)
LEMMA PagesOfContainer ==
  ASSUME LayoutIInv, NEW i \in Indices
  PROVE  /\ Base <= Address(i) /\ Address(i) \in Nat /\ End(i) \in Nat /\ Address(i) < End(i)
         /\ FirstPage(i) \in Nat /\ PastPage(i) \in Nat \ {0} /\ FirstPage(i) <= PastPage(i)
         /\ nbrOfPages(Context(i)) = PastPage(i) - FirstPage(i)
         /\ FirstPage(i) = IF i = 1 THEN 0 ELSE PastPage(i - 1)
<1>1. PICK m \in Nat : m = Len(containers) /\ Indices = 1..m
  BY Entrywise DEF Indices
<1>2. \A j \in 1..m : Address(j) \in Nat /\ End(j) \in Nat /\ Address(j) < End(j)
  BY <1>1, Entrywise
<1>3. 1 \in 1..m /\ i \in 1..m
  BY <1>1
<1>4. Address(i) = (IF i = 1 THEN Base ELSE End(i - 1)) /\ Address(1) = Base
  BY <1>1, <1>3 DEF LayoutIInv, Contiguous
<1>5. Base <= Address(i)
  <2>1. i > 1 => End(1) <= Address(i)
    BY <1>1, <1>3 DEF LayoutIInv, EndsBefore
  <2> QED BY <2>1, <1>2, <1>3, <1>4, Sizes
<1>6. /\ FirstPage(i) \in Int /\ RoundUp(Address(i)) = Base + PageSize * FirstPage(i)
      /\ Address(i) <= RoundUp(Address(i))
      /\ PastPage(i) \in Int /\ RoundUp(End(i)) = Base + PageSize * PastPage(i)
      /\ End(i) <= RoundUp(End(i))
  BY <1>2, <1>3, PageBoundary DEF FirstPage, PastPage
<1>7. FirstPage(i) <= PastPage(i)
  BY <1>2, <1>3, CeilMonotone DEF FirstPage, PastPage
<1>8. FirstPage(i) >= 0 /\ PastPage(i) > 0
  <2>1. Base <= Base /\ Base < End(i)
    BY <1>2, <1>3, <1>5, Sizes
  <2>2. 0 <= PageAt(Base) /\ PageAt(Base) < PastPage(i)
    BY <2>1, <1>2, <1>3, Sizes, PageBefore DEF PastPage
  <2>3. PageAt(Base) \in Int
    BY Sizes, PageOf
  <2>4. PageCeil(Base) <= FirstPage(i)
    BY <1>2, <1>3, <1>5, Sizes, CeilMonotone DEF FirstPage
  <2> QED BY <2>2, <2>3, <2>4, CeilOfBase, <1>6
<1>9. nbrOfPages(Context(i)) = PastPage(i) - FirstPage(i)
  <2> DEFINE f == FirstPage(i)
             p == PastPage(i)
  <2>1. nbrOfPages(Context(i)) = (RoundUp(End(i)) - RoundUp(Address(i))) \div PageSize
    BY ContextOf DEF nbrOfPages, nextMappingAddress, mappingAddress
  <2>2. /\ f \in Int /\ p \in Int
        /\ nbrOfPages(Context(i)) = ((Base + PageSize * p) - (Base + PageSize * f)) \div PageSize
    BY <2>1, <1>6
  <2> HIDE DEF f, p
  <2>3. (Base + PageSize * p) - (Base + PageSize * f) = PageSize * (p - f)
    BY <2>2, Sizes
  <2>4. (PageSize * (p - f)) \div PageSize = p - f
    BY <2>2, Sizes, DivExact
  <2> QED BY <2>2, <2>3, <2>4 DEF f, p
<1>10. FirstPage(i) = IF i = 1 THEN 0 ELSE PastPage(i - 1)
  BY <1>4, CeilOfBase DEF FirstPage, PastPage
<1> QED BY <1>2, <1>3, <1>5, <1>6, <1>7, <1>8, <1>9, <1>10

(* The pages of the containers follow each other as the containers do. *)
LEMMA PagesOrdered ==
  ASSUME LayoutIInv, NEW i \in Indices, NEW j \in Indices, i <= j
  PROVE  PastPage(i) <= PastPage(j)
<1>1. /\ i \in Nat /\ j \in Nat /\ End(i) \in Nat /\ End(j) \in Nat
      /\ Address(j) \in Nat /\ Address(j) < End(j)
  BY PagesOfContainer DEF Indices
<1>2. i < j => End(i) <= Address(j)
  BY DEF LayoutIInv, EndsBefore
<1>3. i = j \/ i < j
  BY <1>1
<1>4. End(i) <= End(j)
  BY <1>1, <1>2, <1>3
<1> QED BY <1>1, <1>4, CeilMonotone DEF PastPage

(* getPFNsPosition adds up the pages of the containers before i: it is the *)
(* number of the page where container i's own pages begin.                 *)
LEMMA PositionOfFrames ==
  ASSUME LayoutIInv, NEW i \in Indices
  PROVE  getPFNsPosition(i) = FirstPage(i)
<1> DEFINE Adds(f) ==
             f = [k \in 1..i |-> IF k = 1 THEN 0 ELSE f[k - 1] + nbrOfPages(Context(k - 1))]
           sum == CHOOSE f : Adds(f)
<1>1. i \in Nat /\ 1..i \subseteq Indices
  BY DEF Indices
<1>2. ASSUME NEW k \in 1..i
      PROVE  /\ FirstPage(k) \in Nat
             /\ k = 1 => FirstPage(k) = 0
             /\ k # 1 => k - 1 \in 1..i /\ FirstPage(k) = FirstPage(k - 1) + nbrOfPages(Context(k - 1))
  <2>1. k \in Indices /\ k \in Nat /\ (k # 1 => k - 1 \in 1..i /\ k - 1 \in Indices)
    BY <1>1
  <2>2. FirstPage(k) \in Nat /\ FirstPage(k) = IF k = 1 THEN 0 ELSE PastPage(k - 1)
    BY <2>1, PagesOfContainer
  <2>3. k # 1 => /\ nbrOfPages(Context(k - 1)) = PastPage(k - 1) - FirstPage(k - 1)
                 /\ FirstPage(k - 1) \in Nat /\ PastPage(k - 1) \in Nat
    BY <2>1, PagesOfContainer
  <2> QED BY <2>1, <2>2, <2>3
<1>3. \E f : Adds(f)
  <2> DEFINE w == [k \in 1..i |-> FirstPage(k)]
  <2>1. \A k \in 1..i : w[k] = IF k = 1 THEN 0 ELSE w[k - 1] + nbrOfPages(Context(k - 1))
    BY <1>2
  <2>2. Adds(w)
    BY <2>1
  <2> HIDE DEF w
  <2> QED BY <2>2
<1>4. getPFNsPosition(i) = sum[i]
  BY DEF getPFNsPosition
<1>5. Adds(sum)
  BY <1>3
<1> HIDE DEF sum
<1>6. \A k \in 1..i : sum[k] = IF k = 1 THEN 0 ELSE sum[k - 1] + nbrOfPages(Context(k - 1))
  BY <1>5
<1> HIDE DEF Adds
<1> DEFINE Agree == {d \in Nat : d + 1 \in 1..i => sum[d + 1] = FirstPage(d + 1)}
<1>7. 0 \in Agree
  BY <1>2, <1>6
<1>8. ASSUME NEW d \in Nat, d \in Agree PROVE d + 1 \in Agree
  <2>1. SUFFICES ASSUME d + 1 + 1 \in 1..i PROVE sum[d + 1 + 1] = FirstPage(d + 1 + 1)
    OBVIOUS
  <2> DEFINE k == d + 1 + 1
  <2>2. k \in 1..i /\ k # 1 /\ k - 1 = d + 1 /\ d + 1 \in 1..i
    BY <2>1, <1>1
  <2>3. sum[d + 1] = FirstPage(d + 1)
    BY <1>8, <2>2
  <2> HIDE DEF k
  <2>4. sum[k] = sum[k - 1] + nbrOfPages(Context(k - 1))
    BY <1>6, <2>2
  <2>5. FirstPage(k) = FirstPage(k - 1) + nbrOfPages(Context(k - 1))
    BY <1>2, <2>2
  <2> QED BY <2>2, <2>3, <2>4, <2>5 DEF k
<1>9. i - 1 \in Agree
  <2>1. i - 1 \in Nat
    BY <1>1 DEF Indices
  <2> HIDE DEF Agree
  <2>2. Nat \subseteq Agree
    BY <1>7, <1>8, InductionBySet
  <2> QED BY <2>1, <2>2
<1>10. i - 1 + 1 = i /\ i \in 1..i
  BY <1>1 DEF Indices
<1> QED BY <1>4, <1>9, <1>10

-----------------------------------------------------------------------------
(* Sequences of frames, each of them in it once. *)
LEMMA Joined ==
  ASSUME NEW T, NEW s \in Seq(T), NEW u \in Seq(T)
  PROVE  /\ s \o u \in Seq(T) /\ Len(s \o u) = Len(s) + Len(u)
         /\ \A k \in 1..Len(s) + Len(u) :
              (s \o u)[k] = IF k <= Len(s) THEN s[k] ELSE u[k - Len(s)]
  OBVIOUS

(* What SubSeq returns. *)
LEMMA Piece ==
  ASSUME NEW T, NEW s \in Seq(T), NEW a \in Nat, NEW b \in Nat, a <= b, b <= Len(s)
  PROVE  /\ SubSeq(s, a + 1, b) \in Seq(T) /\ Len(SubSeq(s, a + 1, b)) = b - a
         /\ \A k \in 1..b - a : SubSeq(s, a + 1, b)[k] = s[a + k]
  OBVIOUS

(* Sequences that name something once, entry by entry. *)
LEMMA Once ==
  ASSUME NEW T, NEW s \in Seq(T)
  PROVE  /\ IsInjective(s) <=> \A j, k \in 1..Len(s) : s[j] = s[k] => j = k
         /\ \A x : x \in Range(s) <=> \E k \in 1..Len(s) : x = s[k]
         /\ Range(s) \subseteq T
<1>1. DOMAIN s = 1..Len(s) /\ \A k \in 1..Len(s) : s[k] \in T
  OBVIOUS
<1> QED BY <1>1 DEF IsInjective, Range

(* A sequence that names nothing twice names as many things as it is long. *)
LEMMA CountOnce ==
  ASSUME NEW T, NEW s \in Seq(T), IsInjective(s)
  PROVE  IsFiniteSet(Range(s)) /\ Cardinality(Range(s)) = Len(s)
<1>1. Len(s) \in Nat /\ s \in [1..Len(s) -> T] /\ DOMAIN s = 1..Len(s)
  OBVIOUS
<1>2. s \in [1..Len(s) -> Range(s)] /\ \A x \in Range(s) : \E k \in 1..Len(s) : s[k] = x
  BY <1>1 DEF Range
<1>3. s \in Bijection(1..Len(s), Range(s))
  BY <1>1, <1>2 DEF Bijection, Injection, Surjection
<1>4. ExistsBijection(1..Len(s), Range(s))
  BY <1>3 DEF ExistsBijection
<1>5. IsFiniteSet(1..Len(s)) /\ Cardinality(1..Len(s)) = Len(s)
  BY <1>1, FS_Interval
<1> QED BY <1>4, <1>5, FS_Bijection

(* The page frame array without its entries a + 1 to b, with others put in *)
(* after entry a, and from entry start + 1 on.                             *)
Taken(s, a, b)   == SubSeq(s, a + 1, b)
Without(s, a, b) == SubSeq(s, 1, a) \o SubSeq(s, b + 1, Len(s))
With(s, a, got)  == SubSeq(s, 1, a) \o got \o SubSeq(s, a + 1, Len(s))
After(s, start)  == SubSeq(s, start + 1, Len(s))

(* The frame array after its gap was closed, entry by entry                *)
(* (vcmalloc.h:409).                                                       *)
LEMMA WithoutShape ==
  ASSUME NEW T, NEW s \in Seq(T), NEW a \in Nat, NEW b \in Nat, a <= b, b <= Len(s)
  PROVE  /\ Without(s, a, b) \in Seq(T) /\ Len(Without(s, a, b)) = Len(s) - (b - a)
         /\ \A k \in 1..Len(Without(s, a, b)) :
              Without(s, a, b)[k] = IF k <= a THEN s[k] ELSE s[k + (b - a)]
<1>0. PICK kept : kept = Without(s, a, b)
  OBVIOUS
<1>1. PICK n \in Nat : n = Len(s)
  OBVIOUS
<1>2. PICK p : p = SubSeq(s, 1, a)
  OBVIOUS
<1>3. PICK q : q = SubSeq(s, b + 1, Len(s))
  OBVIOUS
<1>4. p \in Seq(T) /\ Len(p) = a /\ \A k \in 1..a : p[k] = s[k]
  <2>1. s \in Seq(T) /\ a \in Nat /\ a <= Len(s)
    BY <1>1
  <2> QED BY ONLY <2>1, <1>2
<1>5. q \in Seq(T) /\ Len(q) = n - b /\ \A k \in 1..n - b : q[k] = s[b + k]
  <2>1. s \in Seq(T) /\ b \in Nat /\ n \in Nat /\ b <= n /\ n <= Len(s)
    BY <1>1
  <2>2. q = SubSeq(s, b + 1, n)
    BY ONLY <1>1, <1>3
  <2> QED BY ONLY <2>1, <2>2, Piece
<1>6. kept = p \o q /\ a <= b /\ b <= n
  BY ONLY <1>0, a <= b, b <= Len(s), <1>1, <1>2, <1>3 DEF Without
<1>7. /\ kept \in Seq(T) /\ Len(kept) = Len(p) + Len(q)
      /\ \A k \in 1..Len(p) + Len(q) :
           kept[k] = IF k <= Len(p) THEN p[k] ELSE q[k - Len(p)]
  BY ONLY <1>4, <1>5, <1>6, Joined
<1>8. Len(kept) = n - (b - a) /\ Len(p) = a /\ Len(p) + Len(q) = n - (b - a)
  <2>1. Len(p) = a /\ Len(q) = n - b /\ Len(kept) = Len(p) + Len(q)
    BY ONLY <1>4, <1>5, <1>7
  <2> QED BY ONLY <2>1, <1>1, a \in Nat, b \in Nat
<1>9. ASSUME NEW k \in 1..n - (b - a) PROVE kept[k] = IF k <= a THEN s[k] ELSE s[k + (b - a)]
  <2>1. kept[k] = IF k <= a THEN p[k] ELSE q[k - a]
    BY ONLY <1>7, <1>8, k \in 1..n - (b - a)
  <2>2. CASE k <= a
    <3>1. k \in 1..a
      BY ONLY <2>2, <1>1, <1>6, a \in Nat, b \in Nat, k \in 1..n - (b - a)
    <3> QED BY ONLY <3>1, <2>1, <2>2, <1>4
  <2>3. CASE ~(k <= a)
    <3>1. k - a \in 1..n - b /\ b + (k - a) = k + (b - a)
      BY ONLY <2>3, <1>1, <1>6, a \in Nat, b \in Nat, k \in 1..n - (b - a)
    <3>2. q[k - a] = s[k + (b - a)]
      BY ONLY <3>1, <1>5
    <3> QED BY ONLY <3>2, <2>1, <2>3
  <2> QED BY <2>2, <2>3
<1> QED BY ONLY <1>0, <1>1, <1>7, <1>8, <1>9

(* What is left keeps its order and loses exactly what was taken. *)
LEMMA WithoutTaken ==
  ASSUME NEW T, NEW s \in Seq(T), IsInjective(s),
         NEW a \in Nat, NEW b \in Nat, a <= b, b <= Len(s)
  PROVE  /\ Without(s, a, b) \in Seq(T) /\ Len(Without(s, a, b)) = Len(s) - (b - a)
         /\ IsInjective(Without(s, a, b))
         /\ Range(Without(s, a, b)) = Range(s) \ Range(Taken(s, a, b))
         /\ Range(Taken(s, a, b)) \subseteq Range(s)
         /\ \A k \in 1..a : /\ Without(s, a, b)[k] = s[k]
                            /\ s[k] \notin Range(Taken(s, a, b))
<1>1. PICK n \in Nat : n = Len(s)
  OBVIOUS
<1>2. PICK kept : kept = Without(s, a, b)
  OBVIOUS
<1>3. PICK r : r = Taken(s, a, b)
  OBVIOUS
<1>4. r \in Seq(T) /\ Len(r) = b - a /\ \A k \in 1..b - a : r[k] = s[a + k]
  BY <1>3, Piece DEF Taken
<1>5. PICK spare : spare = Range(r)
  OBVIOUS
<1> DEFINE d == b - a
<1>6. /\ kept \in Seq(T) /\ Len(kept) = n - d
      /\ \A k \in 1..Len(kept) : kept[k] = IF k <= a THEN s[k] ELSE s[k + (b - a)]
  BY <1>1, <1>2, WithoutShape
<1>7. \A k \in 1..n - d : kept[k] = IF k <= a THEN s[k] ELSE s[k + d]
  BY <1>6
<1>8. \A x : x \in spare <=> \E k \in a + 1..b : x = s[k]
  <2>1. \A x : x \in spare <=> \E k \in 1..d : x = r[k]
    BY <1>4, <1>5, Once
  <2>2. ASSUME NEW x, NEW k \in 1..d, x = r[k] PROVE \E j \in a + 1..b : x = s[j]
    <3>1. a + k \in a + 1..b /\ x = s[a + k]
      BY <2>2, <1>4
    <3> QED BY <3>1
  <2>3. ASSUME NEW x, NEW j \in a + 1..b, x = s[j] PROVE \E k \in 1..d : x = r[k]
    <3>1. j - a \in 1..d /\ a + (j - a) = j
      OBVIOUS
    <3>2. x = r[j - a]
      BY <3>1, <2>3, <1>4
    <3> QED BY <3>1, <3>2
  <2> QED BY ONLY <2>1, <2>2, <2>3, Zenon
<1>9. IsInjective(kept) /\ Range(kept) = Range(s) \ spare
  <2>1. \A j, k \in 1..n : s[j] = s[k] => j = k
    BY <1>1, Once
  <2> DEFINE at(k) == IF k <= a THEN k ELSE k + d
  <2>2. \A k \in 1..n - d : at(k) \in 1..n /\ at(k) \notin a + 1..b /\ kept[k] = s[at(k)]
    BY <1>1, <1>7
  <2>3. \A j, k \in 1..n - d : at(j) = at(k) => j = k
    BY <1>1
  <2>4. \A j \in 1..n : j \notin a + 1..b => \E k \in 1..n - d : at(k) = j
    <3> SUFFICES ASSUME NEW j \in 1..n, j \notin a + 1..b PROVE \E k \in 1..n - d : at(k) = j
      OBVIOUS
    <3>1. CASE j <= a
      <4>1. j \in 1..n - d /\ at(j) = j
        BY <3>1, <1>1
      <4> QED BY <4>1
    <3>2. CASE j > b
      <4>1. j - d \in 1..n - d /\ at(j - d) = j
        BY <3>2, <1>1
      <4> QED BY <4>1
    <3> QED BY <3>1, <3>2
  <2> HIDE DEF at
  <2>5. IsInjective(kept)
    <3>1. \A j, k \in 1..n - d : kept[j] = kept[k] => j = k
      BY <2>1, <2>2, <2>3
    <3> QED BY <3>1, <1>6, Once
  <2>6. \A x : x \in Range(kept) <=> x \in Range(s) /\ x \notin spare
    <3>1. \A x : x \in Range(kept) <=> \E k \in 1..n - d : x = kept[k]
      BY <1>6, Once
    <3>2. \A x : x \in Range(s) <=> \E k \in 1..n : x = s[k]
      BY <1>1, Once
    <3>3. \A k \in a + 1..b : k \in 1..n
      BY <1>1
    <3>4. ASSUME NEW x, NEW k \in 1..n - d, x = kept[k] PROVE x \in Range(s) /\ x \notin spare
      <4>1. x = s[at(k)] /\ at(k) \in 1..n /\ at(k) \notin a + 1..b
        BY <3>4, <2>2
      <4>2. x \in Range(s)
        BY <4>1, <3>2
      <4>3. \A j \in a + 1..b : j = at(k) => FALSE
        BY <4>1
      <4>4. \A j \in a + 1..b : x # s[j]
        BY <4>1, <4>3, <3>3, <2>1
      <4> QED BY <4>2, <4>4, <1>8
    <3>5. ASSUME NEW x, NEW j \in 1..n, x = s[j], x \notin spare PROVE x \in Range(kept)
      <4>1. j \notin a + 1..b
        BY <3>5, <1>8
      <4>2. PICK k \in 1..n - d : at(k) = j
        BY <4>1, <2>4
      <4> QED BY <4>2, <3>1, <3>5, <2>2
    <3> QED BY <3>1, <3>2, <3>4, <3>5
  <2> QED BY <2>5, <2>6
<1>10. spare \subseteq Range(s)
  <2>1. \A k \in a + 1..b : k \in 1..n
    BY <1>1
  <2>2. \A k \in 1..n : s[k] \in Range(s)
    BY <1>1, Once
  <2> QED BY <2>1, <2>2, <1>8
<1>11. ASSUME NEW k \in 1..a PROVE kept[k] = s[k] /\ s[k] \notin spare
  <2>1. k \in 1..n - d /\ k <= a /\ k \in 1..n
    BY <1>1
  <2>2. \A j \in a + 1..b : j \in 1..n /\ j # k
    BY <1>1
  <2>3. \A i, j \in 1..n : s[i] = s[j] => i = j
    BY <1>1, Once
  <2> QED BY <2>1, <2>2, <2>3, <1>7, <1>8
<1> QED BY <1>1, <1>2, <1>3, <1>5, <1>6, <1>9, <1>10, <1>11

(* The frame array with new frames in its gap, entry by entry              *)
(* (vcmalloc.h:440).                                                       *)
LEMMA WithShape ==
  ASSUME NEW T, NEW s \in Seq(T), NEW got \in Seq(T), NEW a \in Nat, a <= Len(s)
  PROVE  /\ With(s, a, got) \in Seq(T) /\ Len(With(s, a, got)) = Len(s) + Len(got)
         /\ \A k \in 1..Len(With(s, a, got)) :
              With(s, a, got)[k] = IF k <= a THEN s[k]
                                   ELSE IF k <= a + Len(got) THEN got[k - a]
                                   ELSE s[k - Len(got)]
<1>0. PICK all : all = With(s, a, got)
  OBVIOUS
<1>1. PICK n \in Nat : n = Len(s)
  OBVIOUS
<1>2. PICK g \in Nat : g = Len(got)
  OBVIOUS
<1>3. PICK p : p = SubSeq(s, 1, a)
  OBVIOUS
<1>4. PICK q : q = SubSeq(s, a + 1, Len(s))
  OBVIOUS
<1>5. PICK h : h = p \o got
  OBVIOUS
<1>6. p \in Seq(T) /\ Len(p) = a /\ \A k \in 1..a : p[k] = s[k]
  <2>1. s \in Seq(T) /\ a \in Nat /\ a <= Len(s)
    BY <1>1
  <2> QED BY ONLY <2>1, <1>3
<1>7. q \in Seq(T) /\ Len(q) = n - a /\ \A k \in 1..n - a : q[k] = s[a + k]
  <2>1. s \in Seq(T) /\ a \in Nat /\ n \in Nat /\ a <= n /\ n <= Len(s)
    BY <1>1
  <2>2. q = SubSeq(s, a + 1, n)
    BY ONLY <1>1, <1>4
  <2> QED BY ONLY <2>1, <2>2, Piece
<1>8. all = h \o q /\ a <= n
  BY ONLY <1>0, a <= Len(s), <1>1, <1>3, <1>4, <1>5 DEF With
<1>9. /\ h \in Seq(T) /\ Len(h) = Len(p) + Len(got)
      /\ \A k \in 1..Len(p) + Len(got) : h[k] = IF k <= Len(p) THEN p[k] ELSE got[k - Len(p)]
  BY ONLY <1>5, <1>6, got \in Seq(T), Joined
<1>10. /\ all \in Seq(T) /\ Len(all) = Len(h) + Len(q)
       /\ \A k \in 1..Len(h) + Len(q) : all[k] = IF k <= Len(h) THEN h[k] ELSE q[k - Len(h)]
  <2>1. h \in Seq(T) /\ q \in Seq(T) /\ all = h \o q
    BY ONLY <1>7, <1>8, <1>9
  <2> QED BY ONLY <2>1, Joined
<1>11. /\ Len(p) = a /\ Len(p) + Len(got) = a + g
       /\ Len(h) = a + g /\ Len(all) = n + g /\ Len(h) + Len(q) = n + g
  <2>1. Len(p) = a /\ Len(q) = n - a /\ Len(h) = Len(p) + Len(got) /\ Len(all) = Len(h) + Len(q)
    BY ONLY <1>6, <1>7, <1>9, <1>10
  <2> QED BY ONLY <2>1, <1>1, <1>2, a \in Nat
<1>12. ASSUME NEW k \in 1..n + g
       PROVE  all[k] = IF k <= a THEN s[k] ELSE IF k <= a + g THEN got[k - a] ELSE s[k - g]
  <2>1. all[k] = IF k <= a + g THEN h[k] ELSE q[k - (a + g)]
    BY ONLY <1>10, <1>11, k \in 1..n + g
  <2>2. CASE k <= a
    <3>1. k \in 1..a /\ k <= a + g /\ k \in 1..a + g
      BY ONLY <2>2, <1>1, <1>2, a \in Nat, k \in 1..n + g
    <3>2. h[k] = p[k]
      BY ONLY <3>1, <2>2, <1>9, <1>11
    <3> QED BY ONLY <3>1, <3>2, <2>1, <2>2, <1>6
  <2>3. CASE ~(k <= a) /\ k <= a + g
    <3>1. k \in 1..a + g
      BY ONLY <2>3, <1>1, <1>2, a \in Nat, k \in 1..n + g
    <3>2. h[k] = got[k - a]
      BY ONLY <3>1, <2>3, <1>9, <1>11
    <3> QED BY ONLY <3>2, <2>1, <2>3
  <2>4. CASE ~(k <= a + g)
    <3>1. k - (a + g) \in 1..n - a /\ a + (k - (a + g)) = k - g /\ ~(k <= a)
      BY ONLY <2>4, <1>1, <1>2, a \in Nat, k \in 1..n + g
    <3>2. q[k - (a + g)] = s[k - g]
      BY ONLY <3>1, <1>7
    <3> QED BY ONLY <3>1, <3>2, <2>1, <2>4
  <2> QED BY <2>2, <2>3, <2>4
<1> QED BY ONLY <1>0, <1>1, <1>2, <1>10, <1>11, <1>12

(* Nothing is lost, and nothing is in the array twice. *)
LEMMA WithMore ==
  ASSUME NEW T, NEW s \in Seq(T), IsInjective(s), NEW got \in Seq(T), IsInjective(got),
         Range(s) \cap Range(got) = {}, NEW a \in Nat, a <= Len(s)
  PROVE  /\ With(s, a, got) \in Seq(T) /\ Len(With(s, a, got)) = Len(s) + Len(got)
         /\ IsInjective(With(s, a, got))
         /\ Range(With(s, a, got)) = Range(s) \cup Range(got)
         /\ \A k \in 1..a : With(s, a, got)[k] = s[k]
<1>0. PICK all : all = With(s, a, got)
  OBVIOUS
<1>shape. /\ all \in Seq(T) /\ Len(all) = Len(s) + Len(got)
          /\ \A k \in 1..Len(all) : all[k] = IF k <= a THEN s[k]
                                            ELSE IF k <= a + Len(got) THEN got[k - a]
                                            ELSE s[k - Len(got)]
  BY <1>0, WithShape
<1>1. PICK n \in Nat : n = Len(s)
  OBVIOUS
<1>2. PICK g \in Nat : g = Len(got)
  OBVIOUS
<1>3. PICK N \in Nat : N = Len(all)
  BY <1>shape
<1>4. N = n + g /\ a <= n
  BY <1>1, <1>2, <1>3, <1>shape
<1> DEFINE own == {k \in 1..N : k <= a \/ k > a + g}
           new == {k \in 1..N : k > a /\ k <= a + g}
           at  == [k \in 1..N |-> IF k <= a THEN k ELSE IF k <= a + g THEN k - a ELSE k - g]
<1>5. /\ \A k \in own : at[k] \in 1..n /\ all[k] = s[at[k]]
      /\ \A k \in new : at[k] \in 1..g /\ all[k] = got[at[k]]
  BY <1>1, <1>2, <1>3, <1>4, <1>shape
<1>6. /\ \A j, k \in own : at[j] = at[k] => j = k
      /\ \A j, k \in new : at[j] = at[k] => j = k
      /\ 1..N = own \cup new
  BY <1>1, <1>2, <1>4
<1>7. \A j \in 1..n : \E k \in own : at[k] = j
  <2> SUFFICES ASSUME NEW j \in 1..n PROVE \E k \in own : at[k] = j
    OBVIOUS
  <2>1. j <= a => j \in own /\ at[j] = j
    BY <1>1, <1>2, <1>4
  <2>2. j > a => j + g \in own /\ at[j + g] = j
    BY <1>1, <1>2, <1>4
  <2> HIDE DEF own, at
  <2>3. j <= a \/ j > a
    BY <1>1
  <2> QED BY <2>1, <2>2, <2>3
<1>8. \A j \in 1..g : \E k \in new : at[k] = j
  <2> SUFFICES ASSUME NEW j \in 1..g PROVE \E k \in new : at[k] = j
    OBVIOUS
  <2>1. a + j \in new /\ at[a + j] = j
    BY <1>1, <1>2, <1>4
  <2> HIDE DEF new, at
  <2> QED BY <2>1
<1> HIDE DEF own, new, at
<1>9. \A x : x \in Range(s) <=> \E k \in 1..n : x = s[k]
  BY <1>1, Once
<1>10. \A x : x \in Range(got) <=> \E k \in 1..g : x = got[k]
  BY <1>2, Once
<1>11. \A x : x \in Range(all) <=> \E k \in 1..N : x = all[k]
  <2>1. all \in Seq(T)
    BY <1>shape
  <2> QED BY ONLY <2>1, <1>3, Once
<1>12. Range(all) = Range(s) \cup Range(got)
  <2>1. ASSUME NEW x \in Range(all) PROVE x \in Range(s) \cup Range(got)
    <3>1. PICK k \in 1..N : x = all[k]
      BY <1>11
    <3>2. k \in own \/ k \in new
      BY <1>6
    <3>3. k \in own => x \in Range(s)
      BY ONLY <3>1, <1>5, <1>9
    <3>4. k \in new => x \in Range(got)
      BY ONLY <3>1, <1>5, <1>10
    <3> QED BY <3>2, <3>3, <3>4
  <2>2. ASSUME NEW x \in Range(s) PROVE x \in Range(all)
    <3>1. PICK j \in 1..n : x = s[j]
      BY <1>9
    <3>2. PICK k \in own : at[k] = j
      BY <1>7
    <3>3. k \in 1..N /\ x = all[k]
      BY ONLY <3>1, <3>2, <1>5, <1>6
    <3> QED BY ONLY <3>3, <1>11
  <2>3. ASSUME NEW x \in Range(got) PROVE x \in Range(all)
    <3>1. PICK j \in 1..g : x = got[j]
      BY <1>10
    <3>2. PICK k \in new : at[k] = j
      BY <1>8
    <3>3. k \in 1..N /\ x = all[k]
      BY ONLY <3>1, <3>2, <1>5, <1>6
    <3> QED BY ONLY <3>3, <1>11
  <2> QED BY <2>1, <2>2, <2>3
<1>13. IsInjective(all)
  <2>1. \A j, k \in 1..n : s[j] = s[k] => j = k
    BY <1>1, Once
  <2>2. \A j, k \in 1..g : got[j] = got[k] => j = k
    BY <1>2, Once
  <2>3. ASSUME NEW j \in 1..N, NEW k \in 1..N, all[j] = all[k] PROVE j = k
    <3>1. CASE j \in own /\ k \in own
      <4>0. all[j] = s[at[j]] /\ all[k] = s[at[k]] /\ at[j] \in 1..n /\ at[k] \in 1..n
        BY ONLY <3>1, <1>5
      <4>1. at[j] = at[k]
        BY ONLY <4>0, <2>1, <2>3
      <4> QED BY ONLY <3>1, <4>1, <1>6
    <3>2. CASE j \in new /\ k \in new
      <4>0. all[j] = got[at[j]] /\ all[k] = got[at[k]] /\ at[j] \in 1..g /\ at[k] \in 1..g
        BY ONLY <3>2, <1>5
      <4>1. at[j] = at[k]
        BY ONLY <4>0, <2>2, <2>3
      <4> QED BY ONLY <3>2, <4>1, <1>6
    <3>3. \A i \in own : all[i] \in Range(s)
      BY ONLY <1>5, <1>9
    <3>4. \A i \in new : all[i] \in Range(got)
      BY ONLY <1>5, <1>10
    <3>5. (j \in own \/ j \in new) /\ (k \in own \/ k \in new)
      BY <1>6
    <3> QED BY <3>1, <3>2, <3>3, <3>4, <3>5, <2>3
  <2> QED BY ONLY <2>3, <1>3, <1>shape, Once
<1>14. \A k \in 1..a : all[k] = s[k]
  <2>1. \A k \in 1..a : k \in 1..Len(all) /\ k <= a
    BY <1>1, <1>2, <1>3, <1>4
  <2> QED BY <2>1, <1>shape
<1> QED BY <1>0, <1>12, <1>13, <1>14, <1>shape

-----------------------------------------------------------------------------
(* AssertPfnsStorage and AssertContainerContextStorage make enough room:   *)
(* doubling, and adding whole pages of contexts, reaches every need.       *)
LEMMA PfnsRoom ==
  ASSUME pfns_max \in Nat \ {0}, NEW need \in Nat
  PROVE  PfnsMaxFor(need) \in Nat \ {0} /\ PfnsMaxFor(need) >= need
<1> DEFINE S == {m \in {pfns_max * 2 ^ j : j \in 0..need} : m >= need}
<1>1. \A j \in 0..need : pfns_max * 2 ^ j \in Nat \ {0}
  <2> SUFFICES ASSUME NEW j \in 0..need PROVE pfns_max * 2 ^ j \in Nat \ {0}
    OBVIOUS
  <2> DEFINE p == 2 ^ j
  <2>1. p \in Nat /\ p >= 1
    BY PowerOfTwo
  <2> HIDE DEF p
  <2>2. pfns_max * p \in Nat \ {0}
    BY <2>1
  <2> QED BY <2>2 DEF p
<1>2. S \subseteq Nat \ {0}
  BY <1>1
<1>3. S # {}
  <2> DEFINE p == 2 ^ need
  <2>1. p \in Nat /\ p >= need
    BY PowerOfTwo
  <2>2. need \in 0..need
    OBVIOUS
  <2> HIDE DEF p
  <2>3. pfns_max * p >= 1 * p
    BY <2>1
  <2>4. pfns_max * p \in Nat /\ pfns_max * p >= need
    BY <2>1, <2>3
  <2>5. pfns_max * 2 ^ need >= need
    BY <2>4 DEF p
  <2> QED BY <2>2, <2>5
<1>4. PfnsMaxFor(need) = Min(S)
  BY DEF PfnsMaxFor
<1>5. \A m \in S : m >= need
  OBVIOUS
<1> HIDE DEF S
<1> QED BY <1>2, <1>3, <1>4, <1>5, MinProperties

(* AssertContainerContextStorage makes the room it is asked for. *)
LEMMA ContextsRoom ==
  ASSUME containers_max \in Nat, NEW need \in Nat
  PROVE  ContainersMaxFor(need) \in Nat /\ ContainersMaxFor(need) >= need
<1> DEFINE S == {m \in {containers_max + j * ContextsPerPage : j \in 0..need} : m >= need}
<1>1. ContextsPerPage \in Nat \ {0}
  BY HyperContainerAssumption
<1>2. \A j \in 0..need : containers_max + j * ContextsPerPage \in Nat
  BY <1>1
<1>3. S \subseteq Nat
  BY <1>2
<1>4. S # {}
  <2>1. need * ContextsPerPage >= need * 1
    BY <1>1
  <2>2. need * ContextsPerPage \in Nat
    BY <1>1
  <2>3. containers_max + need * ContextsPerPage >= need /\ need \in 0..need
    BY <2>1, <2>2
  <2> QED BY <2>3
<1>5. ContainersMaxFor(need) = Min(S)
  BY DEF ContainersMaxFor
<1>6. \A m \in S : m >= need
  OBVIOUS
<1> HIDE DEF S
<1> QED BY <1>3, <1>4, <1>5, <1>6, MinProperties

-----------------------------------------------------------------------------
(* The page table when the frames of s back the pages from the first on.   *)
Backed(s) == [p \in Pages |-> IF p + 1 \in 1..Len(s) THEN s[p + 1] ELSE NoFrame]

(* Backed is the page table that a single MapUserPhysicalPages of all the  *)
(* frames would make.                                                      *)
LEMMA BackedAsMapped ==
  ASSUME NEW s \in Seq(Frames)
  PROVE  MapPages([p \in Pages |-> NoFrame], Base, s) = Backed(s)
<1>1. PageAt(Base) = 0 /\ DOMAIN s = 1..Len(s)
  <2>1. Base - Base = 0 /\ 0 \div PageSize = 0
    BY Sizes
  <2> QED BY <2>1 DEF PageAt
<1>2. \A p \in Pages : p \in Int
  BY DEF Pages
<1>3. \A p \in Pages : p - PageAt(Base) + 1 = p + 1
  BY <1>1, <1>2
<1> QED BY <1>1, <1>3 DEF MapPages, Backed

(* A page table that has only the pages before start, as all wants them,   *)
(* and the frames that are left to map.                                    *)
BackedUpTo(t, all, start) ==
  /\ DOMAIN t = Pages
  /\ \A p \in Pages : t[p] = IF p < start THEN all[p + 1] ELSE NoFrame

LeftToMap(fs, all, start) ==
  /\ fs \in Seq(Frames) /\ Len(fs) = Len(all) - start
  /\ \A k \in 1..Len(fs) : fs[k] = all[start + k]

(* Mapping the frames of all from entry start on, to the page of that      *)
(* number, when those before are mapped already: only a region that is too *)
(* small can make it fail.                                                 *)
LEMMA MapRest ==
  ASSUME NEW all \in Seq(Frames), IsInjective(all), NoFrame \notin Frames,
         NEW start \in Nat, start <= Len(all),
         NEW at, PageAt(at) = start,
         NEW fs, LeftToMap(fs, all, start), NEW t, BackedUpTo(t, all, start)
  PROVE  /\ CanMap(t, Range(all), at, fs) <=> Len(all) <= RegionPages
         /\ MapPages(t, at, fs) = Backed(all)
<1>0. PICK held : held = Range(all)
  OBVIOUS
<1>left. /\ fs \in Seq(Frames) /\ Len(fs) = Len(all) - start
         /\ \A k \in 1..Len(fs) : fs[k] = all[start + k]
  BY DEF LeftToMap
<1>backed. /\ DOMAIN t = Pages
           /\ \A p \in Pages : t[p] = IF p < start THEN all[p + 1] ELSE NoFrame
  BY DEF BackedUpTo
<1>1. PICK n \in Nat : n = Len(all)
  OBVIOUS
<1>2. /\ Len(fs) = n - start /\ DOMAIN fs = 1..n - start
      /\ \A k \in 1..n - start : fs[k] = all[start + k]
  BY <1>1, <1>left
<1>3. \A j, k \in 1..n : all[j] = all[k] => j = k
  BY <1>1, Once
<1>4. \A k \in 1..n : all[k] \in Frames /\ all[k] \in held
  BY <1>0, <1>1, Once
<1>5. IsInjective(fs)
  <2> SUFFICES ASSUME NEW j \in 1..n - start, NEW k \in 1..n - start, fs[j] = fs[k] PROVE j = k
    BY <1>2 DEF IsInjective
  <2>1. start + j \in 1..n /\ start + k \in 1..n
    BY <1>1
  <2>2. start + j = start + k
    BY <2>1, <1>2, <1>3
  <2> QED BY <2>2
<1>6. ASSUME NEW x \in Range(fs) PROVE x \in held /\ x \notin Range(t)
  <2>1. PICK k \in 1..n - start : x = fs[k]
    BY <1>2 DEF Range
  <2>2. start + k \in 1..n /\ x = all[start + k]
    BY <2>1, <1>1, <1>2
  <2>3. ASSUME NEW p \in Pages, x = t[p] PROVE FALSE
    <3>1. p \in Nat
      BY DEF Pages
    <3>2. CASE p < start
      <4>1. p + 1 \in 1..n /\ p + 1 # start + k
        BY <3>1, <3>2, <1>1, <2>1
      <4>2. t[p] = all[p + 1]
        BY <3>2, <1>backed
      <4> QED BY <4>1, <4>2, <2>2, <2>3, <1>3
    <3>3. CASE ~(p < start)
      BY <3>3, <2>2, <2>3, <1>4, <1>backed
    <3> QED BY <3>2, <3>3
  <2> QED BY <2>2, <2>3, <1>4, <1>backed DEF Range
<1>7. CanMap(t, held, at, fs) <=> Len(all) <= RegionPages
  <2>1. PageAt(at) + Len(fs) = n
    BY <1>1, <1>2
  <2>2. Range(fs) \subseteq held /\ Range(fs) \cap Range(t) = {}
    BY <1>6
  <2> QED BY <2>1, <2>2, <1>1, <1>5 DEF CanMap
<1>8. MapPages(t, at, fs) = Backed(all)
  <2>1. ASSUME NEW p \in Pages
        PROVE (IF p - PageAt(at) + 1 \in DOMAIN fs THEN fs[p - PageAt(at) + 1] ELSE t[p])
              = (IF p + 1 \in 1..Len(all) THEN all[p + 1] ELSE NoFrame)
    <3>1. p \in Nat /\ p - PageAt(at) + 1 = p - start + 1
      BY DEF Pages
    <3>2. CASE p < start
      <4>1. p - start + 1 \notin 1..n - start /\ p + 1 \in 1..n
        BY <3>1, <3>2, <1>1
      <4> QED BY <4>1, <3>1, <3>2, <1>1, <1>2, <1>backed
    <3>3. CASE p >= start
      <4>1. p - start + 1 \in 1..n - start <=> p + 1 \in 1..n
        BY <3>1, <3>3, <1>1
      <4>2. start + (p - start + 1) = p + 1
        BY <3>1
      <4>3. p - start + 1 \in 1..n - start => fs[p - start + 1] = all[p + 1]
        BY <4>2, <1>2
      <4>4. t[p] = NoFrame
        BY <3>1, <3>3, <1>backed
      <4> QED BY <4>1, <4>3, <4>4, <3>1, <1>1, <1>2
    <3> QED BY <3>1, <3>2, <3>3
  <2> QED BY <2>1 DEF MapPages, Backed
<1> QED BY <1>0, <1>7, <1>8

(* The pages that hold the bytes of an array, or the guest bytes behind a  *)
(* container, are backed.                                                  *)
LEMMA BackedAccessible ==
  ASSUME NEW s \in Seq(Frames), NoFrame \notin Frames, Len(s) <= RegionPages,
         NEW a \in Int, NEW n \in Int,
         \A k \in 0..n - 1 : PageAt(a + k) \in 0..Len(s) - 1
  PROVE  Accessible(Backed(s), a, n)
<1>1. PICK m \in Nat : m = Len(s)
  OBVIOUS
<1>2. SUFFICES ASSUME NEW k \in 0..n - 1
      PROVE PageAt(a + k) \in Pages /\ Backed(s)[PageAt(a + k)] # NoFrame
  BY DEF Accessible
<1>3. PICK p : p = PageAt(a + k)
  OBVIOUS
<1>4. p \in 0..m - 1
  BY <1>1, <1>3
<1>5. p \in Pages /\ p + 1 \in 1..m
  BY <1>1, <1>4, Sizes DEF Pages
<1>6. Backed(s)[p] = s[p + 1] /\ s[p + 1] \in Frames
  BY <1>1, <1>5 DEF Backed
<1> QED BY <1>3, <1>5, <1>6

-----------------------------------------------------------------------------
(* The pages of all containers together, before and after a call. *)
TotalPages == IF containers = <<>> THEN 0 ELSE PastPage(Len(containers))

(* A sequence that is not empty has a last entry. *)
LEMMA NotEmpty ==
  ASSUME NEW T, NEW s \in Seq(T)
  PROVE  /\ Len(s) \in Nat
         /\ s = <<>> <=> Len(s) = 0
         /\ s # <<>> => Len(s) \in 1..Len(s)
  OBVIOUS

(* The last container, and the pages of all of them. *)
LEMMA LastContainer ==
  ASSUME LayoutIInv
  PROVE  /\ Len(containers) \in Nat /\ (containers = <<>> <=> Len(containers) = 0)
         /\ containers # <<>> => Len(containers) \in Indices
         /\ TotalPages \in Nat
         /\ \A i \in Indices : containers # <<>> /\ PastPage(i) <= TotalPages
<1>1. containers \in Seq(ContextType)
  BY DEF LayoutIInv, LayoutType
<1>2. PICK m \in Nat : m = Len(containers)
  BY <1>1, NotEmpty
<1>3. (containers = <<>> <=> m = 0) /\ (containers # <<>> => m \in Indices) /\ Indices = 1..m
  BY <1>1, <1>2, NotEmpty DEF Indices
<1>4. TotalPages = IF m = 0 THEN 0 ELSE PastPage(m)
  BY <1>2, <1>3 DEF TotalPages
<1>5. TotalPages \in Nat
  BY <1>3, <1>4, PagesOfContainer
<1>6. ASSUME NEW i \in Indices PROVE containers # <<>> /\ PastPage(i) <= TotalPages
  <2>1. i \in 1..m /\ m # 0 /\ i <= m
    BY <1>3
  <2>2. m \in Indices
    BY <2>1, <1>3
  <2>3. PastPage(i) <= PastPage(m)
    BY <2>1, <2>2, PagesOrdered
  <2> QED BY <2>1, <2>3, <1>3, <1>4
<1> QED BY <1>2, <1>3, <1>5, <1>6

(* Base is a page boundary. *)
LEMMA RoundUpBase == RoundUp(Base) = Base
BY HyperContainerAssumption DEF RoundUp

(* Where ContainerAlloc places a container, and the pages it takes. *)
LEMMA AppendedPages ==
  ASSUME LayoutIInv, LayoutIInv', NEW v \in PtrVars, ~InUse(v), NEW n \in Nat \ {0},
         NEW mapping,
         mapping = IF containers = <<>> THEN Base ELSE nextMappingAddress(Context(Len(containers))),
         NEW guest,
         guest = IF containers = <<>> THEN 0 ELSE guestBytes(Context(Len(containers))),
         containers' = Append(containers,
           [reference |-> v, type_size |-> TypeSize[v], elements_num |-> n]),
         pointer' = [pointer EXCEPT ![v] =
           IF containers = <<>> THEN Base ELSE nextAddress(Context(Len(containers)))]
  PROVE  /\ Len(containers') = Len(containers) + 1
         /\ PageAt(mapping) = TotalPages
         /\ TypeSize[v] * n - guest \in Int
         /\ TotalPages' = TotalPages + PagesFor(TypeSize[v] * n - guest)
<1>1. PICK m \in Nat : m = Len(containers)
  BY LastContainer
<1> DEFINE c == [reference |-> v, type_size |-> TypeSize[v], elements_num |-> n]
<1>2. PICK a : a = IF containers = <<>> THEN Base ELSE nextAddress(Context(Len(containers)))
  OBVIOUS
<1>3. /\ containers \in Seq(ContextType) /\ pointer \in [PtrVars -> Nat]
      /\ TypeSize[v] \in Nat \ {0} /\ Base \in Nat
  BY HyperContainerAssumption DEF LayoutIInv, LayoutType
<1>4. /\ containers = <<>> <=> m = 0
      /\ m # 0 => m \in Indices
  BY <1>1, LastContainer
<1>5. /\ Len(containers') = m + 1 /\ containers'[m + 1] = c
      /\ containers' # <<>>
  <2>1. c \in ContextType
    BY <1>3 DEF ContextType
  <2> HIDE DEF c
  <2>2. containers' = Append(containers, c)
    BY DEF c
  <2> QED BY <2>1, <2>2, <1>1, <1>3
<1>6. a = IF m = 0 THEN Base ELSE End(m)
  BY <1>1, <1>2, <1>4, ContextOf
<1>7. a \in Nat
  <2>1. m # 0 => End(m) \in Nat
    BY <1>4, Entrywise
  <2> QED BY <2>1, <1>3, <1>6
<1>8. /\ mapping = RoundUp(a) /\ guest = RoundUp(a) - a /\ PageCeil(a) = TotalPages
  <2>1. CASE m = 0
    <3>1. mapping = Base /\ guest = 0 /\ a = Base /\ TotalPages = 0
      BY <2>1, <1>4, <1>6 DEF TotalPages
    <3> QED BY <3>1, <1>3, RoundUpBase, CeilOfBase
  <2>2. CASE m # 0
    <3>1. /\ mapping = nextMappingAddress(Context(m)) /\ guest = guestBytes(Context(m))
          /\ nextAddress(Context(m)) = End(m) /\ a = End(m) /\ TotalPages = PastPage(m)
      BY <2>2, <1>1, <1>4, <1>6, ContextOf DEF TotalPages
    <3> QED BY <3>1 DEF nextMappingAddress, guestBytes, PastPage
  <2> QED BY <2>1, <2>2
<1>9. PageAt(mapping) = TotalPages
  BY <1>7, <1>8, PageOfBoundary
<1>10. End(m + 1)' = a + TypeSize[v] * n
  <2>1. c.reference = v /\ c.type_size = TypeSize[v] /\ c.elements_num = n
    OBVIOUS
  <2>2. pointer'[v] = a
    BY <1>2, <1>3
  <2> HIDE DEF c
  <2>3. End(m + 1)' = pointer'[containers'[m + 1].reference]
                        + containers'[m + 1].type_size * containers'[m + 1].elements_num
    BY DEF End, Address
  <2> QED BY <2>1, <2>2, <2>3, <1>5
<1>11. TotalPages' = PageCeil(a + TypeSize[v] * n)
  <2>1. TotalPages' = PageCeil(End(m + 1)')
    BY <1>5 DEF TotalPages, PastPage, PageCeil, RoundUp
  <2> QED BY <2>1, <1>10
<1>12. PICK b \in Nat : b = TypeSize[v] * n
  BY <1>3
<1>13. PageCeil(a + b) = PageCeil(a) + PagesFor(b - (RoundUp(a) - a))
  BY <1>7, CeilAfter
<1>14. RoundUp(a) \in Int
  BY <1>7, PageBoundary
<1>15. b - guest \in Int /\ TotalPages' = TotalPages + PagesFor(b - guest)
  BY <1>7, <1>8, <1>11, <1>12, <1>13, <1>14, SMTT(20)
<1> QED BY <1>1, <1>5, <1>9, <1>12, <1>15

(* A reallocation changes the pages of all containers by those of the one  *)
(* it is about.                                                            *)
LEMMA ResettledPages ==
  ASSUME LayoutIInv, ReallocCounts # {},
         NEW k \in Indices, NEW n \in Nat \ {0}, NEW pages \in Int,
         NEW by \in Int, by = (pages - nbrOfPages(Context(k))) * PageSize,
         ElementsIn(Context(k), pages) >= n,
         Resettle(k, pages, by)
  PROVE  /\ Len(containers') = Len(containers)
         /\ TotalPages' = TotalPages + (pages - nbrOfPages(Context(k)))
<1>1. PICK m \in Nat : m = Len(containers)
  BY LastContainer
<1>2. Indices = 1..m /\ m # 0 /\ m \in Indices /\ m >= k /\ containers # <<>>
  BY <1>1, LastContainer DEF Indices
<1>3. /\ containers' \in Seq(ContextType) /\ Len(containers') = Len(containers)
      /\ \A i \in Indices : End(i)' = IF i >= k THEN End(i) + by ELSE End(i)
  BY ResettleMoves
<1>4. End(m)' = End(m) + by /\ Len(containers') = m
  BY <1>1, <1>2, <1>3
<1>5. containers' # <<>>
  BY <1>2, <1>3, <1>4, NotEmpty
<1>6. TotalPages = PageCeil(End(m)) /\ TotalPages' = PageCeil(End(m)')
  BY <1>1, <1>2, <1>4, <1>5 DEF TotalPages, PastPage, PageCeil, RoundUp
<1>7. PICK d \in Int : d = pages - nbrOfPages(Context(k))
  <2>1. nbrOfPages(Context(k)) \in Int
    BY PagesOfContainer
  <2> QED BY <2>1
<1>8. End(m) \in Int
  BY <1>2, Entrywise
<1>9. PageCeil(End(m) + d * PageSize) = PageCeil(End(m)) + d
  BY <1>7, <1>8, PagesFurther
<1> QED BY <1>3, <1>4, <1>6, <1>7, <1>9

(* What a reallocation of container i finds: its first frame's position is *)
(* its first page, its guest bytes are at the end of its last page, and    *)
(* what it asks for is a page at least where no container shares one.      *)
LEMMA ReallocatedPages ==
  ASSUME LayoutIInv, NEW i \in Indices, NEW n \in Nat \ {0}
  PROVE  /\ getPFNsPosition(i) \in Nat /\ nbrOfPages(Context(i)) \in Nat
         /\ PageAt(mappingAddress(Context(i))) = getPFNsPosition(i)
         /\ getPFNsPosition(i) + nbrOfPages(Context(i)) <= TotalPages
         /\ getPFNsPosition(i) + nbrOfPages(Context(i)) >= 1
         /\ RequestedPages(Context(i), n) \in Nat
         /\ getPFNsPosition(i) + RequestedPages(Context(i), n) >= 1
         /\ nextAddress(Context(i)) \in Nat
         /\ guestBytes(Context(i)) \in 0..PageSize - 1
         /\ \A d \in Int, b \in 0..guestBytes(Context(i)) - 1 :
              PageAt(nextAddress(Context(i)) + d * PageSize + b) =
                getPFNsPosition(i) + nbrOfPages(Context(i)) + d - 1
<1>1. PICK c : c = Context(i)
  OBVIOUS
<1>2. PICK a \in Nat, e \in Nat : a = Address(i) /\ e = End(i) /\ Base <= a /\ a < e
  BY PagesOfContainer
<1>3. PICK f \in Nat, p \in Nat \ {0} : f = FirstPage(i) /\ p = PastPage(i) /\ f <= p
  BY PagesOfContainer
<1>4. /\ c.address = a /\ c.type_size \in Nat \ {0} /\ c.elements_num \in Nat \ {0}
      /\ nextAddress(c) = e /\ mappingAddress(c) = RoundUp(a) /\ nextMappingAddress(c) = RoundUp(e)
      /\ priorFreeBytes(c) = RoundUp(a) - a /\ guestBytes(c) = RoundUp(e) - e
  <2>1. /\ c.address = a /\ c.type_size = containers[i].type_size
        /\ c.elements_num = containers[i].elements_num /\ nextAddress(c) = e
    BY <1>1, <1>2, ContextOf
  <2>2. containers[i].type_size \in Nat \ {0} /\ containers[i].elements_num \in Nat \ {0}
    BY Entrywise
  <2> QED BY <2>1, <2>2 DEF mappingAddress, nextMappingAddress, priorFreeBytes, guestBytes
<1>5. getPFNsPosition(i) = f /\ nbrOfPages(c) = p - f
  BY <1>1, <1>3, PositionOfFrames, PagesOfContainer
<1>6. PageAt(RoundUp(a)) = f /\ f = PageCeil(a) /\ p = PageCeil(e)
  BY <1>2, <1>3, PageOfBoundary DEF FirstPage, PastPage
<1>7. p <= TotalPages
  BY <1>3, LastContainer
<1>8. /\ RoundUp(e) \in Int /\ e <= RoundUp(e) /\ RoundUp(e) < e + PageSize
      /\ RoundUp(a) \in Int /\ a <= RoundUp(a) /\ RoundUp(a) = Base + PageSize * f
  BY <1>2, <1>6, PageBoundary
<1>9. \A d \in Int, b \in 0..guestBytes(c) - 1 :
        PageAt(e + d * PageSize + b) = f + nbrOfPages(c) + d - 1
  <2> SUFFICES ASSUME NEW d \in Int, NEW b \in 0..guestBytes(c) - 1
               PROVE  PageAt(e + d * PageSize + b) = p + d - 1
    BY <1>3, <1>5
  <2>1. e + b \in Int /\ e <= e + b /\ e + b < RoundUp(e)
    BY <1>2, <1>4, <1>8
  <2>2. PageAt(e + b) = p - 1
    BY <2>1, <1>2, <1>6, PageOfGuest
  <2>3. PageAt(e + b + d * PageSize) = PageAt(e + b) + d
    BY <2>1, PagesFurther
  <2>4. e + b + d * PageSize = e + d * PageSize + b
    <3>1. d * PageSize \in Int
      BY Sizes
    <3> QED BY <3>1, <2>1, <1>2
  <2> QED BY <2>2, <2>3, <2>4, <1>3
<1>10. RequestedPages(c, n) \in Nat /\ (f = 0 => RequestedPages(c, n) >= 1)
  <2> DEFINE bytes == n * c.type_size - priorFreeBytes(c) + guestBytes(c)
             R == PagesFor(bytes)
  <2>1. n * c.type_size \in Nat \ {0}
    BY <1>4
  <2>2. bytes \in Int
    BY <2>1, <1>2, <1>4, <1>8
  <2>3. f = 0 => bytes > 0
    <3>1. f = 0 => PageSize * f = 0
      BY Sizes
    <3>2. f = 0 => RoundUp(a) = a
      BY <3>1, <1>2, <1>8, Sizes
    <3> QED BY <3>2, <2>1, <1>2, <1>4, <1>8
  <2>4. RequestedPages(c, n) = R
    BY DEF RequestedPages
  <2> HIDE DEF bytes
  <2>5. R \in Nat /\ PageSize * R >= bytes
    BY <2>2, PageSizeAssumption, PagesForCovers
  <2> HIDE DEF R
  <2>6. R = 0 => PageSize * R = 0
    BY Sizes
  <2> QED BY <2>2, <2>3, <2>4, <2>5, <2>6
<1>11. guestBytes(c) \in 0..PageSize - 1
  BY <1>2, <1>4, <1>8, Sizes
<1>12. /\ getPFNsPosition(i) \in Nat /\ nbrOfPages(c) \in Nat
       /\ PageAt(mappingAddress(c)) = getPFNsPosition(i)
       /\ getPFNsPosition(i) + nbrOfPages(c) <= TotalPages
       /\ getPFNsPosition(i) + nbrOfPages(c) >= 1
       /\ RequestedPages(c, n) \in Nat
       /\ getPFNsPosition(i) + RequestedPages(c, n) >= 1
       /\ nextAddress(c) \in Nat
  BY <1>2, <1>3, <1>4, <1>5, <1>6, <1>7, <1>10
<1> QED BY <1>1, <1>4, <1>5, <1>9, <1>11, <1>12

-----------------------------------------------------------------------------
(* The bytes of the frames. *)
Byte   == {Zero} \cup (PtrVars \X Nat)
Offset == 0..PageSize - 1
Memory == [Frames -> [Offset -> Byte]]
Tables == [Pages -> Frames \cup {NoFrame}]

(* Moving by whole pages keeps the offset in the page. *)
LEMMA SameOffset ==
  ASSUME NEW x \in Int, NEW d \in Int
  PROVE  (x + d * PageSize) % PageSize = x % PageSize /\ x % PageSize \in Offset
<1> DEFINE q == x \div PageSize
           r == x % PageSize
           y == x + d * PageSize
           u == y \div PageSize
           w == y % PageSize
<1>1. q \in Int /\ r \in 0..PageSize - 1 /\ x = PageSize * q + r
  BY Sizes, DivMod
<1>2. y \in Int /\ y = x + d * PageSize
  BY Sizes
<1> HIDE DEF y
<1>3. u \in Int /\ w \in 0..PageSize - 1 /\ y = PageSize * u + w
  BY <1>2, Sizes, DivMod
<1> HIDE DEF q, r, u, w
<1>4. /\ PageSize * (q + d) = PageSize * q + d * PageSize
      /\ PageSize * (q + d + 1) = PageSize * (q + d) + PageSize
      /\ PageSize * (u + 1) = PageSize * u + PageSize
      /\ PageSize * (q + d) \in Int /\ PageSize * u \in Int /\ PageSize * q \in Int
      /\ d * PageSize \in Int
  BY <1>1, <1>3, Sizes
<1>5. PageSize * (q + d) + r = PageSize * u + w
  BY <1>1, <1>2, <1>3, <1>4
<1>6. PageSize * (q + d) < PageSize * (u + 1) /\ PageSize * u < PageSize * (q + d + 1)
  BY <1>1, <1>3, <1>4, <1>5, Sizes
<1>7. q + d < u + 1 /\ u < q + d + 1
  BY <1>1, <1>3, <1>6, Below, Sizes
<1>8. u = q + d
  BY <1>1, <1>3, <1>7
<1>9. w = r
  BY <1>1, <1>3, <1>4, <1>5, <1>8
<1> QED BY <1>1, <1>9 DEF w, r, y, Offset

(* memmove leaves bytes in every frame. *)
LEMMA MemmoveType ==
  ASSUME NEW m \in Memory, NEW t, NEW dst \in Int, NEW src \in Int, NEW n \in Nat,
         dst % PageSize = src % PageSize, src % PageSize \in Offset,
         n > 0 => t[PageAt(src)] \in Frames
  PROVE  Memmove(m, t, dst, src, n) \in Memory
<1>1. CASE n = 0
  BY <1>1 DEF Memmove
<1>2. CASE n # 0
  <2> DEFINE f == t[PageAt(src)]
             g == t[PageAt(dst)]
             r == src % PageSize
             moved == [o \in Offset |-> IF o - r \in 0..n - 1 THEN m[f][r + o - r] ELSE m[g][o]]
  <2>1. f \in Frames /\ r \in Offset
    BY <1>2
  <2>2. Memmove(m, t, dst, src, n) = [m EXCEPT ![g] = moved]
    BY <1>2 DEF Memmove, Offset
  <2> HIDE DEF f, g, r
  <2>3. \A o \in Offset : r + o - r = o
    BY <2>1, Sizes DEF Offset
  <2>4. m[f] \in [Offset -> Byte]
    BY <2>1 DEF Memory
  <2>5. g \in Frames => moved \in [Offset -> Byte]
    <3>1. g \in Frames => m[g] \in [Offset -> Byte]
      BY DEF Memory
    <3> QED BY <2>3, <2>4, <3>1
  <2> HIDE DEF moved
  <2>6. [m EXCEPT ![g] = moved] \in Memory
    BY <2>5 DEF Memory
  <2> QED BY <2>2, <2>6
<1> QED BY <1>1, <1>2

(* So does the copy of the guest bytes. *)
LEMMA CopyGuestType ==
  ASSUME NEW m \in Memory, NEW t \in Tables, NEW c, NEW d \in Int,
         nextAddress(c) \in Int, guestBytes(c) \in 0..PageSize - 1,
         GuestAccessible(t, c, d * PageSize)
  PROVE  CopyGuest(m, t, c, d * PageSize) \in Memory
<1> DEFINE e == nextAddress(c)
           g == guestBytes(c)
<1>1. e \in Int /\ g \in Nat /\ d * PageSize \in Int
  BY Sizes
<1>2. Accessible(t, e, g)
  BY DEF GuestAccessible
<1>3. CopyGuest(m, t, c, d * PageSize) = Memmove(m, t, e + d * PageSize, e, g)
  BY DEF CopyGuest
<1> HIDE DEF e, g
<1>4. g > 0 => t[PageAt(e)] \in Frames
  <2>1. g > 0 => 0 \in 0..g - 1 /\ e + 0 = e
    BY <1>1
  <2>2. g > 0 => PageAt(e) \in Pages /\ t[PageAt(e)] # NoFrame
    BY <1>2, <2>1 DEF Accessible
  <2> QED BY <2>2 DEF Tables
<1>5. e + d * PageSize \in Int
  BY <1>1
<1> QED BY <1>1, <1>3, <1>4, <1>5, SameOffset, MemmoveType

(* So does freeing frames. *)
LEMMA ZeroedType ==
  ASSUME NEW m \in Memory, NEW gone
  PROVE  Zeroed(m, gone) \in Memory
BY DEF Zeroed, Memory, Byte, Offset

-----------------------------------------------------------------------------
(* The page table while the pages from start on are unmapped. *)
LEMMA Unmapped ==
  ASSUME NEW all, NEW l \in Nat, NEW start \in Nat, start <= l,
         NEW at, PageAt(at) = start, NEW u \in Tables,
         \A p \in Pages : /\ p < start => u[p] = all[p + 1]
                          /\ p >= l => u[p] = NoFrame
  PROVE  /\ UnmapFrom(u, at, l - start) \in Tables
         /\ \A p \in Pages :
              UnmapFrom(u, at, l - start)[p] = IF p < start THEN all[p + 1] ELSE NoFrame
<1>1. PageAt(at) + (l - start) - 1 = l - 1
  OBVIOUS
<1>2. ASSUME NEW p \in Pages
      PROVE  /\ (IF p \in start..l - 1 THEN NoFrame ELSE u[p])
                  = IF p < start THEN all[p + 1] ELSE NoFrame
             /\ (IF p \in start..l - 1 THEN NoFrame ELSE u[p])
                  \in Frames \cup {NoFrame}
  <2>1. p \in Nat
    BY DEF Pages
  <2>2. u[p] \in Frames \cup {NoFrame}
    BY DEF Tables
  <2>3. p \in start..l - 1 <=> p >= start /\ p < l
    BY <2>1
  <2>4. ~(p < start) <=> p >= start
    BY <2>1
  <2>5. ~(p < l) <=> p >= l
    BY <2>1
  <2> QED BY <2>2, <2>3, <2>4, <2>5
<1>3. UnmapFrom(u, at, l - start) = [p \in Pages |-> IF p \in start..l - 1 THEN NoFrame ELSE u[p]]
  BY <1>1 DEF UnmapFrom
<1> QED BY <1>2, <1>3 DEF Tables

(* The page table that backs the frames of s, page by page. *)
LEMMA BackedType ==
  ASSUME NEW s \in Seq(Frames)
  PROVE  /\ Backed(s) \in Tables
         /\ \A p \in Pages : /\ p < Len(s) => Backed(s)[p] = s[p + 1] /\ s[p + 1] \in Frames
                             /\ p >= Len(s) => Backed(s)[p] = NoFrame
<1>1. PICK m \in Nat : m = Len(s)
  OBVIOUS
<1>2. \A k \in 1..m : s[k] \in Frames
  BY <1>1
<1>3. \A p \in Pages : p \in Nat /\ (p + 1 \in 1..m <=> p < m)
  BY <1>1 DEF Pages
<1> QED BY <1>1, <1>2, <1>3 DEF Backed, Tables

(* The bytes of the guests at both ends of a move are backed. *)
LEMMA GuestsBacked ==
  ASSUME NEW s \in Seq(Frames), NoFrame \notin Frames, Len(s) <= RegionPages,
         NEW c, nextAddress(c) \in Int, guestBytes(c) \in Int,
         NEW past \in Int, NEW d \in Int,
         \A e \in Int, b \in 0..guestBytes(c) - 1 :
           PageAt(nextAddress(c) + e * PageSize + b) = past + e - 1,
         1 <= past, past <= Len(s), 1 <= past + d, past + d <= Len(s)
  PROVE  GuestAccessible(Backed(s), c, d * PageSize)
<1>1. PICK m \in Nat : m = Len(s)
  OBVIOUS
<1>2. ASSUME NEW k \in 0..guestBytes(c) - 1
      PROVE  /\ PageAt(nextAddress(c) + k) \in 0..m - 1
             /\ PageAt(nextAddress(c) + d * PageSize + k) \in 0..m - 1
  <2>1. PageAt(nextAddress(c) + 0 * PageSize + k) = past + 0 - 1
    OBVIOUS
  <2>2. nextAddress(c) + 0 * PageSize + k = nextAddress(c) + k
    BY Sizes
  <2>3. PageAt(nextAddress(c) + k) = past - 1
    BY <2>1, <2>2
  <2>4. PageAt(nextAddress(c) + d * PageSize + k) = past + d - 1
    OBVIOUS
  <2>5. past - 1 \in 0..m - 1 /\ past + d - 1 \in 0..m - 1
    BY <1>1
  <2> QED BY <2>3, <2>4, <2>5
<1>3. nextAddress(c) + d * PageSize \in Int
  BY Sizes
<1>4. Accessible(Backed(s), nextAddress(c), guestBytes(c))
  BY <1>1, <1>2, BackedAccessible
<1>5. Accessible(Backed(s), nextAddress(c) + d * PageSize, guestBytes(c))
  BY <1>1, <1>2, <1>3, BackedAccessible
<1> QED BY <1>4, <1>5 DEF GuestAccessible

-----------------------------------------------------------------------------
(* A page table that has the first pages as all wants them, and nothing    *)
(* behind page l.                                                          *)
BackedBelow(u, all, start, l) ==
  /\ u \in Tables
  /\ \A p \in Pages : /\ p < start => u[p] = all[p + 1]
                      /\ p >= l => u[p] = NoFrame

(* The frames of all from entry start on are mapped to their pages, once   *)
(* the pages from start to l, all that is mapped behind, are unmapped.     *)
LEMMA Remap ==
  ASSUME NEW all \in Seq(Frames), IsInjective(all), NoFrame \notin Frames,
         NEW l \in Nat, NEW start \in Nat, start <= l, start <= Len(all),
         NEW at, PageAt(at) = start, NEW u, BackedBelow(u, all, start, l)
  PROVE  /\ UnmapFrom(u, at, l - start) \in Tables
         /\ CanMap(UnmapFrom(u, at, l - start), Range(all), at, After(all, start))
              <=> Len(all) <= RegionPages
         /\ MapPages(UnmapFrom(u, at, l - start), at, After(all, start)) = Backed(all)
<1> DEFINE bare == UnmapFrom(u, at, l - start)
           tail == After(all, start)
<1>1. bare \in Tables /\ \A p \in Pages : bare[p] = IF p < start THEN all[p + 1] ELSE NoFrame
  BY Unmapped DEF BackedBelow
<1>2. PICK h \in Nat : h = Len(all)
  OBVIOUS
<1>3. /\ SubSeq(all, start + 1, h) \in Seq(Frames) /\ Len(SubSeq(all, start + 1, h)) = h - start
      /\ \A k \in 1..h - start : SubSeq(all, start + 1, h)[k] = all[start + k]
  BY <1>2, Piece, SMTT(20)
<1>4. /\ tail \in Seq(Frames) /\ Len(tail) = Len(all) - start
      /\ \A k \in 1..Len(tail) : tail[k] = all[start + k]
  BY <1>2, <1>3 DEF After
<1> HIDE DEF bare, tail
<1>5. BackedUpTo(bare, all, start) /\ LeftToMap(tail, all, start)
  BY <1>1, <1>4 DEF BackedUpTo, LeftToMap, Tables
<1>6. /\ CanMap(bare, Range(all), at, tail) <=> Len(all) <= RegionPages
      /\ MapPages(bare, at, tail) = Backed(all)
  BY <1>5, MapRest
<1> QED BY <1>1, <1>6 DEF bare, tail

-----------------------------------------------------------------------------
FramesType ==
  /\ containers_max \in Nat /\ pfns_max \in Nat
  /\ pfns \in Seq(Frames) /\ frames \subseteq Frames
  /\ table \in Tables /\ memory \in Memory /\ status \in Statuses

(* Entry p + 1 of the page frame array backs page p, and the process holds *)
(* nothing else.                                                           *)
Consistent ==
  /\ IsInjective(pfns) /\ frames = Range(pfns)
  /\ table = Backed(pfns) /\ Len(pfns) <= RegionPages

FramesIInv ==
  /\ LayoutIInv /\ FramesType
  /\ status = "running" => Consistent /\ Len(pfns) = TotalPages /\ pfns_max # 0
  /\ WithinStorage /\ OnlyResourcesRunOut /\ FreedLeavesNothing

(* The array that a refused reallocation leaves behind. *)
LEMMA ShiftedBack ==
  ASSUME NEW T, NEW s \in Seq(T), NEW kept \in Seq(T), Len(kept) <= Len(s)
  PROVE  /\ kept \o SubSeq(s, Len(kept) + 1, Len(s)) \in Seq(T)
         /\ Len(kept \o SubSeq(s, Len(kept) + 1, Len(s))) = Len(s)
<1> DEFINE q == SubSeq(s, Len(kept) + 1, Len(s))
<1>1. PICK m \in Nat, l \in Nat : m = Len(kept) /\ l = Len(s)
  OBVIOUS
<1>2. q \in Seq(T) /\ Len(q) = l - m
  BY <1>1, Piece
<1> HIDE DEF q
<1>3. kept \o q \in Seq(T) /\ Len(kept \o q) = Len(kept) + Len(q)
  BY <1>2, Joined
<1> QED BY <1>1, <1>2, <1>3 DEF q

(* What Shrink finds: its memmove touches backed pages only, the frames it *)
(* frees are its own, and what it leaves can be mapped again.              *)
LEMMA CutAndRemap ==
  ASSUME NEW s \in Seq(Frames), IsInjective(s), Len(s) <= RegionPages, NoFrame \notin Frames,
         NEW start \in Nat, NEW a \in Nat, NEW b \in Nat, start <= a, a <= b, b <= Len(s),
         NEW at, PageAt(at) = start
  PROVE  LET kept  == Without(s, a, b)
             spare == Range(Taken(s, a, b))
             bare  == UnmapFrom(DropFrames(Backed(s), spare), at, Len(s) - start)
         IN  /\ bare \in Tables
             /\ CanMap(bare, Range(kept), at, After(kept, start))
             /\ MapPages(bare, at, After(kept, start)) = Backed(kept)
<1> DEFINE kept == Without(s, a, b)
           spare == Range(Taken(s, a, b))
           u == DropFrames(Backed(s), spare)
<1>1. PICK l \in Nat : l = Len(s)
  OBVIOUS
<1>2. /\ kept \in Seq(Frames) /\ Len(kept) = Len(s) - (b - a) /\ IsInjective(kept)
      /\ \A k \in 1..a : kept[k] = s[k] /\ s[k] \notin spare
  BY ONLY s \in Seq(Frames), IsInjective(s), a \in Nat, b \in Nat, a <= b, b <= Len(s), WithoutTaken, SMTT(20)
<1> HIDE DEF kept, spare
<1>3. /\ u \in Tables
      /\ \A p \in Pages : u[p] = IF Backed(s)[p] \in spare THEN NoFrame ELSE Backed(s)[p]
  <2>1. Backed(s) \in Tables
    BY BackedType
  <2> QED BY <2>1 DEF DropFrames, Tables
<1> HIDE DEF u
<1>4. ASSUME NEW p \in Pages
      PROVE  /\ p < start => u[p] = kept[p + 1]
             /\ p >= l => u[p] = NoFrame
  <2>1. p \in Nat
    BY DEF Pages
  <2>2. /\ p < l => Backed(s)[p] = s[p + 1]
        /\ p >= l => Backed(s)[p] = NoFrame
    BY <1>1, BackedType
  <2>3. p < start => p < l /\ p + 1 \in 1..a
    BY <1>1, <2>1
  <2> QED BY <2>2, <2>3, <1>2, <1>3
<1>5. /\ start <= l /\ start <= Len(kept) /\ Len(kept) <= RegionPages
      /\ BackedBelow(u, kept, start, l)
  BY <1>1, <1>2, <1>3, <1>4, Sizes DEF BackedBelow
<1>6. /\ UnmapFrom(u, at, l - start) \in Tables
      /\ CanMap(UnmapFrom(u, at, l - start), Range(kept), at, After(kept, start))
           <=> Len(kept) <= RegionPages
      /\ MapPages(UnmapFrom(u, at, l - start), at, After(kept, start)) = Backed(kept)
  <2>1. kept \in Seq(Frames) /\ IsInjective(kept) /\ l \in Nat
    BY ONLY <1>1, <1>2
  <2> QED BY ONLY <1>5, <2>1, NoFrame \notin Frames, start \in Nat, PageAt(at) = start, Remap
<1> QED BY <1>1, <1>5, <1>6 DEF kept, spare, u

(* ContainerRealloc to more pages: unmapping everything from the container *)
(* on and mapping what the longer array names backs the longer array.      *)
LEMMA SpliceAndRemap ==
  ASSUME NEW s \in Seq(Frames), IsInjective(s), NoFrame \notin Frames,
         NEW got \in Seq(Frames), IsInjective(got), Range(s) \cap Range(got) = {},
         NEW start \in Nat, NEW gap \in Nat, start <= gap, gap <= Len(s),
         NEW at, PageAt(at) = start
  PROVE  LET all  == With(s, gap, got)
             bare == UnmapFrom(Backed(s), at, Len(s) - start)
         IN  /\ bare \in Tables
             /\ CanMap(bare, Range(all), at, After(all, start)) <=> Len(all) <= RegionPages
             /\ MapPages(bare, at, After(all, start)) = Backed(all)
<1> DEFINE all == With(s, gap, got)
           u == Backed(s)
<1>1. PICK l \in Nat : l = Len(s)
  OBVIOUS
<1>2. /\ all \in Seq(Frames) /\ Len(all) = l + Len(got) /\ IsInjective(all)
      /\ \A k \in 1..gap : all[k] = s[k]
  BY <1>1, WithMore
<1> HIDE DEF all
<1>3. /\ u \in Tables
      /\ \A p \in Pages : /\ p < l => u[p] = s[p + 1]
                          /\ p >= l => u[p] = NoFrame
  BY <1>1, BackedType
<1> HIDE DEF u
<1>4. ASSUME NEW p \in Pages, p < start PROVE u[p] = all[p + 1]
  <2>1. p \in Nat
    BY DEF Pages
  <2>2. p < l /\ p + 1 \in 1..gap
    BY <1>1, <1>4, <2>1
  <2> QED BY <2>2, <1>2, <1>3
<1>5. start <= l /\ start <= Len(all) /\ BackedBelow(u, all, start, l)
  <2>1. Len(got) \in Nat
    OBVIOUS
  <2>2. start <= l /\ start <= Len(all)
    BY <2>1, <1>1, <1>2
  <2>3. BackedBelow(u, all, start, l)
    BY <1>3, <1>4 DEF BackedBelow
  <2> QED BY <2>2, <2>3
<1>6. all \in Seq(Frames) /\ IsInjective(all)
  BY <1>2
<1>7. /\ UnmapFrom(u, at, l - start) \in Tables
      /\ CanMap(UnmapFrom(u, at, l - start), Range(all), at, After(all, start))
           <=> Len(all) <= RegionPages
      /\ MapPages(UnmapFrom(u, at, l - start), at, After(all, start)) = Backed(all)
  BY ONLY <1>1, <1>5, <1>6, NoFrame \notin Frames,
          start \in Nat, PageAt(at) = start, Remap
<1> QED BY <1>1, <1>7 DEF all, u

-----------------------------------------------------------------------------
(* A reallocation to fewer pages: the memmove, the freeing and the mapping *)
(* succeed, but for the mapping of no page at all.                         *)
LEMMA ShrinkOutcome ==
  ASSUME FramesIInv, status = "running", NEW v, NEW n \in Nat \ {0}, NEW i \in Indices,
         NEW R, R = RequestedPages(Context(i), n), R < nbrOfPages(Context(i)),
         Shrink(v, n, i, R)
  PROVE  /\ UNCHANGED <<containers_max, pfns_max>>
         /\ pfns' \in Seq(Frames) /\ memory' \in Memory
         /\ \/ /\ status' = "zero pages mapped" /\ UNCHANGED caller /\ UNCHANGED containers
               /\ Len(pfns') = Len(pfns)
               /\ frames' \subseteq Frames /\ table' \in Tables
            \/ /\ status' = "running"
               /\ Resettle(i, R, (R - nbrOfPages(Context(i))) * PageSize)
               /\ asked' = [asked EXCEPT ![v] = n]
               /\ Len(pfns') = Len(pfns) + (R - nbrOfPages(Context(i)))
               /\ Consistent'
<1>1. /\ LayoutIInv /\ FramesType /\ Consistent /\ Len(pfns) = TotalPages
  BY DEF FramesIInv
<1>2. PICK c : c = Context(i)
  OBVIOUS
<1>3. PICK start \in Nat, pages \in Nat : start = getPFNsPosition(i) /\ pages = nbrOfPages(c)
  BY <1>1, <1>2, ReallocatedPages
<1>4. PICK at : at = mappingAddress(c)
  OBVIOUS
<1>5. /\ R \in Nat /\ R < pages /\ PageAt(at) = start
      /\ start + pages <= Len(pfns) /\ start + R >= 1 /\ start + pages >= 1
      /\ nextAddress(c) \in Int /\ guestBytes(c) \in 0..PageSize - 1 /\ guestBytes(c) \in Int
  <2>1. start + pages <= TotalPages /\ TotalPages = Len(pfns)
    BY <1>1, <1>2, <1>3, ReallocatedPages
  <2>2. /\ R \in Nat /\ R < pages /\ PageAt(at) = start
        /\ start + R >= 1 /\ start + pages >= 1
        /\ nextAddress(c) \in Nat /\ guestBytes(c) \in 0..PageSize - 1
    BY <1>1, <1>2, <1>3, <1>4, ReallocatedPages
  <2> QED BY <2>1, <2>2, Sizes
<1>guests. \A e \in Int, b \in 0..guestBytes(c) - 1 :
             PageAt(nextAddress(c) + e * PageSize + b) = start + pages + e - 1
  BY <1>1, <1>2, <1>3, ReallocatedPages
<1>6. /\ pfns \in Seq(Frames) /\ IsInjective(pfns) /\ frames = Range(pfns)
      /\ table = Backed(pfns) /\ table \in Tables /\ Len(pfns) <= RegionPages
      /\ memory \in Memory /\ NoFrame \notin Frames /\ frames \subseteq Frames
  BY <1>1, FramesAssumption DEF FramesType, Consistent
<1>7. PICK l \in Nat : l = Len(pfns)
  BY <1>6
<1>8. PICK a \in Nat, b \in Nat : a = start + R /\ b = start + pages
  BY <1>3, <1>5
<1>9. /\ start \in Nat /\ start <= a /\ a <= b /\ b <= Len(pfns)
      /\ l - (b - a) = l + (R - pages) /\ l - (b - a) \in Nat /\ l - (b - a) <= l
  <2>1. R \in Nat /\ R < pages /\ start + pages <= l
    BY ONLY <1>5, <1>7
  <2>2. /\ start \in Nat /\ pages \in Nat /\ l \in Nat /\ a \in Nat /\ b \in Nat
        /\ a = start + R /\ b = start + pages
    BY ONLY <1>3, <1>7, <1>8
  <2>3. /\ start <= a /\ a <= b /\ b <= l
        /\ l - (b - a) = l + (R - pages) /\ l - (b - a) \in Nat /\ l - (b - a) <= l
    BY ONLY <2>1, <2>2
  <2> QED BY ONLY <1>7, <2>2, <2>3
<1>10. PICK kept : kept = Without(pfns, a, b)
  OBVIOUS
<1>11. PICK spare : spare = Range(Taken(pfns, a, b))
  OBVIOUS
<1>12. PICK bare : bare = UnmapFrom(DropFrames(table, spare), at, Len(pfns) - start)
  OBVIOUS
<1>13. PICK tail : tail = After(kept, start)
  OBVIOUS
<1>14. PICK d \in Int : d = R - pages
  BY <1>3, <1>5
<1>15. PICK by : by = -((pages - R) * PageSize)
  OBVIOUS
<1>16. by = d * PageSize /\ pages - R \in Nat
  <2>1. \A x, y \in Int : -((x - y) * PageSize) = (y - x) * PageSize
    BY Sizes
  <2>2. pages \in Int /\ R \in Int
    BY <1>3, <1>5
  <2>3. -((pages - R) * PageSize) = (R - pages) * PageSize
    BY ONLY <2>1, <2>2, Zenon
  <2>4. by = d * PageSize
    BY ONLY <2>3, <1>14, <1>15, Zenon
  <2>5. pages - R \in Nat
    BY <1>3, <1>5
  <2> QED BY <2>4, <2>5
<1>17. \/ /\ ~GuestAccessible(table, c, by)
          /\ Throw("access violation")
       \/ /\ ~(spare \subseteq frames)
          /\ Throw("cannot free")
       \/ /\ memory' = Zeroed(CopyGuest(memory, table, c, by), spare)
          /\ frames' = frames \ spare
          /\ \/ /\ tail = <<>> \/ ~CanMap(bare, frames', at, tail)
                /\ Throw(IF tail = <<>> THEN "zero pages mapped" ELSE "cannot map")
                /\ table' = bare
                /\ pfns' = kept \o SubSeq(pfns, Len(kept) + 1, Len(pfns))
                /\ UNCHANGED <<containers, containers_max, pfns_max, caller>>
             \/ /\ CanMap(bare, frames', at, tail)
                /\ table' = MapPages(bare, at, tail)
                /\ pfns' = kept
                /\ Resettle(i, R, by)
                /\ asked' = [asked EXCEPT ![v] = n]
                /\ UNCHANGED <<containers_max, pfns_max, status>>
  BY <1>2, <1>3, <1>4, <1>8, <1>10, <1>11, <1>12, <1>13, <1>15
     DEF Shrink, Without, Taken, After, PagesFrom
<1>18. GuestAccessible(table, c, by)
  <2>1. /\ 1 <= start + pages /\ start + pages <= Len(pfns)
        /\ 1 <= start + pages + d /\ start + pages + d <= Len(pfns)
        /\ start + pages \in Int
    <3>1. /\ R \in Nat /\ R < pages /\ start + pages <= l
          /\ start + R >= 1 /\ start + pages >= 1
      BY ONLY <1>5, <1>7
    <3> QED BY ONLY <3>1, <1>3, <1>7, <1>14, SMTT(20)
  <2>2. GuestAccessible(Backed(pfns), c, d * PageSize)
    <3>1. pfns \in Seq(Frames) /\ NoFrame \notin Frames /\ Len(pfns) <= RegionPages
      BY ONLY <1>6
    <3> QED BY <1>5, <1>14, <1>guests, <2>1, <3>1, GuestsBacked
  <2> QED BY <2>2, <1>6, <1>16
<1>19. /\ kept \in Seq(Frames) /\ Len(kept) = Len(pfns) - (b - a) /\ IsInjective(kept)
       /\ Range(kept) = frames \ spare /\ spare \subseteq frames
  <2> DEFINE k == Without(pfns, a, b)
             z == Range(Taken(pfns, a, b))
  <2>1. /\ pfns \in Seq(Frames) /\ IsInjective(pfns)
        /\ a \in Nat /\ b \in Nat /\ a <= b /\ b <= Len(pfns)
    BY ONLY <1>6, <1>8, <1>9
  <2>2. /\ k \in Seq(Frames) /\ Len(k) = Len(pfns) - (b - a) /\ IsInjective(k)
        /\ Range(k) = Range(pfns) \ z /\ z \subseteq Range(pfns)
    BY ONLY <2>1, WithoutTaken
  <2> HIDE DEF k, z
  <2>3. k = kept /\ z = spare
    BY <1>10, <1>11 DEF k, z
  <2> QED BY <2>2, <2>3, <1>6
<1>20. /\ bare \in Tables /\ CanMap(bare, Range(kept), at, tail)
       /\ MapPages(bare, at, tail) = Backed(kept)
  <2> DEFINE k == Without(pfns, a, b)
             z == UnmapFrom(DropFrames(Backed(pfns), Range(Taken(pfns, a, b))), at, Len(pfns) - start)
  <2>1. /\ pfns \in Seq(Frames) /\ IsInjective(pfns) /\ Len(pfns) <= RegionPages
        /\ NoFrame \notin Frames /\ PageAt(at) = start
    BY ONLY <1>5, <1>6
  <2>2. /\ z \in Tables /\ CanMap(z, Range(k), at, After(k, start))
        /\ MapPages(z, at, After(k, start)) = Backed(k)
    BY ONLY <1>8, <1>9, <2>1, CutAndRemap
  <2>3. k = kept /\ z = bare /\ After(k, start) = tail
    BY ONLY <1>6, <1>10, <1>11, <1>12, <1>13
  <2> HIDE DEF k, z
  <2> QED BY ONLY <2>2, <2>3
<1>21. Zeroed(CopyGuest(memory, table, c, by), spare) \in Memory
  <2>1. GuestAccessible(table, c, d * PageSize)
    BY <1>16, <1>18
  <2>2. CopyGuest(memory, table, c, d * PageSize) \in Memory
    BY <1>5, <1>6, <1>14, <2>1, CopyGuestType
  <2> QED BY <2>2, <1>16, ZeroedType
<1>22. PICK shifted : shifted = kept \o SubSeq(pfns, Len(kept) + 1, Len(pfns))
  OBVIOUS
<1>23. shifted \in Seq(Frames) /\ Len(shifted) = Len(pfns)
  <2>1. Len(kept) <= Len(pfns)
    BY ONLY <1>7, <1>9, <1>19
  <2> QED BY <2>1, <1>6, <1>19, <1>22, ShiftedBack
<1>24. /\ memory' \in Memory /\ frames' = Range(kept)
       /\ \/ /\ status' = "zero pages mapped" /\ table' = bare /\ pfns' = shifted
             /\ UNCHANGED <<containers, containers_max, pfns_max, caller>>
          \/ /\ table' = Backed(kept) /\ pfns' = kept
             /\ Resettle(i, R, by)
             /\ asked' = [asked EXCEPT ![v] = n]
             /\ UNCHANGED <<containers_max, pfns_max, status>>
  BY <1>17, <1>18, <1>19, <1>20, <1>21, <1>22 DEF Throw
<1>25. CASE /\ status' = "zero pages mapped" /\ table' = bare /\ pfns' = shifted
            /\ UNCHANGED <<containers, containers_max, pfns_max, caller>>
  <2>1. frames' \subseteq Frames
    BY <1>6, <1>19, <1>24
  <2> QED BY <2>1, <1>20, <1>23, <1>24, <1>25
<1>26. CASE /\ table' = Backed(kept) /\ pfns' = kept
            /\ Resettle(i, R, by)
            /\ asked' = [asked EXCEPT ![v] = n]
            /\ UNCHANGED <<containers_max, pfns_max, status>>
  <2>1. Len(pfns') <= RegionPages /\ Len(pfns') = Len(pfns) + (R - pages)
    BY <1>6, <1>7, <1>9, <1>19, <1>26, Sizes
  <2>2. Consistent'
    BY <2>1, <1>19, <1>24, <1>26 DEF Consistent, Backed
  <2>3. Resettle(i, R, (R - pages) * PageSize)
    BY <1>14, <1>16, <1>26
  <2> QED BY <2>1, <2>2, <2>3, <1>2, <1>3, <1>19, <1>24, <1>26
<1> QED BY <1>24, <1>25, <1>26

-----------------------------------------------------------------------------
(* What AllocateUserPhysicalPages grants. *)
LEMMA Granted ==
  ASSUME NEW k \in Nat, NEW got \in Grants(k)
  PROVE  /\ got \in Seq(Frames) /\ IsInjective(got)
         /\ Len(got) \in Nat /\ Len(got) <= k
         /\ Range(got) \subseteq Frames /\ frames \cap Range(got) = {}
<1>1. PICK j \in 0..k : got \in [1..j -> Frames \ frames] /\ IsInjective(got)
  BY DEF Grants
<1>2. DOMAIN got = 1..j /\ j \in Nat /\ j <= k
  BY <1>1
<1>3. \A m \in 1..j : got[m] \in Frames /\ got[m] \notin frames
  BY <1>1
<1>4. got \in Seq(Frames) /\ Len(got) = j
  <2>1. got \in [1..j -> Frames]
    BY <1>1, <1>3
  <2> QED BY <2>1, <1>2
<1> QED BY <1>1, <1>2, <1>3, <1>4 DEF Range

(* The page frame array while a reallocation to more pages is under way. *)
Opened(s, gap, steps, got) ==
  [k \in 1..Len(s) |-> IF k > gap + steps THEN s[k - steps]
                       ELSE IF k - gap \in DOMAIN got THEN got[k - gap] ELSE s[k]]

(* The frame array with a gap that was not filled names frames only, as    *)
(* many as before (a throw at vcmalloc.h:444-457).                         *)
LEMMA OpenedType ==
  ASSUME NEW T, NEW s \in Seq(T), NEW got \in Seq(T), NEW gap \in Nat, NEW steps \in Nat
  PROVE  Opened(s, gap, steps, got) \in Seq(T) /\ Len(Opened(s, gap, steps, got)) = Len(s)
<1> DEFINE opened == Opened(s, gap, steps, got)
<1>1. PICK l \in Nat : l = Len(s)
  OBVIOUS
<1>2. \A k \in 1..l : s[k] \in T
  BY <1>1
<1>3. \A k \in DOMAIN got : got[k] \in T
  OBVIOUS
<1>4. ASSUME NEW k \in 1..l
      PROVE  (IF k > gap + steps THEN s[k - steps]
              ELSE IF k - gap \in DOMAIN got THEN got[k - gap] ELSE s[k]) \in T
  <2>1. k > gap + steps => k - steps \in 1..l
    OBVIOUS
  <2> QED BY <2>1, <1>2, <1>3
<1>5. opened \in [1..l -> T]
  BY <1>1, <1>4 DEF Opened
<1> HIDE DEF opened
<1>6. opened \in Seq(T) /\ Len(opened) = l
  BY <1>5
<1> QED BY <1>1, <1>6 DEF opened

(* A reallocation to more pages: only frames, heap or region run out. *)
LEMMA GrowOutcome ==
  ASSUME FramesIInv, status = "running", NEW v, NEW n \in Nat \ {0}, NEW i \in Indices,
         NEW R, R = RequestedPages(Context(i), n), R > nbrOfPages(Context(i)),
         Grow(v, n, i, R)
  PROVE  /\ UNCHANGED containers_max /\ pfns_max' \in Nat \ {0}
         /\ pfns' \in Seq(Frames) /\ Len(pfns') <= pfns_max' /\ memory' \in Memory
         /\ \/ /\ status' \in {"no memory for pfns", "out of frames", "cannot map"}
               /\ UNCHANGED caller /\ UNCHANGED containers
               /\ frames' \subseteq Frames /\ table' \in Tables
               /\ status' = "cannot map" => Cardinality(frames') > RegionPages
            \/ /\ status' = "running"
               /\ Resettle(i, R, (R - nbrOfPages(Context(i))) * PageSize)
               /\ asked' = [asked EXCEPT ![v] = n]
               /\ Len(pfns') = Len(pfns) + (R - nbrOfPages(Context(i)))
               /\ Consistent'
<1>1. /\ LayoutIInv /\ FramesType /\ Consistent /\ Len(pfns) = TotalPages
      /\ pfns_max # 0 /\ Len(pfns) <= pfns_max
  BY DEF FramesIInv, WithinStorage
<1>2. PICK c : c = Context(i)
  OBVIOUS
<1>3. PICK start \in Nat, pages \in Nat : start = getPFNsPosition(i) /\ pages = nbrOfPages(c)
  BY <1>1, <1>2, ReallocatedPages
<1>4. PICK at : at = mappingAddress(c)
  OBVIOUS
<1>5. /\ R \in Nat /\ R > pages /\ PageAt(at) = start
      /\ start + pages <= Len(pfns) /\ start + R >= 1 /\ start + pages >= 1
      /\ nextAddress(c) \in Int /\ guestBytes(c) \in 0..PageSize - 1 /\ guestBytes(c) \in Int
  <2>1. start + pages <= TotalPages /\ TotalPages = Len(pfns)
    BY <1>1, <1>2, <1>3, ReallocatedPages
  <2>2. /\ R \in Nat /\ R > pages /\ PageAt(at) = start
        /\ start + R >= 1 /\ start + pages >= 1
        /\ nextAddress(c) \in Nat /\ guestBytes(c) \in 0..PageSize - 1
    BY <1>1, <1>2, <1>3, <1>4, ReallocatedPages
  <2> QED BY <2>1, <2>2, Sizes
<1>guests. \A e \in Int, b \in 0..guestBytes(c) - 1 :
             PageAt(nextAddress(c) + e * PageSize + b) = start + pages + e - 1
  BY <1>1, <1>2, <1>3, ReallocatedPages
<1>6. /\ pfns \in Seq(Frames) /\ IsInjective(pfns) /\ frames = Range(pfns)
      /\ table = Backed(pfns) /\ table \in Tables /\ Len(pfns) <= RegionPages
      /\ memory \in Memory /\ NoFrame \notin Frames /\ frames \subseteq Frames
      /\ pfns_max \in Nat \ {0}
  BY <1>1, FramesAssumption DEF FramesType, Consistent
<1>7. PICK l \in Nat : l = Len(pfns)
  BY <1>6
<1>8. PICK gap \in Nat : gap = start + pages
  BY <1>3
<1>9. PICK d \in Int : d = R - pages
  BY <1>3, <1>5
<1>10. d \in Nat /\ start <= gap /\ gap <= l /\ gap <= Len(pfns) /\ l + d \in Nat
  <2>1. R \in Nat /\ R > pages /\ gap <= l
    BY ONLY <1>5, <1>7, <1>8
  <2>2. d \in Nat
    BY ONLY <2>1, <1>3, <1>9
  <2> QED BY ONLY <2>1, <2>2, <1>3, <1>7, <1>8
<1>11. PICK by : by = d * PageSize
  OBVIOUS
<1>12. PICK bare : bare = UnmapFrom(table, at, Len(pfns) - start)
  OBVIOUS
<1>13. CASE HeapReAllocFails(R - pages) /\ Throw("no memory for pfns")
            /\ UNCHANGED <<bookkeeping, caller, os>>
  <2>1. /\ UNCHANGED <<containers, containers_max, pfns, pfns_max, frames, table, memory>>
        /\ UNCHANGED caller /\ status' = "no memory for pfns"
    BY <1>13 DEF Throw, bookkeeping, os
  <2> QED BY <2>1, <1>1, <1>6
<1> DEFINE Outcome(got) ==
             LET all  == With(pfns, gap, got)
                 tail == After(all, start)
                 now  == MapPages(bare, at, tail)
                 mapped == Len(got) = d /\ CanMap(bare, frames', at, tail)
                 copied == GuestAccessible(now, c, by)
             IN  /\ frames' = frames \cup Range(got)
                 /\ \/ /\ ~mapped
                       /\ Throw(IF Len(got) < d THEN "out of frames" ELSE "cannot map")
                       /\ table' = IF Len(got) < d THEN table ELSE bare
                       /\ pfns' = Opened(pfns, gap, d, got)
                       /\ UNCHANGED <<containers, caller, memory>>
                    \/ /\ mapped /\ ~copied
                       /\ Throw("access violation")
                       /\ table' = now
                       /\ pfns' = Opened(pfns, gap, d, got)
                       /\ UNCHANGED <<containers, caller, memory>>
                    \/ /\ mapped /\ copied
                       /\ table' = now
                       /\ pfns' = all
                       /\ memory' = CopyGuest(memory, now, c, by)
                       /\ Resettle(i, R, by)
                       /\ asked' = [asked EXCEPT ![v] = n]
                       /\ UNCHANGED status
<1>14. CASE /\ AssertPfnsStorage(d) /\ UNCHANGED containers_max
            /\ \E got \in Grants(d) : Outcome(got)
  <2>1. PICK got \in Grants(d) : Outcome(got)
    BY <1>14
  <2>2. PICK all : all = With(pfns, gap, got)
    OBVIOUS
  <2>3. PICK tail : tail = After(all, start)
    OBVIOUS
  <2>4. PICK opened : opened = Opened(pfns, gap, d, got)
    OBVIOUS
  <2>5. /\ frames' = frames \cup Range(got)
        /\ \/ /\ ~(Len(got) = d /\ CanMap(bare, frames', at, tail))
              /\ status' = IF Len(got) < d THEN "out of frames" ELSE "cannot map"
              /\ table' = IF Len(got) < d THEN table ELSE bare
              /\ pfns' = opened
              /\ UNCHANGED <<containers, caller, memory>>
           \/ /\ Len(got) = d /\ CanMap(bare, frames', at, tail)
              /\ ~GuestAccessible(MapPages(bare, at, tail), c, by)
           \/ /\ Len(got) = d /\ CanMap(bare, frames', at, tail)
              /\ GuestAccessible(MapPages(bare, at, tail), c, by)
              /\ table' = MapPages(bare, at, tail)
              /\ pfns' = all
              /\ memory' = CopyGuest(memory, MapPages(bare, at, tail), c, by)
              /\ Resettle(i, R, by)
              /\ asked' = [asked EXCEPT ![v] = n]
              /\ UNCHANGED status
    BY <2>1, <2>2, <2>3, <2>4 DEF Throw
  <2>6. /\ got \in Seq(Frames) /\ IsInjective(got) /\ Len(got) \in Nat /\ Len(got) <= d
        /\ Range(got) \subseteq Frames /\ frames \cap Range(got) = {}
    BY <1>10, Granted
  <2>7. /\ all \in Seq(Frames) /\ Len(all) = Len(pfns) + Len(got) /\ IsInjective(all)
        /\ Range(all) = frames'
    <3> DEFINE k == With(pfns, gap, got)
    <3>1. /\ pfns \in Seq(Frames) /\ IsInjective(pfns) /\ got \in Seq(Frames) /\ IsInjective(got)
          /\ Range(pfns) \cap Range(got) = {} /\ gap \in Nat /\ gap <= Len(pfns)
      BY <1>6, <1>8, <1>10, <2>6
    <3>2. /\ k \in Seq(Frames) /\ Len(k) = Len(pfns) + Len(got) /\ IsInjective(k)
          /\ Range(k) = Range(pfns) \cup Range(got)
      BY ONLY <3>1, WithMore
    <3> HIDE DEF k
    <3>3. k = all
      BY <2>2 DEF k
    <3> QED BY <3>2, <3>3, <2>5, <1>6
  <2>8. /\ bare \in Tables
        /\ CanMap(bare, frames', at, tail) <=> Len(all) <= RegionPages
        /\ MapPages(bare, at, tail) = Backed(all)
    <3> DEFINE k == With(pfns, gap, got)
               z == UnmapFrom(Backed(pfns), at, Len(pfns) - start)
    <3>1. /\ pfns \in Seq(Frames) /\ IsInjective(pfns) /\ NoFrame \notin Frames
          /\ got \in Seq(Frames) /\ IsInjective(got)
          /\ Range(pfns) \cap Range(got) = {} /\ gap \in Nat /\ gap <= Len(pfns)
          /\ start \in Nat /\ start <= gap /\ PageAt(at) = start
      BY <1>3, <1>5, <1>6, <1>8, <1>10, <2>6
    <3>2. /\ z \in Tables
          /\ CanMap(z, Range(k), at, After(k, start)) <=> Len(k) <= RegionPages
          /\ MapPages(z, at, After(k, start)) = Backed(k)
      BY ONLY <3>1, SpliceAndRemap
    <3> HIDE DEF k, z
    <3>3. k = all /\ z = bare
      BY <2>2, <1>6, <1>12 DEF k, z
    <3> QED BY <3>2, <3>3, <2>3, <2>7
  <2>9. pfns_max' \in Nat \ {0} /\ pfns_max' >= l + d
    <3>1. pfns_max' = PfnsMaxFor(l + d)
      BY <1>7, <1>14 DEF AssertPfnsStorage
    <3> QED BY <3>1, <1>6, <1>10, PfnsRoom
  <2>10. frames' \subseteq Frames
    BY <2>5, <2>6, <1>6
  <2>11. CASE /\ ~(Len(got) = d /\ CanMap(bare, frames', at, tail))
              /\ status' = IF Len(got) < d THEN "out of frames" ELSE "cannot map"
              /\ table' = IF Len(got) < d THEN table ELSE bare
              /\ pfns' = opened
              /\ UNCHANGED <<containers, caller, memory>>
    <3>1. opened \in Seq(Frames) /\ Len(opened) = Len(pfns)
      <4> DEFINE o == Opened(pfns, gap, d, got)
      <4>1. pfns \in Seq(Frames) /\ got \in Seq(Frames) /\ gap \in Nat /\ d \in Nat
        BY <2>6, <1>6, <1>8, <1>10
      <4>2. o \in Seq(Frames) /\ Len(o) = Len(pfns)
        BY ONLY <4>1, OpenedType
      <4>3. o = opened
        BY ONLY <2>4
      <4> HIDE DEF o
      <4> QED BY ONLY <4>2, <4>3
    <3>2. Len(pfns') <= pfns_max'
      <4>1. Len(pfns') = l
        BY ONLY <3>1, <2>11, <1>7
      <4> QED BY ONLY <4>1, <2>9, <1>7, <1>10
    <3>3. table' \in Tables
      BY <2>8, <2>11, <1>6
    <3>4. ASSUME status' = "cannot map" PROVE Cardinality(frames') > RegionPages
      <4>0. ~(Len(got) < d)
        BY ONLY <3>4, <2>11
      <4>1. Len(got) = d
        BY ONLY <4>0, <2>6, <1>9
      <4>2. ~(Len(all) <= RegionPages)
        BY <4>1, <2>8, <2>11
      <4>3. Cardinality(frames') = Len(all)
        BY <2>7, CountOnce
      <4>4. Len(all) \in Int
        BY <2>7
      <4> QED BY <4>2, <4>3, <4>4, Sizes
    <3> QED BY <3>1, <3>2, <3>3, <3>4, <2>9, <2>10, <2>11, <1>6, <1>14
  <2>12. ASSUME Len(got) = d, CanMap(bare, frames', at, tail)
         PROVE  GuestAccessible(MapPages(bare, at, tail), c, by) /\ Len(all) <= RegionPages
    <3>1. /\ 1 <= start + pages /\ start + pages <= Len(all)
          /\ 1 <= start + pages + d /\ start + pages + d <= Len(all)
          /\ start + pages \in Int
      <4>1. /\ R \in Nat /\ R > pages /\ start + pages <= l
            /\ start + R >= 1 /\ start + pages >= 1 /\ Len(all) = l + d
        BY ONLY <1>5, <1>7, <2>7, <2>12
      <4>2. /\ start \in Nat /\ pages \in Nat /\ l \in Nat /\ d = R - pages
        BY ONLY <1>3, <1>7, <1>9
      <4>3. /\ 1 <= start + pages /\ start + pages <= l + d
            /\ 1 <= start + pages + d /\ start + pages + d <= l + d
            /\ start + pages \in Int
        BY ONLY <4>1, <4>2
      <4> QED BY ONLY <4>1, <4>3
    <3>2. Len(all) <= RegionPages
      BY <2>8, <2>12
    <3>3. GuestAccessible(Backed(all), c, d * PageSize)
      BY <1>5, <1>6, <1>9, <1>guests, <2>7, <3>1, <3>2, GuestsBacked
    <3> QED BY <3>2, <3>3, <2>8, <1>11
  <2>13. CASE /\ Len(got) = d /\ CanMap(bare, frames', at, tail)
              /\ GuestAccessible(MapPages(bare, at, tail), c, by)
              /\ table' = MapPages(bare, at, tail)
              /\ pfns' = all
              /\ memory' = CopyGuest(memory, MapPages(bare, at, tail), c, by)
              /\ Resettle(i, R, by)
              /\ asked' = [asked EXCEPT ![v] = n]
              /\ UNCHANGED status
    <3>1. memory' \in Memory
      <4>1. Backed(all) \in Tables
        BY <2>7, BackedType
      <4>2. GuestAccessible(Backed(all), c, d * PageSize)
        BY <2>8, <2>13, <1>11
      <4>3. CopyGuest(memory, Backed(all), c, d * PageSize) \in Memory
        BY <1>5, <1>6, <1>9, <4>1, <4>2, CopyGuestType
      <4> QED BY <4>3, <2>8, <2>13, <1>11
    <3>2. Consistent'
      BY <2>7, <2>8, <2>12, <2>13 DEF Consistent, Backed
    <3>3. Len(pfns') = Len(pfns) + (R - pages) /\ Len(pfns') <= pfns_max'
      <4>1. Len(pfns') = l + d
        BY <2>7, <2>13, <1>7
      <4>2. Len(pfns') <= pfns_max'
        BY <4>1, <2>9, <1>7
      <4> QED BY ONLY <4>1, <4>2, <1>7, <1>9
    <3>4. Resettle(i, R, (R - pages) * PageSize)
      BY <2>13, <1>9, <1>11
    <3> QED BY <3>1, <3>2, <3>3, <3>4, <2>7, <2>9, <2>13, <1>2, <1>3, <1>14
  <2> QED BY <2>5, <2>11, <2>12, <2>13
<1> QED BY <1>2, <1>3, <1>4, <1>8, <1>9, <1>11, <1>12, <1>13, <1>14, ZenonT(40)
        DEF Grow, With, After, PagesFrom, Opened

-----------------------------------------------------------------------------
(* Sequences that agree in length and in every entry are equal. *)
LEMMA SameSequence ==
  ASSUME NEW T, NEW s \in Seq(T), NEW u \in Seq(T), Len(s) = Len(u),
         \A k \in 1..Len(s) : s[k] = u[k]
  PROVE  s = u
  OBVIOUS

(* A gap at the end is a concatenation. *)
LEMMA WithAtEnd ==
  ASSUME NEW T, NEW s \in Seq(T), NEW got \in Seq(T)
  PROVE  With(s, Len(s), got) = s \o got
<1>1. PICK n \in Nat : n = Len(s)
  OBVIOUS
<1>2. PICK g \in Nat : g = Len(got)
  OBVIOUS
<1>3. PICK u : u = s \o got
  OBVIOUS
<1>4. PICK w : w = With(s, Len(s), got)
  OBVIOUS
<1>5. /\ u \in Seq(T) /\ Len(u) = n + g
      /\ \A k \in 1..n + g : u[k] = IF k <= n THEN s[k] ELSE got[k - n]
  BY <1>1, <1>2, <1>3, Joined
<1>6. /\ w \in Seq(T) /\ Len(w) = n + g
      /\ \A k \in 1..n + g : w[k] = IF k <= n THEN s[k]
                                    ELSE IF k <= n + g THEN got[k - n] ELSE s[k - g]
  <2>1. n <= Len(s)
    BY <1>1
  <2>2. /\ With(s, n, got) \in Seq(T) /\ Len(With(s, n, got)) = Len(s) + Len(got)
        /\ \A k \in 1..Len(With(s, n, got)) :
             With(s, n, got)[k] = IF k <= n THEN s[k]
                                  ELSE IF k <= n + Len(got) THEN got[k - n]
                                  ELSE s[k - Len(got)]
    BY ONLY s \in Seq(T), got \in Seq(T), n \in Nat, <2>1, WithShape
  <2>3. w = With(s, n, got)
    BY ONLY <1>1, <1>4
  <2> QED BY ONLY <1>1, <1>2, <2>2, <2>3
<1>7. \A k \in 1..n + g : w[k] = u[k]
  BY <1>5, <1>6
<1>8. w = u
  <2>1. w \in Seq(T) /\ u \in Seq(T) /\ Len(w) = Len(u)
    BY <1>5, <1>6
  <2>2. \A k \in 1..Len(w) : w[k] = u[k]
    BY <1>6, <1>7
  <2> QED BY ONLY <2>1, <2>2, SameSequence
<1> QED BY <1>3, <1>4, <1>8

(* ContainerAlloc: mapping new frames behind the mapped ones backs the     *)
(* longer array, if the region has room for it.                            *)
LEMMA AppendAndMap ==
  ASSUME NEW s \in Seq(Frames), IsInjective(s), NoFrame \notin Frames,
         NEW got \in Seq(Frames), IsInjective(got), Range(s) \cap Range(got) = {},
         NEW at, PageAt(at) = Len(s)
  PROVE  /\ s \o got \in Seq(Frames) /\ Len(s \o got) = Len(s) + Len(got)
         /\ IsInjective(s \o got) /\ Range(s \o got) = Range(s) \cup Range(got)
         /\ CanMap(Backed(s), Range(s) \cup Range(got), at, got) <=> Len(s \o got) <= RegionPages
         /\ MapPages(Backed(s), at, got) = Backed(s \o got)
<1>1. PICK n \in Nat : n = Len(s)
  OBVIOUS
<1>2. PICK g \in Nat : g = Len(got)
  OBVIOUS
<1>3. PICK all : all = s \o got
  OBVIOUS
<1>4. /\ all \in Seq(Frames) /\ Len(all) = n + g
      /\ \A k \in 1..n + g : all[k] = IF k <= n THEN s[k] ELSE got[k - n]
  BY <1>1, <1>2, <1>3, Joined
<1>5. IsInjective(all) /\ Range(all) = Range(s) \cup Range(got)
  <2> DEFINE w == With(s, Len(s), got)
  <2>1. s \in Seq(Frames) /\ got \in Seq(Frames) /\ Len(s) \in Nat /\ Len(s) <= Len(s)
    BY <1>1
  <2>2. IsInjective(w) /\ Range(w) = Range(s) \cup Range(got)
    BY ONLY <2>1, IsInjective(s), IsInjective(got), Range(s) \cap Range(got) = {}, WithMore
  <2>3. w = all
    BY <1>3, WithAtEnd
  <2> HIDE DEF w
  <2> QED BY <2>2, <2>3
<1>6. /\ \A k \in 1..Len(got) : got[k] = all[n + k]
      /\ \A k \in 1..n : all[k] = s[k]
  <2>1. ASSUME NEW k \in 1..g PROVE got[k] = all[n + k]
    <3>1. n + k \in 1..n + g /\ ~(n + k <= n) /\ n + k - n = k
      OBVIOUS
    <3> QED BY <3>1, <1>4
  <2>2. \A k \in 1..n : k \in 1..n + g /\ k <= n
    OBVIOUS
  <2> QED BY <2>1, <2>2, <1>2, <1>4
<1>7. DOMAIN Backed(s) = Pages
  BY DEF Backed
<1>8. \A p \in Pages : Backed(s)[p] = IF p < n THEN all[p + 1] ELSE NoFrame
  <2> SUFFICES ASSUME NEW p \in Pages PROVE Backed(s)[p] = IF p < n THEN all[p + 1] ELSE NoFrame
    OBVIOUS
  <2>1. p \in Nat
    BY DEF Pages
  <2>2. p < n => p + 1 \in 1..n
    BY <2>1
  <2>3. (p < n => Backed(s)[p] = s[p + 1]) /\ (p >= n => Backed(s)[p] = NoFrame)
    BY <1>1, BackedType
  <2> QED BY <2>1, <2>2, <2>3, <1>6
<1>9. PageAt(at) = n /\ n \in Nat /\ n <= Len(all) /\ Len(got) = Len(all) - n
  BY <1>1, <1>2, <1>4
<1>10. all \in Seq(Frames) /\ IsInjective(all) /\ got \in Seq(Frames) /\ NoFrame \notin Frames
  BY <1>4, <1>5
<1>11. BackedUpTo(Backed(s), all, n) /\ LeftToMap(got, all, n)
  BY <1>6, <1>7, <1>8, <1>9 DEF BackedUpTo, LeftToMap
<1>12. /\ CanMap(Backed(s), Range(all), at, got) <=> Len(all) <= RegionPages
       /\ MapPages(Backed(s), at, got) = Backed(all)
  BY ONLY <1>9, <1>10, <1>11, MapRest
<1> QED BY <1>1, <1>2, <1>3, <1>4, <1>5, <1>12

(* The two ways a call ends. *)
LEMMA StillRunning ==
  ASSUME LayoutIInv', FramesType', Len(containers') <= containers_max',
         Len(pfns') <= pfns_max', status' = "running", pfns_max' # 0,
         Consistent', Len(pfns') = TotalPages'
  PROVE  FramesIInv'
BY DEF FramesIInv, WithinStorage, OnlyResourcesRunOut, FreedLeavesNothing

(* A call that throws need not, but it does not throw because array and    *)
(* page table disagree.                                                    *)
LEMMA Threw ==
  ASSUME LayoutIInv', FramesType', Len(containers') <= containers_max',
         Len(pfns') <= pfns_max',
         status' \notin {"running", "freed", "cannot free", "access violation"},
         status' = "cannot map" => Cardinality(frames') > RegionPages
  PROVE  FramesIInv'
BY DEF FramesIInv, WithinStorage, OnlyResourcesRunOut, FreedLeavesNothing

-----------------------------------------------------------------------------
(* The page frame array, the page table and what the process holds, before *)
(* a call.                                                                 *)
LEMMA InOrder ==
  ASSUME FramesIInv
  PROVE  /\ LayoutIInv /\ FramesType
         /\ containers_max \in Nat /\ pfns_max \in Nat /\ pfns \in Seq(Frames)
         /\ Len(containers) \in Nat /\ Len(containers) <= containers_max
         /\ Len(pfns) \in Nat /\ Len(pfns) <= pfns_max
         /\ frames \subseteq Frames /\ table \in Tables /\ memory \in Memory
         /\ status = "running" => /\ Consistent /\ Len(pfns) = TotalPages
                                  /\ pfns_max \in Nat \ {0}
                                  /\ IsInjective(pfns) /\ frames = Range(pfns)
                                  /\ table = Backed(pfns) /\ Len(pfns) <= RegionPages
<1>1. LayoutIInv /\ FramesType /\ WithinStorage /\ Len(containers) \in Nat
  BY LastContainer DEF FramesIInv
<1>2. Len(pfns) \in Nat
  BY <1>1 DEF FramesType
<1> QED BY <1>1, <1>2 DEF FramesIInv, FramesType, WithinStorage, Consistent

(* The invariant holds of a hypercontainer as vccalloc leaves it. *)
LEMMA FramesInit == Init => FramesIInv
<1> SUFFICES ASSUME Init PROVE FramesIInv
  OBVIOUS
<1>1. LayoutIInv
  BY LayoutInit
<1>2. /\ containers = <<>> /\ pfns = <<>> /\ frames = {} /\ status = "running"
      /\ containers_max = ContextsPerPage /\ pfns_max = PfnsMax0
      /\ table = [p \in Pages |-> NoFrame]
      /\ memory = [f \in Frames |-> [o \in 0..PageSize - 1 |-> Zero]]
  BY DEF Init
<1>3. pfns \in Seq(Frames) /\ Len(pfns) = 0 /\ Len(containers) = 0 /\ Range(pfns) = {}
  BY <1>2 DEF Range
<1>4. FramesType
  <2>1. table \in Tables /\ memory \in Memory
    BY <1>2 DEF Tables, Memory, Offset, Byte
  <2>2. containers_max \in Nat /\ pfns_max \in Nat
    BY <1>2, HyperContainerAssumption
  <2> QED BY ONLY <2>1, <2>2, <1>2, <1>3 DEF FramesType, Statuses
<1>5. Consistent
  <2>1. table = Backed(pfns)
    BY <1>2, <1>3 DEF Backed
  <2>2. IsInjective(pfns)
    BY <1>2 DEF IsInjective
  <2> QED BY <2>1, <2>2, <1>2, <1>3, Sizes DEF Consistent
<1>6. Len(pfns) = TotalPages /\ pfns_max # 0 /\ WithinStorage
  BY <1>2, <1>3, HyperContainerAssumption DEF TotalPages, WithinStorage
<1> QED BY <1>1, <1>2, <1>4, <1>5, <1>6 DEF FramesIInv, OnlyResourcesRunOut, FreedLeavesNothing

(* Nothing but the caller's bytes changes. *)
LEMMA FramesUnmoved ==
  ASSUME FramesIInv, LayoutIInv', memory' \in Memory,
         UNCHANGED <<bookkeeping, pointer, frames, table, status>>
  PROVE  FramesIInv'
<1>1. /\ containers' = containers /\ containers_max' = containers_max
      /\ pfns' = pfns /\ pfns_max' = pfns_max /\ pointer' = pointer
      /\ frames' = frames /\ table' = table /\ status' = status
  BY DEF bookkeeping
<1>2. TotalPages' = TotalPages
  BY <1>1 DEF TotalPages, PastPage, PageCeil, RoundUp, End, Address
<1>3. FramesType' /\ (Consistent => Consistent')
  BY <1>1 DEF FramesIInv, FramesType, Consistent, Backed
<1> QED BY <1>1, <1>2, <1>3 DEF FramesIInv, WithinStorage, OnlyResourcesRunOut, FreedLeavesNothing

(* Room made, or refused. *)
LEMMA ExtendFrames ==
  ASSUME FramesIInv, LayoutIInv', status = "running", NEW j \in Nat,
         ExtendCcStorage(j) \/ ExtendPfnsStorage(j * PageSize)
  PROVE  FramesIInv'
<1>0. /\ pfns_max \in Nat \ {0} /\ containers_max \in Nat /\ Len(containers) \in Nat
      /\ Len(pfns) \in Nat
  BY InOrder
<1>1. PICK k \in Nat : k = (j * PageSize) \div PageSize
  <2>1. j * PageSize = PageSize * j /\ (PageSize * j) \div PageSize = j
    BY Sizes, DivExact
  <2> QED BY <2>1
<1>2. CASE /\ UNCHANGED <<containers, containers_max, pfns, pointer, frames, table, memory, status>>
           /\ AssertPfnsStorage(k)
  <2>1. pfns_max' \in Nat \ {0} /\ pfns_max' >= Len(pfns) + k
    BY <1>0, <1>2, PfnsRoom DEF AssertPfnsStorage
  <2>2. TotalPages' = TotalPages
    BY <1>2 DEF TotalPages, PastPage, PageCeil, RoundUp, End, Address
  <2>3. Consistent'
    BY <1>2, InOrder DEF Consistent, Backed
  <2>4. FramesType' /\ Len(pfns') <= pfns_max'
    BY <1>0, <1>2, <2>1, InOrder DEF FramesType
  <2> QED BY <1>2, <2>1, <2>2, <2>3, <2>4, InOrder, StillRunning
<1>3. CASE /\ UNCHANGED <<containers, pfns, pfns_max, pointer, frames, table, memory, status>>
           /\ AssertContainerContextStorage(j)
  <2>1. containers_max' \in Nat /\ containers_max' >= Len(containers) + j
    BY <1>0, <1>3, ContextsRoom DEF AssertContainerContextStorage
  <2>2. TotalPages' = TotalPages
    BY <1>3 DEF TotalPages, PastPage, PageCeil, RoundUp, End, Address
  <2>3. Consistent'
    BY <1>3, InOrder DEF Consistent, Backed
  <2>4. FramesType' /\ Len(containers') <= containers_max'
    BY <1>0, <1>3, <2>1, InOrder DEF FramesType
  <2> QED BY <1>3, <2>1, <2>2, <2>3, <2>4, InOrder, StillRunning
<1>4. CASE /\ UNCHANGED <<bookkeeping, os>>
           /\ Throw("no memory for contexts") \/ Throw("no memory for pfns")
  <2>1. status' \notin {"running", "freed", "cannot free", "access violation", "cannot map"}
    BY <1>4 DEF Throw
  <2>2. /\ FramesType' /\ Len(containers') <= containers_max' /\ Len(pfns') <= pfns_max'
    <3>1. /\ containers' = containers /\ containers_max' = containers_max
          /\ pfns' = pfns /\ pfns_max' = pfns_max
          /\ frames' = frames /\ table' = table /\ memory' = memory
      BY ONLY <1>4 DEF bookkeeping, os
    <3>2. status' \in Statuses
      BY ONLY <1>4 DEF Throw, Statuses
    <3>3. FramesType /\ Len(containers) <= containers_max /\ Len(pfns) <= pfns_max
      BY InOrder
    <3> QED BY ONLY <3>1, <3>2, <3>3 DEF FramesType
  <2> QED BY <2>1, <2>2, Threw
<1> QED BY <1>1, <1>2, <1>3, <1>4 DEF ExtendCcStorage, ExtendPfnsStorage, caller, os

(* HyperContainerFree finds every frame of its array held by the process   *)
(* and leaves none.                                                        *)
LEMMA FreeFrames ==
  ASSUME FramesIInv, LayoutIInv', status = "running", HyperContainerFree
  PROVE  FramesIInv'
<1>1. Range(pfns) = frames /\ memory \in Memory
  BY InOrder
<1>2. /\ frames' = {} /\ table' = [p \in Pages |-> NoFrame]
      /\ memory' = Zeroed(memory, Range(pfns))
      /\ containers' = <<>> /\ pfns' = <<>>
      /\ containers_max' = 0 /\ pfns_max' = 0 /\ status' = "freed"
  BY <1>1 DEF HyperContainerFree
<1>3. memory' \in Memory /\ table' \in Tables
  BY <1>1, <1>2, ZeroedType DEF Tables
<1>4. pfns' \in Seq(Frames) /\ Len(pfns') = 0 /\ Len(containers') = 0
  BY <1>2
<1>5. FramesType' /\ WithinStorage'
  BY ONLY <1>2, <1>3, <1>4 DEF FramesType, WithinStorage, Statuses
<1>6. OnlyResourcesRunOut' /\ FreedLeavesNothing'
  BY ONLY <1>2 DEF OnlyResourcesRunOut, FreedLeavesNothing
<1> QED BY <1>2, <1>5, <1>6 DEF FramesIInv

(* The bytes the caller asked for. *)
Bytes(v) == asked[v] * TypeSize[v]

(* The caller's array lies in its container, and in backed pages. *)
LEMMA ArrayPlace ==
  ASSUME FramesIInv, status = "running", NEW v \in PtrVars,
         NEW i \in Indices, containers[i].reference = v
  PROVE  /\ pointer[v] = Address(i) /\ Base <= pointer[v] /\ pointer[v] \in Nat
         /\ Bytes(v) \in Nat /\ pointer[v] + Bytes(v) <= End(i) /\ End(i) \in Nat
         /\ Bytes(v) = 0 <=> asked[v] = 0
         /\ \A k \in 0..Bytes(v) - 1 : PageAt(pointer[v] + k) \in 0..Len(pfns) - 1
<1> DEFINE size == Bytes(v)
           at == pointer[v]
<1>1. /\ at = Address(i) /\ at \in Nat /\ Base <= at /\ size \in Nat
      /\ at + size <= End(i) /\ End(i) \in Nat /\ (size = 0 <=> asked[v] = 0)
  <2>1. at = Address(i) /\ Base <= Address(i) /\ Address(i) \in Nat /\ End(i) \in Nat
    BY InOrder, PagesOfContainer DEF Address
  <2>2. PICK t \in Nat \ {0}, e \in Nat : /\ t = containers[i].type_size
                                          /\ e = containers[i].elements_num
    BY InOrder, Entrywise
  <2>3. t = TypeSize[v] /\ End(i) = at + t * e
    BY <2>1, <2>2, InOrder DEF LayoutIInv, SizesRight, End
  <2>4. PICK k \in Nat : k = asked[v] /\ k <= e
    BY <2>2, InOrder DEF LayoutIInv, LayoutType, CallerHasRoom, Indices
  <2>5. t * k <= t * e /\ t * k \in Nat /\ t * e \in Nat /\ k * t = t * k
    BY <2>2, <2>4, Above
  <2>6. t * k = 0 <=> k = 0
    BY <2>2, <2>4
  <2>7. size = t * k
    BY <2>3, <2>4, <2>5 DEF Bytes
  <2> HIDE DEF size, at
  <2> QED BY <2>1, <2>3, <2>4, <2>5, <2>6, <2>7
<1> HIDE DEF size, at
<1>2. Len(pfns) = TotalPages /\ Len(pfns) \in Nat
  BY InOrder
<1>3. ASSUME NEW k \in 0..size - 1 PROVE PageAt(at + k) \in 0..Len(pfns) - 1
  <2>1. at + k \in Int /\ Base <= at + k /\ at + k < End(i)
    BY <1>1, Sizes
  <2>2. 0 <= PageAt(at + k) /\ PageAt(at + k) < PastPage(i)
    BY <2>1, <1>1, PageBefore DEF PastPage
  <2>3. PastPage(i) <= Len(pfns) /\ PastPage(i) \in Nat
    BY <1>2, InOrder, LastContainer, PagesOfContainer
  <2>4. PageAt(at + k) \in Int
    BY <2>1, PageOf
  <2> QED BY <2>2, <2>3, <2>4, <1>2
<1> QED BY <1>1, <1>3 DEF size, at

(* A store through a pointer faults nowhere. *)
LEMMA StoreFinds ==
  ASSUME FramesIInv, status = "running", NEW v \in PtrVars, InUse(v)
  PROVE  Accessible(table, pointer[v], Bytes(v)) /\ Bytes(v) \in Nat
<1>1. PICK i \in Indices : containers[i].reference = v
  BY DEF InUse, Indices
<1>2. /\ pointer[v] \in Int /\ Bytes(v) \in Int /\ Bytes(v) \in Nat
      /\ \A k \in 0..Bytes(v) - 1 : PageAt(pointer[v] + k) \in 0..Len(pfns) - 1
  BY <1>1, ArrayPlace
<1>3. /\ pfns \in Seq(Frames) /\ NoFrame \notin Frames /\ Len(pfns) <= RegionPages
      /\ table = Backed(pfns)
  BY InOrder, FramesAssumption
<1> QED BY ONLY <1>2, <1>3, BackedAccessible

(* It changes nothing but bytes. *)
LEMMA StoreFrames ==
  ASSUME FramesIInv, LayoutIInv', status = "running", NEW v \in PtrVars, InUse(v),
         StoreThrough(v)
  PROVE  FramesIInv'
<1> DEFINE size == Bytes(v)
           at == pointer[v]
           hits(f, o) == {k \in 0..size - 1 :
                            table[PageAt(at + k)] = f /\ (at + k) % PageSize = o}
<1>1. \/ /\ memory' = [f \in Frames |-> [o \in 0..PageSize - 1 |->
              IF hits(f, o) = {} THEN memory[f][o] ELSE Tag(v, Max(hits(f, o)))]]
         /\ UNCHANGED <<bookkeeping, caller, frames, table, status>>
      \/ ~Accessible(table, at, size)
  BY DEF StoreThrough, Bytes
<1>2. Accessible(table, at, size) /\ size \in Nat
  BY StoreFinds
<1> HIDE DEF size, at, hits
<1>3. /\ memory' = [f \in Frames |-> [o \in 0..PageSize - 1 |->
           IF hits(f, o) = {} THEN memory[f][o] ELSE Tag(v, Max(hits(f, o)))]]
      /\ UNCHANGED <<bookkeeping, caller, frames, table, status>>
  BY <1>1, <1>2
<1>4. ASSUME NEW f, NEW o, hits(f, o) # {} PROVE Tag(v, Max(hits(f, o))) \in Byte
  <2>1. hits(f, o) \subseteq 0..size
    BY <1>2 DEF hits
  <2>2. hits(f, o) \subseteq Nat
    BY <1>2 DEF hits
  <2>3. Max(hits(f, o)) \in Nat
    BY <1>2, <1>4, <2>1, <2>2, MaxProperties
  <2> QED BY <2>3 DEF Tag, Byte
<1>5. memory' \in Memory
  <2>1. memory \in Memory
    BY InOrder
  <2> QED BY <2>1, <1>3, <1>4 DEF Memory, Offset
<1> QED BY <1>3, <1>5, FramesUnmoved DEF caller

-----------------------------------------------------------------------------
(* ContainerAlloc, with every way its pages can fail to come. *)
LEMMA AllocFrames ==
  ASSUME FramesIInv, LayoutIInv', status = "running", NEW v \in PtrVars, ~InUse(v),
         NEW n \in Nat \ {0}, ContainerAlloc(v, n)
  PROVE  FramesIInv'
<1>1. /\ containers_max \in Nat /\ pfns_max \in Nat \ {0} /\ pfns \in Seq(Frames)
      /\ Len(containers) \in Nat /\ Len(containers) <= containers_max
      /\ Len(pfns) \in Nat /\ Len(pfns) <= pfns_max
      /\ frames \subseteq Frames /\ table \in Tables /\ memory \in Memory
      /\ Consistent /\ Len(pfns) = TotalPages
      /\ IsInjective(pfns) /\ frames = Range(pfns)
      /\ table = Backed(pfns) /\ Len(pfns) <= RegionPages
      /\ LayoutIInv /\ FramesType /\ NoFrame \notin Frames
  BY InOrder, FramesAssumption
<1> DEFINE bytes == TypeSize[v] * n
           empty == containers = <<>>
           last  == Context(Len(containers))
           next    == IF empty THEN Base ELSE nextAddress(last)
           mapping == IF empty THEN Base ELSE nextMappingAddress(last)
           guest   == IF empty THEN 0 ELSE guestBytes(last)
           k       == PagesFor(bytes - guest)
<1>2. CASE ContextReallocFails(1) /\ Throw("no memory for contexts")
           /\ UNCHANGED <<bookkeeping, caller, os>>
  <2>1. /\ containers' = containers /\ containers_max' = containers_max
        /\ pfns' = pfns /\ pfns_max' = pfns_max
        /\ frames' = frames /\ table' = table /\ memory' = memory
        /\ status' = "no memory for contexts"
    BY ONLY <1>2 DEF bookkeeping, os, Throw
  <2>2. FramesType' /\ Len(containers') <= containers_max' /\ Len(pfns') <= pfns_max'
    BY ONLY <1>1, <2>1 DEF FramesType, Statuses
  <2> QED BY <2>1, <2>2, Threw
<1>3. CASE /\ AssertContainerContextStorage(1)
           /\ containers' = Append(containers,
                [reference |-> v, type_size |-> TypeSize[v], elements_num |-> n])
           /\ pointer' = [pointer EXCEPT ![v] = next]
           /\ \/ bytes <= guest /\ UNCHANGED <<pfns, pfns_max, os, status>>
              \/ bytes > guest /\ TakePages(mapping, k, v, n)
  <2>1. /\ Len(containers') = Len(containers) + 1 /\ PageAt(mapping) = TotalPages
        /\ bytes - guest \in Int /\ TotalPages' = TotalPages + k
    BY <1>1, <1>3, AppendedPages
  <2>2. containers_max' \in Nat /\ Len(containers') <= containers_max'
    <3>1. Len(containers) + 1 \in Nat
      BY <1>1
    <3>2. containers_max' = ContainersMaxFor(Len(containers) + 1)
      BY <1>3 DEF AssertContainerContextStorage
    <3> QED BY <3>1, <3>2, <2>1, <1>1, ContextsRoom
  <2>3. bytes - guest \in Int /\ k = (IF bytes <= guest THEN 0 ELSE k) /\ k \in Nat
    <3>1. PICK x \in Int : x = bytes - guest
      BY <2>1
    <3>2. PagesFor(x) \in Nat
      BY <3>1, PageSizeAssumption, PagesForCovers
    <3>3. bytes <= guest <=> x <= 0
      <4>1. bytes \in Int
        BY HyperContainerAssumption
      <4>2. guest \in Int
        <5>1. CASE empty
          BY <5>1
        <5>2. CASE ~empty
          <6>1. Len(containers) \in Indices
            BY <5>2, <1>1, LastContainer
          <6>2. guest = RoundUp(End(Len(containers))) - End(Len(containers))
            BY <5>2, ContextOf DEF guestBytes, nextMappingAddress
          <6>3. End(Len(containers)) \in Int
            BY <6>1, <1>1, Entrywise
          <6>4. RoundUp(End(Len(containers))) \in Int
            BY <6>3, PageBoundary
          <6> QED BY <6>2, <6>3, <6>4
        <5> QED BY <5>1, <5>2
      <4> HIDE DEF bytes, guest
      <4> QED BY <3>1, <4>1, <4>2
    <3>4. x <= 0 => PagesFor(x) = 0
      BY DEF PagesFor
    <3> HIDE DEF bytes, guest
    <3> QED BY <3>1, <3>2, <3>3, <3>4
  <2> HIDE DEF bytes, guest, mapping, next, k
  <2>4. CASE bytes <= guest /\ UNCHANGED <<pfns, pfns_max, os, status>>
    <3>1. /\ pfns' = pfns /\ pfns_max' = pfns_max /\ status' = status
          /\ frames' = frames /\ table' = table /\ memory' = memory
      BY ONLY <2>4 DEF os
    <3>2. FramesType' /\ Consistent'
      BY ONLY <1>1, <2>2, <3>1 DEF FramesType, Consistent, Backed
    <3>3. k = 0 /\ Len(pfns') = TotalPages'
      BY ONLY <1>1, <2>1, <2>3, <2>4, <3>1
    <3> QED BY <1>1, <2>2, <3>1, <3>2, <3>3, StillRunning
  <2>5. CASE HeapReAllocFails(k) /\ Throw("no memory for pfns")
             /\ UNCHANGED <<pfns, pfns_max, asked, os>>
    <3>1. /\ pfns' = pfns /\ pfns_max' = pfns_max /\ status' = "no memory for pfns"
          /\ frames' = frames /\ table' = table /\ memory' = memory
      BY ONLY <2>5 DEF os, Throw
    <3>2. FramesType' /\ Len(pfns') <= pfns_max'
      BY ONLY <1>1, <2>2, <3>1 DEF FramesType, Statuses
    <3> QED BY <2>2, <3>1, <3>2, Threw
  <2> DEFINE Outcome(got) ==
        /\ frames' = frames \cup Range(got)
        /\ \/ /\ Len(got) < k
              /\ Throw("out of frames")
              /\ UNCHANGED <<pfns, asked, table>>
           \/ /\ Len(got) = k /\ ~CanMap(table, frames', mapping, got)
              /\ Throw("cannot map")
              /\ UNCHANGED <<pfns, asked, table>>
           \/ /\ Len(got) = k /\ CanMap(table, frames', mapping, got)
              /\ table' = MapPages(table, mapping, got)
              /\ pfns' = pfns \o got
              /\ asked' = [asked EXCEPT ![v] = n]
              /\ UNCHANGED status
  <2>6. CASE /\ AssertPfnsStorage(k) /\ \E got \in Grants(k) : Outcome(got)
             /\ UNCHANGED memory
    <3>1. PICK got \in Grants(k) : Outcome(got)
      BY <2>6
    <3>2. PICK all : all = pfns \o got
      OBVIOUS
    <3>3. /\ got \in Seq(Frames) /\ IsInjective(got) /\ Len(got) \in Nat
          /\ Range(got) \subseteq Frames /\ frames \cap Range(got) = {}
      BY <2>3, Granted
    <3>4. /\ all \in Seq(Frames) /\ Len(all) = Len(pfns) + Len(got)
          /\ IsInjective(all) /\ Range(all) = frames'
          /\ CanMap(table, frames', mapping, got) <=> Len(all) <= RegionPages
          /\ MapPages(table, mapping, got) = Backed(all)
      <4>1. /\ pfns \in Seq(Frames) /\ IsInjective(pfns) /\ NoFrame \notin Frames
            /\ got \in Seq(Frames) /\ IsInjective(got)
            /\ Range(pfns) \cap Range(got) = {} /\ PageAt(mapping) = Len(pfns)
        BY <1>1, <2>1, <3>3
      <4>2. /\ pfns \o got \in Seq(Frames) /\ Len(pfns \o got) = Len(pfns) + Len(got)
            /\ IsInjective(pfns \o got) /\ Range(pfns \o got) = Range(pfns) \cup Range(got)
            /\ CanMap(Backed(pfns), Range(pfns) \cup Range(got), mapping, got)
                 <=> Len(pfns \o got) <= RegionPages
            /\ MapPages(Backed(pfns), mapping, got) = Backed(pfns \o got)
        BY ONLY <4>1, AppendAndMap
      <4>3. frames' = Range(pfns) \cup Range(got) /\ table = Backed(pfns)
        BY <1>1, <3>1
      <4> QED BY ONLY <3>2, <4>2, <4>3
    <3>5. pfns_max' \in Nat \ {0} /\ pfns_max' >= Len(pfns) + k
      <4>1. pfns_max' = PfnsMaxFor(Len(pfns) + k) /\ Len(pfns) + k \in Nat
        <5>1. Len(pfns) + k \in Nat
          BY ONLY <1>1, <2>3
        <5>2. pfns_max' = PfnsMaxFor(Len(pfns) + k)
          BY <2>6 DEF AssertPfnsStorage
        <5> QED BY <5>1, <5>2
      <4> QED BY <4>1, <1>1, PfnsRoom
    <3>6. frames' \subseteq Frames
      BY <3>1, <3>3, <1>1
    <3>7. memory' = memory
      BY <2>6
    <3>8. CASE /\ status' \in {"out of frames", "cannot map"}
               /\ status' = "cannot map" => Len(got) = k /\ ~CanMap(table, frames', mapping, got)
               /\ UNCHANGED <<pfns, table>>
      <4>1. FramesType' /\ Len(pfns') <= pfns_max'
        <5>1. FramesType'
          BY ONLY <1>1, <2>2, <3>5, <3>6, <3>7, <3>8 DEF FramesType, Statuses
        <5>2. Len(pfns') = Len(pfns)
          BY ONLY <3>8
        <5>3. PICK m \in Nat : m = pfns_max'
          BY <3>5
        <5>4. m >= Len(pfns)
          BY ONLY <1>1, <2>3, <3>5, <5>3
        <5> QED BY <5>1, <5>2, <5>3, <5>4
      <4>2. ASSUME status' = "cannot map" PROVE Cardinality(frames') > RegionPages
        <5>1. ~(Len(all) <= RegionPages) /\ Len(all) \in Int
          <6>1. ~CanMap(table, frames', mapping, got)
            BY ONLY <4>2, <3>8
          <6>2. Len(all) \in Int
            BY ONLY <3>4
          <6> QED BY <6>1, <6>2, <3>4
        <5>2. Cardinality(frames') = Len(all)
          BY <3>4, CountOnce
        <5> QED BY <5>1, <5>2, Sizes
      <4> QED BY <2>2, <3>8, <4>1, <4>2, Threw
    <3>9. CASE /\ Len(got) = k /\ CanMap(table, frames', mapping, got)
               /\ table' = MapPages(table, mapping, got)
               /\ pfns' = pfns \o got
               /\ UNCHANGED status
      <4>1. pfns' = all /\ table' = Backed(all) /\ Len(all) = Len(pfns) + k /\ Len(all) <= RegionPages
        BY <3>2, <3>4, <3>9
      <4>2. Consistent'
        BY ONLY <3>4, <4>1 DEF Consistent, Backed
      <4>3. table' \in Tables
        BY <3>4, <4>1, BackedType
      <4>4. FramesType'
        BY ONLY <1>1, <2>2, <3>4, <3>5, <3>6, <3>7, <3>9, <4>1, <4>3 DEF FramesType
      <4>5. Len(pfns') = TotalPages' /\ Len(pfns') <= pfns_max'
        BY ONLY <1>1, <2>1, <2>3, <3>5, <4>1
      <4> QED BY <2>2, <3>5, <3>9, <4>2, <4>4, <4>5, StillRunning
    <3> QED BY <3>1, <3>8, <3>9 DEF Throw
  <2> QED BY <1>3, <2>4, <2>5, <2>6 DEF TakePages
<1> QED BY <1>2, <1>3 DEF ContainerAlloc

(* ContainerRealloc, in either direction or within the same pages. *)
LEMMA ReallocFrames ==
  ASSUME FramesIInv, LayoutIInv', ReallocCounts # {}, status = "running",
         NEW v \in PtrVars, InUse(v), NEW n \in Nat \ {0}, ContainerRealloc(v, n)
  PROVE  FramesIInv'
<1>1. /\ containers_max \in Nat /\ pfns_max \in Nat \ {0} /\ pfns \in Seq(Frames)
      /\ Len(containers) \in Nat /\ Len(containers) <= containers_max
      /\ Len(pfns) \in Nat /\ Len(pfns) <= pfns_max
      /\ Len(pfns) = TotalPages /\ LayoutIInv /\ FramesType /\ memory \in Memory
  BY InOrder
<1>2. PICK i \in Indices : i = Position(v)
  BY <1>1, PositionFound
<1>3. PICK c : c = Context(i)
  OBVIOUS
<1>4. PICK R : R = RequestedPages(c, n)
  OBVIOUS
<1>5. PICK N \in Nat : N = nbrOfPages(c)
  BY <1>1, <1>3, ReallocatedPages
<1>6. R \in Nat /\ ElementsIn(c, R) >= n
  <2>1. /\ c.address = Address(i) /\ c.type_size = containers[i].type_size
        /\ c.elements_num = containers[i].elements_num
    BY <1>3, ContextOf
  <2>2. /\ c.address \in Int /\ c.type_size \in Nat \ {0} /\ c.elements_num \in Nat
        /\ PageSize % c.type_size = 0
    BY <2>1, <1>1, Entrywise
  <2> QED BY <2>2, <1>4, PageSizeAssumption, RequestSuffices
<1>7. ASSUME status' = "running", Resettle(i, R, (R - N) * PageSize),
             Len(pfns') = Len(pfns) + (R - N), Consistent', pfns' \in Seq(Frames),
             Len(pfns') <= pfns_max', pfns_max' \in Nat \ {0}, memory' \in Memory,
             containers_max' = containers_max
      PROVE  FramesIInv'
  <2>1. PICK by \in Int : by = (R - N) * PageSize
    BY <1>5, <1>6, Sizes
  <2>2. /\ Len(containers') = Len(containers)
        /\ TotalPages' = TotalPages + (R - nbrOfPages(Context(i)))
    <3>1. /\ by = (R - nbrOfPages(Context(i))) * PageSize
          /\ ElementsIn(Context(i), R) >= n /\ Resettle(i, R, by) /\ R \in Int
      BY <2>1, <1>3, <1>5, <1>6, <1>7
    <3> QED BY ONLY <1>1, ReallocCounts # {}, i \in Indices, n \in Nat \ {0}, by \in Int, <3>1, ResettledPages
  <2>3. Len(pfns') = TotalPages' /\ Len(containers') <= containers_max'
    BY <2>2, <1>1, <1>3, <1>5, <1>7
  <2>4. FramesType'
    <3>1. frames' \subseteq Frames /\ table' \in Tables
      <4>1. frames' = Range(pfns') /\ table' = Backed(pfns')
        BY <1>7 DEF Consistent, Backed
      <4> QED BY <4>1, <1>7, Once, BackedType
    <3> QED BY ONLY <3>1, <1>1, <1>7 DEF FramesType, Statuses
  <2> QED BY <2>3, <2>4, <1>7, StillRunning
<1>8. CASE R < N /\ Shrink(v, n, i, R)
  <2>1. /\ containers_max' = containers_max /\ pfns_max' = pfns_max
        /\ pfns' \in Seq(Frames) /\ memory' \in Memory
        /\ \/ /\ status' = "zero pages mapped" /\ UNCHANGED containers
              /\ Len(pfns') = Len(pfns)
              /\ frames' \subseteq Frames /\ table' \in Tables
           \/ /\ status' = "running"
              /\ Resettle(i, R, (R - N) * PageSize)
              /\ Len(pfns') = Len(pfns) + (R - N)
              /\ Consistent'
    BY <1>3, <1>4, <1>5, <1>8, ShrinkOutcome
  <2>2. CASE /\ status' = "zero pages mapped" /\ UNCHANGED containers
             /\ Len(pfns') = Len(pfns)
             /\ frames' \subseteq Frames /\ table' \in Tables
    <3>1. FramesType' /\ Len(containers') <= containers_max' /\ Len(pfns') <= pfns_max'
      BY ONLY <1>1, <2>1, <2>2 DEF FramesType, Statuses
    <3> QED BY <2>2, <3>1, Threw
  <2>3. CASE /\ status' = "running"
             /\ Resettle(i, R, (R - N) * PageSize)
             /\ Len(pfns') = Len(pfns) + (R - N)
             /\ Consistent'
    <3>1. Len(pfns') <= pfns_max'
      BY ONLY <1>1, <1>5, <1>6, <1>8, <2>1, <2>3
    <3> QED BY <1>1, <1>7, <2>1, <2>3, <3>1
  <2> QED BY <2>1, <2>2, <2>3
<1>9. CASE R > N /\ Grow(v, n, i, R)
  <2>1. /\ containers_max' = containers_max /\ pfns_max' \in Nat \ {0}
        /\ pfns' \in Seq(Frames) /\ Len(pfns') <= pfns_max' /\ memory' \in Memory
        /\ \/ /\ status' \in {"no memory for pfns", "out of frames", "cannot map"}
              /\ UNCHANGED containers
              /\ frames' \subseteq Frames /\ table' \in Tables
              /\ status' = "cannot map" => Cardinality(frames') > RegionPages
           \/ /\ status' = "running"
              /\ Resettle(i, R, (R - N) * PageSize)
              /\ Len(pfns') = Len(pfns) + (R - N)
              /\ Consistent'
    <3>1. R = RequestedPages(Context(i), n) /\ R > nbrOfPages(Context(i)) /\ Grow(v, n, i, R)
      BY ONLY <1>3, <1>4, <1>5, <1>9
    <3>2. N = nbrOfPages(Context(i))
      BY ONLY <1>3, <1>5
    <3> QED BY ONLY FramesIInv, status = "running", n \in Nat \ {0}, i \in Indices,
                    <3>1, <3>2, GrowOutcome
  <2>2. CASE /\ status' \in {"no memory for pfns", "out of frames", "cannot map"}
             /\ UNCHANGED containers
             /\ frames' \subseteq Frames /\ table' \in Tables
             /\ status' = "cannot map" => Cardinality(frames') > RegionPages
    <3>1. FramesType' /\ Len(containers') <= containers_max'
      BY ONLY <1>1, <2>1, <2>2 DEF FramesType, Statuses
    <3> QED BY <2>1, <2>2, <3>1, Threw
  <2> QED BY <2>1, <2>2, <1>7
<1>10. CASE R = N /\ UNCHANGED <<bookkeeping, pointer, os, status>>
  BY <1>1, <1>10, FramesUnmoved DEF os
<1> QED BY <1>2, <1>3, <1>4, <1>5, <1>8, <1>9, <1>10 DEF ContainerRealloc

-----------------------------------------------------------------------------
(* Every step keeps the invariant: one step of the proof for each call. *)
LEMMA FramesStep == FramesIInv /\ [Next]_vars => FramesIInv'
<1> SUFFICES ASSUME FramesIInv, [Next]_vars PROVE FramesIInv'
  OBVIOUS
<1>0. LayoutIInv'
  BY LayoutStep, InOrder
<1>1. ASSUME NEW v \in PtrVars, NEW n \in AllocCounts, vcmalloc(v, n) PROVE FramesIInv'
  <2>1. status = "running" /\ ~InUse(v) /\ ContainerAlloc(v, n) /\ n \in Nat \ {0}
    BY <1>1, HyperContainerAssumption DEF vcmalloc, Running
  <2> QED BY <1>0, <2>1, AllocFrames
<1>2. ASSUME NEW v \in PtrVars, NEW n \in ReallocCounts, vcrealloc(v, n) PROVE FramesIInv'
  <2>1. status = "running" /\ InUse(v) /\ ContainerRealloc(v, n) /\ n \in Nat \ {0}
    BY <1>2, HyperContainerAssumption DEF vcrealloc, Running
  <2> QED BY <1>0, <2>1, ReallocFrames
<1>3. ASSUME NEW v \in PtrVars, Store(v) PROVE FramesIInv'
  BY <1>0, <1>3, StoreFrames DEF Store, Running
<1>4. ASSUME NEW j \in ExtendCounts, Extend(j) PROVE FramesIInv'
  BY <1>0, <1>4, ExtendFrames, HyperContainerAssumption DEF Extend, Running
<1>5. CASE vccfree
  BY <1>0, <1>5, FreeFrames DEF vccfree, Running
<1>6. CASE UNCHANGED vars
  <2>1. UNCHANGED <<bookkeeping, pointer, frames, table, status>> /\ memory' = memory
    BY <1>6 DEF vars, caller, os
  <2>2. memory' \in Memory
    BY <2>1, InOrder
  <2> QED BY <1>0, <2>1, <2>2, FramesUnmoved
<1> QED BY <1>1, <1>2, <1>3, <1>4, <1>5, <1>6 DEF Next, Ended

(* The invariant holds in every reachable state. *)
LEMMA FramesIInvHolds == Spec => []FramesIInv
BY FramesInit, FramesStep, PTL DEF Spec

(* The pages of all the containers, as pfns_num_ counts them. *)
LEMMA PagesOfAll ==
  ASSUME LayoutIInv
  PROVE  TotalPages = IF containers = <<>> THEN 0
                      ELSE getPFNsPosition(Len(containers)) + nbrOfPages(Context(Len(containers)))
<1>1. CASE containers # <<>>
  <2>1. Len(containers) \in Indices
    BY <1>1, LastContainer
  <2>2. /\ FirstPage(Len(containers)) \in Int /\ PastPage(Len(containers)) \in Int
        /\ nbrOfPages(Context(Len(containers))) =
             PastPage(Len(containers)) - FirstPage(Len(containers))
    BY <2>1, PagesOfContainer
  <2>3. getPFNsPosition(Len(containers)) = FirstPage(Len(containers))
    BY <2>1, PositionOfFrames
  <2> QED BY <1>1, <2>2, <2>3 DEF TotalPages
<1> QED BY <1>1 DEF TotalPages

(* The invariant implies the properties of the runs. *)
LEMMA FramesIInvImplies ==
  ASSUME FramesIInv
  PROVE  TypeOK /\ FramesInOrder /\ OnlyResourcesRunOut /\ WithinStorage /\ FreedLeavesNothing
<1>1. TypeOK
  <2>1. LayoutType /\ FramesType
    BY DEF FramesIInv, LayoutIInv
  <2> QED BY <2>1 DEF TypeOK, LayoutType, ContextType, FramesType, Tables, Memory, Offset, Byte
<1>2. FramesInOrder
  <2> SUFFICES ASSUME status = "running"
               PROVE  /\ Len(pfns) = TotalPages /\ IsInjective(pfns) /\ frames = Range(pfns)
                      /\ table = MapPages([p \in Pages |-> NoFrame], Base, pfns)
    BY InOrder, PagesOfAll DEF FramesInOrder
  <2>1. table = MapPages([p \in Pages |-> NoFrame], Base, pfns)
    BY InOrder, BackedAsMapped
  <2> QED BY <2>1, InOrder
<1> QED BY <1>1, <1>2 DEF FramesIInv

(* The type of every variable of a hypercontainer, whatever calls came *)
(* before and however the last one left the process. *)
THEOREM TypesAlwaysRight == Spec => []TypeOK
BY FramesIInvHolds, FramesIInvImplies, PTL

(* The page frame array names the frames of the process once each and in   *)
(* the order of the pages they back, and pfns_num_ counts the pages of all *)
(* containers, after any number of allocations and of reallocations that   *)
(* close and open gaps in it (vcmalloc.h:395-423, 437-467).                *)
THEOREM FramesAlwaysInOrder == Spec => []FramesInOrder
BY FramesIInvHolds, FramesIInvImplies, PTL

(* "couldn't free remaining frames" (vcmalloc.h:401) and a fault in a      *)
(* memmove or in the caller's store never occur, and the OS refuses a      *)
(* mapping only when the region has fewer pages than the process frames.   *)
THEOREM OnlyResourcesEverRunOut == Spec => []OnlyResourcesRunOut
BY FramesIInvHolds, FramesIInvImplies, PTL

(* The two arrays never outgrow what AssertPfnsStorage and                 *)
(* AssertContainerContextStorage provided (vcmalloc.h:138-170), also in    *)
(* a call that throws half way.                                            *)
THEOREM AlwaysWithinStorage == Spec => []WithinStorage
BY FramesIInvHolds, FramesIInvImplies, PTL

(* HyperContainerFree returns every frame that any call before it took     *)
(* (vcmalloc.h:732-755).                                                   *)
THEOREM NothingLeftWhenFreed == Spec => []FreedLeavesNothing
BY FramesIInvHolds, FramesIInvImplies, PTL

-----------------------------------------------------------------------------
(* A container owns the pages from the boundary at or after its first byte *)
(* to the one at or after its end.                                         *)
PagesCounted ==
  \A i \in Indices : nbrOfPages(Context(i)) = PageCeil(End(i)) - PageCeil(Address(i))

LEMMA PagesCountedHolds == FramesIInv => PagesCounted
BY InOrder, PagesOfContainer DEF PagesCounted, FirstPage, PastPage

LEMMA PagesCountedNext == FramesIInv' => PagesCounted'
BY PagesCountedHolds, PTL

(* A call moves no container. *)
InPlace ==
  \A j \in 1..Len(containers) :
    pointer'[containers[j].reference] = pointer[containers[j].reference]

(* What a call may do to the addresses of the containers there are. *)
SuffixMoves ==
  status' = "running" =>
    /\ \A i \in 1..Len(containers), n \in ReallocCounts :
         vcrealloc(containers[i].reference, n) => MovesBehind(i)
    /\ (\A v \in PtrVars, n \in ReallocCounts : ~vcrealloc(v, n)) => InPlace

(* A new container moves no other. *)
LEMMA AllocMoves ==
  ASSUME LayoutIInv, status = "running", NEW v \in PtrVars, ~InUse(v), NEW n, ContainerAlloc(v, n)
  PROVE  InPlace
<1>1. CASE UNCHANGED pointer
  BY <1>1 DEF InPlace
<1>2. CASE pointer' = [pointer EXCEPT ![v] =
             IF containers = <<>> THEN Base ELSE nextAddress(Context(Len(containers)))]
  <2>1. \A j \in 1..Len(containers) : containers[j].reference \in PtrVars \ {v}
    BY Entrywise DEF InUse, Indices
  <2>2. pointer \in [PtrVars -> Nat]
    BY DEF LayoutIInv, LayoutType
  <2> QED BY <1>2, <2>1, <2>2 DEF InPlace
<1> QED BY <1>1, <1>2, ContainerAllocOutcome

(* The addresses and ends that ResettleMoves gives, on their own. *)
LEMMA Resettled ==
  ASSUME LayoutIInv, ReallocCounts # {},
         NEW i \in Indices, NEW n \in Nat \ {0}, NEW pages \in Int,
         NEW by \in Int, by = (pages - nbrOfPages(Context(i))) * PageSize,
         ElementsIn(Context(i), pages) >= n,
         Resettle(i, pages, by)
  PROVE  /\ Len(containers') = Len(containers)
         /\ \A j \in Indices :
              /\ containers'[j].reference = containers[j].reference
              /\ Address(j)' = IF j > i THEN Address(j) + by ELSE Address(j)
              /\ End(j)' = IF j >= i THEN End(j) + by ELSE End(j)
<1>1. Len(containers') = Len(containers)
  BY ResettleMoves
<1>2. \A j \in Indices : containers'[j].reference = containers[j].reference
  BY ResettleMoves
<1>3. \A j \in Indices : Address(j)' = IF j > i THEN Address(j) + by ELSE Address(j)
  BY ResettleMoves
<1>4. \A j \in Indices : End(j)' = IF j >= i THEN End(j) + by ELSE End(j)
  BY ResettleMoves
<1> QED BY <1>1, <1>2, <1>3, <1>4

(* Once container k has other pages, those behind it have moved by the     *)
(* difference.                                                             *)
LEMMA ResettledMoves ==
  ASSUME LayoutIInv, PagesCounted', ReallocCounts # {},
         NEW k \in Indices, NEW n \in Nat \ {0}, NEW pages \in Int,
         NEW by \in Int, by = (pages - nbrOfPages(Context(k))) * PageSize,
         ElementsIn(Context(k), pages) >= n,
         Resettle(k, pages, by)
  PROVE  MovesBehind(k)
<1>1. PICK m \in Nat : m = Len(containers) /\ Indices = 1..m
  BY Entrywise DEF Indices
<1>2. /\ Len(containers') = m
      /\ \A j \in 1..m : /\ containers'[j].reference = containers[j].reference
                         /\ Address(j)' = IF j > k THEN Address(j) + by ELSE Address(j)
                         /\ End(j)' = IF j >= k THEN End(j) + by ELSE End(j)
  <2>1. Len(containers') = Len(containers)
    BY Resettled
  <2>2. \A j \in Indices :
          /\ containers'[j].reference = containers[j].reference
          /\ Address(j)' = IF j > k THEN Address(j) + by ELSE Address(j)
          /\ End(j)' = IF j >= k THEN End(j) + by ELSE End(j)
    BY Resettled
  <2> QED BY <1>1, <2>1, <2>2
<1>3. k \in 1..m /\ Indices' = 1..m
  BY <1>1, <1>2 DEF Indices
<1>4. PICK N \in Int, d \in Int : N = nbrOfPages(Context(k)) /\ d = pages - N
  BY PagesOfContainer
<1>5. nbrOfPages(Context(k))' = pages
  <2>1. PICK a \in Nat, e \in Nat : a = Address(k) /\ e = End(k)
    BY Entrywise
  <2>2. Address(k)' = a /\ End(k)' = e + d * PageSize
    BY <1>2, <1>3, <1>4, <2>1
  <2>3. nbrOfPages(Context(k))' = PageCeil(End(k)') - PageCeil(Address(k)')
    BY <1>3 DEF PagesCounted, PageCeil, RoundUp
  <2>4. N = PageCeil(e) - PageCeil(a)
    BY <1>4, <2>1, PagesOfContainer DEF FirstPage, PastPage
  <2>5. PageCeil(e + d * PageSize) = PageCeil(e) + d
    BY PagesFurther
  <2>6. PageCeil(e) \in Int /\ PageCeil(a) \in Int
    BY PageBoundary
  <2> QED BY ONLY <1>4, <2>2, <2>3, <2>4, <2>5, <2>6, pages \in Int
<1>6. ASSUME NEW j \in 1..m
      PROVE  pointer'[containers[j].reference] =
               pointer[containers[j].reference] + (IF j <= k THEN 0 ELSE by)
  <2>1. Address(j) \in Nat /\ j \in Nat /\ k \in Nat
    BY <1>1, <1>3, Entrywise
  <2>2. /\ Address(j) = pointer[containers[j].reference]
        /\ Address(j)' = pointer'[containers[j].reference]
    BY <1>2 DEF Address
  <2> QED BY <1>2, <2>1, <2>2
<1>7. by = (nbrOfPages(Context(k))' - nbrOfPages(Context(k))) * PageSize
  BY <1>5
<1> QED BY <1>1, <1>6, <1>7 DEF MovesBehind

(* A reallocation moves what is behind its container by the pages it gains *)
(* or loses.                                                               *)
LEMMA ReallocMoves ==
  ASSUME FramesIInv, FramesIInv', ReallocCounts # {}, status = "running", status' = "running",
         NEW k \in 1..Len(containers), NEW n \in Nat \ {0},
         ContainerRealloc(containers[k].reference, n)
  PROVE  MovesBehind(k)
<1>1. LayoutIInv /\ PagesCounted'
  BY InOrder, PagesCountedNext
<1>2. PICK v \in PtrVars : v = containers[k].reference /\ InUse(v)
  BY <1>1, Entrywise DEF Indices, InUse
<1>3. k \in Indices /\ k = Position(v)
  BY <1>1, <1>2, PositionFound DEF Indices, LayoutIInv, OwnVariables
<1>4. PICK c, R : c = Context(k) /\ R = RequestedPages(c, n)
  OBVIOUS
<1>5. PICK N \in Nat : N = nbrOfPages(c)
  BY <1>1, <1>3, <1>4, ReallocatedPages
<1>6. R \in Nat /\ ElementsIn(c, R) >= n
  <2>1. /\ c.address = Address(k) /\ c.type_size = containers[k].type_size
        /\ c.elements_num = containers[k].elements_num
    BY <1>4, ContextOf
  <2>2. /\ c.address \in Int /\ c.type_size \in Nat \ {0} /\ c.elements_num \in Nat
        /\ PageSize % c.type_size = 0
    BY <2>1, <1>1, <1>3, Entrywise
  <2> QED BY <2>2, <1>4, PageSizeAssumption, RequestSuffices
<1>7. CASE Resettle(k, R, (R - N) * PageSize)
  <2>1. PICK by \in Int : by = (R - N) * PageSize
    BY <1>5, <1>6, Sizes
  <2>2. /\ by = (R - nbrOfPages(Context(k))) * PageSize /\ R \in Int
        /\ ElementsIn(Context(k), R) >= n /\ Resettle(k, R, by)
    BY <1>4, <1>5, <1>6, <1>7, <2>1
  <2> QED BY ONLY <1>1, <1>3, <2>1, <2>2, ReallocCounts # {}, n \in Nat \ {0}, ResettledMoves
<1>8. CASE R < N /\ Shrink(v, n, k, R)
  BY <1>3, <1>4, <1>5, <1>7, <1>8, ShrinkOutcome
<1>9. CASE R > N /\ Grow(v, n, k, R)
  BY <1>3, <1>4, <1>5, <1>7, <1>9, GrowOutcome
<1>10. CASE UNCHANGED bookkeeping /\ UNCHANGED pointer
  <2>1. nbrOfPages(Context(k))' = N
    BY <1>4, <1>5, <1>10 DEF Context, bookkeeping
  <2>2. \A j \in 1..Len(containers) :
          pointer[containers[j].reference] \in Nat
    BY <1>1, Entrywise DEF Indices, Address
  <2>3. (N - N) * PageSize = 0
    BY <1>5, Sizes
  <2>4. (nbrOfPages(Context(k))' - nbrOfPages(Context(k))) * PageSize = 0
    BY <1>4, <1>5, <2>1, <2>3
  <2> QED BY <1>10, <2>2, <2>4 DEF MovesBehind
<1> QED BY <1>2, <1>3, <1>4, <1>5, <1>8, <1>9, <1>10 DEF ContainerRealloc

(* Every step moves a suffix. *)
LEMMA SuffixStep == FramesIInv /\ FramesIInv' /\ [Next]_vars => [SuffixMoves]_vars
<1> SUFFICES ASSUME FramesIInv, FramesIInv', [Next]_vars, status' = "running", ~UNCHANGED vars
             PROVE  SuffixMoves
  BY DEF SuffixMoves
<1>0. LayoutIInv
  BY InOrder
<1>1. ASSUME NEW i \in 1..Len(containers), NEW n \in ReallocCounts,
             vcrealloc(containers[i].reference, n)
      PROVE  MovesBehind(i)
  <2>1. status = "running" /\ ContainerRealloc(containers[i].reference, n) /\ n \in Nat \ {0}
    BY <1>1, HyperContainerAssumption DEF vcrealloc, Running
  <2> QED BY <2>1, ReallocMoves
<1>2. ASSUME \A v \in PtrVars, n \in ReallocCounts : ~vcrealloc(v, n) PROVE InPlace
  <2>1. CASE UNCHANGED pointer
    BY <2>1 DEF InPlace
  <2>2. ASSUME NEW v \in PtrVars, NEW n \in AllocCounts, vcmalloc(v, n) PROVE InPlace
    BY <1>0, <2>2, AllocMoves DEF vcmalloc, Running
  <2>3. ASSUME NEW v \in PtrVars, Store(v) PROVE UNCHANGED pointer
    BY <2>3 DEF Store, StoreThrough, caller
  <2>4. ASSUME NEW j \in ExtendCounts, Extend(j) PROVE UNCHANGED pointer
    BY <2>4 DEF Extend, ExtendCcStorage, ExtendPfnsStorage, caller
  <2>5. vccfree \/ UNCHANGED vars => UNCHANGED pointer
    BY DEF vccfree, HyperContainerFree, vars, caller
  <2> QED BY <1>2, <2>1, <2>2, <2>3, <2>4, <2>5 DEF Next, Ended
<1> QED BY <1>1, <1>2 DEF SuffixMoves

(* A reallocation moves the containers behind the one it is about by the   *)
(* pages this gains or loses, and neither it nor those before it; no other *)
(* call moves a container (vcmalloc.h:418-423, 462-467): what is in a page *)
(* stays at its offset.                                                    *)
THEOREM SuffixAlwaysMovesByPages == Spec => SuffixMovesByPages
<1>1. Spec => [][SuffixMoves]_vars
  BY FramesIInvHolds, SuffixStep, PTL DEF Spec
<1> QED BY <1>1 DEF SuffixMovesByPages, SuffixMoves, InPlace

-----------------------------------------------------------------------------
(* The bytes. *)
(* The byte at an address, when the frames of s back the pages in order. *)
Reads(m, s, a) == m[s[PageAt(a) + 1]][a % PageSize]

(* The region starts at the start of a page. *)
LEMMA OffsetInRegion ==
  ASSUME NEW a \in Int
  PROVE  (a - Base) % PageSize = a % PageSize
<1>1. PICK b \in Nat : Base = PageSize * b
  BY BaseMultiple
<1>2. -b \in Int /\ PageSize * b = b * PageSize
  BY <1>1, Sizes
<1>3. a - Base = a + (-b) * PageSize
  BY <1>1, <1>2, Sizes
<1>4. (a + (-b) * PageSize) % PageSize = a % PageSize
  BY <1>2, SameOffset
<1> QED BY <1>3, <1>4

(* Addresses are page and offset. *)
LEMMA PageAndOffset ==
  ASSUME NEW x \in Int
  PROVE  /\ PageAt(x) \in Int /\ x % PageSize \in Offset
         /\ x = Base + PageSize * PageAt(x) + (x % PageSize)
<1>1. (x - Base) % PageSize = x % PageSize
  BY OffsetInRegion
<1> QED BY <1>1, PageOf DEF Offset

(* Two addresses in one page, at one offset, are one. *)
LEMMA SameByte ==
  ASSUME NEW x \in Int, NEW y \in Int, PageAt(x) = PageAt(y), x % PageSize = y % PageSize
  PROVE  x = y
<1>1. x = Base + PageSize * PageAt(x) + (x % PageSize)
  BY PageAndOffset
<1>2. y = Base + PageSize * PageAt(y) + (y % PageSize)
  BY PageAndOffset
<1> QED BY ONLY <1>1, <1>2, PageAt(x) = PageAt(y), x % PageSize = y % PageSize

(* In one page, order is the order of offsets. *)
LEMMA EarlierOffset ==
  ASSUME NEW x \in Int, NEW y \in Int, PageAt(x) = PageAt(y)
  PROVE  x < y <=> x % PageSize < y % PageSize
<1>1. PICK p \in Int : p = PageSize * PageAt(x)
  BY PageAndOffset, Sizes
<1>2. PICK o \in Int : o = x % PageSize
  BY PageAndOffset DEF Offset
<1>3. PICK w \in Int : w = y % PageSize
  BY PageAndOffset DEF Offset
<1>4. x = Base + p + o
  BY PageAndOffset, <1>1, <1>2
<1>5. y = Base + p + w
  BY PageAndOffset, <1>1, <1>3
<1>6. x < y <=> o < w
  BY <1>4, <1>5, Sizes
<1> QED BY <1>2, <1>3, <1>6

(* Where the bytes of the next containers begin in the last page of one:   *)
(* no guest bytes are there exactly when the container ends with the page. *)
LEMMA GuestOffset ==
  ASSUME NEW e \in Int, RoundUp(e) # e
  PROVE  /\ PageAt(e) = PageCeil(e) - 1
         /\ RoundUp(e) - e = PageSize - (e % PageSize)
<1>1. PICK q \in Int, r \in Int : /\ q = PageCeil(e) /\ r = RoundUp(e)
                                 /\ r = Base + PageSize * q /\ e <= r
  BY PageBoundary
<1>2. e <= e /\ e < r
  BY <1>1
<1>3. PageAt(e) = q - 1
  BY <1>1, <1>2, PageOfGuest
<1>4. PICK o \in Int : o = e % PageSize
  BY PageAndOffset DEF Offset
<1>5. e = Base + PageSize * (q - 1) + o
  BY PageAndOffset, <1>3, <1>4
<1>6. PageSize * (q - 1) = PageSize * q - PageSize /\ PageSize * q \in Int
  BY Sizes
<1>7. r - e = PageSize - o
  BY <1>1, <1>5, <1>6, Sizes
<1> QED BY <1>1, <1>3, <1>4, <1>7

(* Copying the guest bytes of container c, which ends at e, by d pages:    *)
(* they are in one frame, from the offset of e to the end of the page, and *)
(* come to the same offsets of another.                                    *)
CopiesGuest(m, t, c, e, d) ==
  \A f \in Frames, o \in Offset :
    CopyGuest(m, t, c, d * PageSize)[f][o] =
      IF RoundUp(e) # e /\ f = t[PageAt(e + d * PageSize)] /\ o >= e % PageSize
      THEN m[t[PageAt(e)]][o] ELSE m[f][o]

LEMMA GuestCopied ==
  ASSUME NEW m \in Memory, NEW t, NEW c, NEW d \in Int, NEW e \in Int,
         e = nextAddress(c), guestBytes(c) = RoundUp(e) - e
  PROVE  CopiesGuest(m, t, c, e, d)
<1> SUFFICES ASSUME NEW f \in Frames, NEW o \in Offset
             PROVE  CopyGuest(m, t, c, d * PageSize)[f][o] =
                      IF RoundUp(e) # e /\ f = t[PageAt(e + d * PageSize)] /\ o >= e % PageSize
                      THEN m[t[PageAt(e)]][o] ELSE m[f][o]
  BY DEF CopiesGuest
<1>1. PICK g : g = guestBytes(c)
  OBVIOUS
<1>2. PICK w \in Offset : w = e % PageSize
  BY PageAndOffset
<1>3. PICK y \in Int : y = e + d * PageSize
  BY Sizes
<1>4. y % PageSize = w
  BY <1>2, <1>3, SameOffset
<1>5. PICK r \in Int : r = RoundUp(e)
  BY PageBoundary
<1>6. g = r - e /\ g \in Int
  BY <1>1, <1>5
<1>7. g = 0 <=> r = e
  BY <1>6
<1>8. r # e => g = PageSize - w
  BY <1>2, <1>5, <1>6, GuestOffset
<1>9. CopyGuest(m, t, c, d * PageSize) = Memmove(m, t, y, e, g)
  BY <1>1, <1>3 DEF CopyGuest
<1> DEFINE moved(h) == [k \in 0..PageSize - 1 |->
                          IF k - w \in 0..g - 1 THEN m[t[PageAt(e)]][w + k - w] ELSE m[h][k]]
<1>10. g # 0 => Memmove(m, t, y, e, g) = [m EXCEPT ![t[PageAt(y)]] = moved(t[PageAt(y)])]
  BY <1>2, <1>4 DEF Memmove
<1>11. CASE g = 0
  BY <1>5, <1>7, <1>9, <1>11 DEF Memmove
<1>12. CASE g # 0
  <2>1. o - w \in 0..g - 1 <=> o >= w
    BY <1>7, <1>8, <1>12, Sizes DEF Offset
  <2>2. w + o - w = o /\ o \in 0..PageSize - 1
    BY <1>2, Sizes DEF Offset
  <2>3. \A h : moved(h)[o] = IF o >= w THEN m[t[PageAt(e)]][o] ELSE m[h][o]
    BY <2>1, <2>2
  <2> HIDE DEF moved
  <2>4. DOMAIN m = Frames
    BY DEF Memory
  <2>5. CopyGuest(m, t, c, d * PageSize)[f] =
          IF f = t[PageAt(y)] THEN moved(f) ELSE m[f]
    BY <2>4, <1>9, <1>10, <1>12
  <2> QED BY <2>3, <2>5, <1>2, <1>3, <1>5, <1>7, <1>12
<1> QED BY <1>11, <1>12

-----------------------------------------------------------------------------
(* What a reallocation by d pages of a container that ends at e, in the    *)
(* page before page q, leaves of the page frame array s: r has the entries *)
(* of the pages up to the end, and all behind it, d entries further.       *)
Spliced(s, r, q, d) ==
  /\ \A k \in 1..q : k <= q + d => r[k] = s[k]
  /\ \A k \in q + 1..Len(s) : r[k + d] = s[k]

(* And of the memory m: the frames named by r are as they were, but that   *)
(* the page of the new end has got the guest bytes.                        *)
GuestsFollow(m, n, s, r, q, d, e) ==
  \A k \in 1..Len(r), o \in Offset :
    n[r[k]][o] = IF RoundUp(e) # e /\ k = q + d /\ o >= e % PageSize THEN m[s[q]][o] ELSE m[r[k]][o]

(* The bytes before the end, as far as the end does not move before them,  *)
(* stay; those behind it are found d pages further.                        *)
LEMMA BytesFollow ==
  ASSUME NEW s \in Seq(Frames), NEW r \in Seq(Frames), NEW d \in Int, Len(r) = Len(s) + d,
         NEW e \in Int, NEW q \in Nat \ {0}, q = PageCeil(e), q <= Len(s), q + d >= 1,
         Spliced(s, r, q, d),
         NEW m, NEW n, GuestsFollow(m, n, s, r, q, d, e),
         NEW x \in Int, Base <= x
  PROVE  /\ x < e /\ x < e + d * PageSize => Reads(n, r, x) = Reads(m, s, x)
         /\ x >= e /\ PageAt(x) < Len(s) => Reads(n, r, x + d * PageSize) = Reads(m, s, x)
<1>1. PICK p \in Int, o \in Offset : p = PageAt(x) /\ o = x % PageSize
  BY PageAndOffset
<1>2. PICK w \in Offset : w = e % PageSize
  BY PageAndOffset
<1>3. PICK l \in Nat : l = Len(s)
  OBVIOUS
<1>4. PICK y \in Int : y = e + d * PageSize
  BY Sizes
<1>5. PageCeil(y) = q + d /\ PageAt(y) = PageAt(e) + d /\ y % PageSize = w
  BY <1>2, <1>4, PagesFurther, SameOffset
<1>6. /\ \A k \in 1..q : k <= q + d => r[k] = s[k]
      /\ \A k \in q + 1..l : r[k + d] = s[k]
  BY <1>3 DEF Spliced
<1>7. \A k \in 1..l + d :
        n[r[k]][o] = IF RoundUp(e) # e /\ k = q + d /\ o >= w THEN m[s[q]][o] ELSE m[r[k]][o]
  BY <1>1, <1>2, <1>3 DEF GuestsFollow
<1>8. RoundUp(e) # e => PageAt(e) = q - 1
  BY GuestOffset
<1>9. ASSUME x < e, x < e + d * PageSize PROVE Reads(n, r, x) = Reads(m, s, x)
  <2>1. 0 <= p /\ p < q /\ p < q + d
    BY <1>1, <1>4, <1>5, <1>9, PageBefore
  <2>2. p + 1 \in 1..q /\ p + 1 <= q + d /\ p + 1 \in 1..l + d
    BY <2>1, <1>3
  <2>3. r[p + 1] = s[p + 1]
    BY <2>2, <1>6
  <2>4. ~(RoundUp(e) # e /\ p + 1 = q + d /\ o >= w)
    <3> SUFFICES ASSUME RoundUp(e) # e, p + 1 = q + d, o >= w PROVE FALSE
      OBVIOUS
    <3>1. PageAt(y) = PageAt(x)
      <4>1. PageAt(e) = q - 1
        BY <1>8
      <4>2. PageAt(y) = PageAt(e) + d
        BY <1>5
      <4>3. p + 1 = q + d
        OBVIOUS
      <4>4. p = q - 1 + d
        BY ONLY <4>3, p \in Int, q \in Nat \ {0}, d \in Int
      <4> QED BY ONLY <4>1, <4>2, <4>4, <1>1
    <3>2. o < w
      BY <3>1, <1>1, <1>4, <1>5, <1>9, EarlierOffset
    <3>3. o \in Int /\ w \in Int
      BY DEF Offset
    <3> QED BY <3>2, <3>3
  <2>5. n[r[p + 1]][o] = m[r[p + 1]][o]
    BY <2>2, <2>4, <1>7
  <2> QED BY <2>3, <2>5, <1>1 DEF Reads
<1>10. ASSUME x >= e, PageAt(x) < Len(s) PROVE Reads(n, r, x + d * PageSize) = Reads(m, s, x)
  <2>1. PICK z \in Int : z = x + d * PageSize
    BY Sizes
  <2>2. PageAt(z) = p + d /\ z % PageSize = o
    BY <2>1, <1>1, PagesFurther, SameOffset
  <2>3. p >= q - 1
    <3>1. PageCeil(e) <= PageCeil(x)
      BY <1>10, CeilMonotone
    <3>2. PageCeil(x) = PageAt(x) \/ PageCeil(x) = PageAt(x) + 1
      <4>1. CASE RoundUp(x) = x
        BY <4>1, PageOfBoundary
      <4>2. CASE RoundUp(x) # x
        BY <4>2, GuestOffset, PageBoundary
      <4> QED BY <4>1, <4>2
    <3>3. PICK h \in Int : h = PageCeil(x)
      BY PageBoundary
    <3>4. q <= h /\ (h = p \/ h = p + 1)
      BY <3>1, <3>2, <3>3, <1>1
    <3>5. p \in Int /\ q \in Int /\ h \in Int
      OBVIOUS
    <3> QED BY ONLY <3>4, <3>5
  <2>4. CASE p >= q
    <3>0. p < l /\ q <= p /\ q + d >= 1
      BY <2>4, <1>1, <1>3, <1>10
    <3>1. p + 1 \in q + 1..l /\ p + d + 1 \in 1..l + d /\ p + d + 1 # q + d /\ p + 1 + d = p + d + 1
      BY ONLY <3>0, p \in Int, l \in Nat, q \in Nat \ {0}, d \in Int
    <3>2. r[p + d + 1] = s[p + 1]
      BY <3>1, <1>6
    <3>3. n[r[p + d + 1]][o] = m[r[p + d + 1]][o]
      BY <3>1, <1>7
    <3> QED BY <3>2, <3>3, <2>1, <2>2, <1>1 DEF Reads
  <2>5. CASE p = q - 1
    <3>1. RoundUp(e) # e
      <4>1. RoundUp(e) = e => PageAt(e) = q
        BY PageOfBoundary
      <4>2. e = x \/ e < x
        BY <1>10
      <4>3. RoundUp(e) = e => PageCeil(e) <= PageAt(x)
        <5> SUFFICES ASSUME RoundUp(e) = e PROVE q <= PageAt(x)
          OBVIOUS
        <5>1. x = Base + PageSize * p + o /\ e = Base + PageSize * q
          BY PageAndOffset, PageBoundary, <1>1
        <5>2. PageSize * (p + 1) = PageSize * p + PageSize /\ PageSize * p \in Int /\ PageSize * q \in Int
          BY Sizes
        <5>3. PageSize * q < PageSize * (p + 1)
          <6>1. PICK g \in Int, h \in Int : g = PageSize * q /\ h = PageSize * p
            BY <5>2
          <6>2. Base + g <= Base + h + o /\ o < PageSize /\ o \in Int
            BY <5>1, <6>1, <1>10, Sizes DEF Offset
          <6>3. g < h + PageSize
            BY ONLY <6>2, g \in Int, h \in Int, Sizes
          <6> QED BY <5>2, <6>1, <6>3
        <5>4. q < p + 1
          BY <5>3, Below, Sizes
        <5> QED BY <5>4, <1>1
      <4> QED BY <4>3, <2>5, <1>1
    <3>2. PageAt(e) = PageAt(x)
      BY <3>1, <1>1, <1>8, <2>5
    <3>3. o >= w
      <4>1. ~(o < w)
        BY <3>2, <1>1, <1>2, <1>10, EarlierOffset
      <4> QED BY <4>1 DEF Offset
    <3>4. p + d + 1 = q + d /\ p + d + 1 \in 1..l + d /\ p + 1 = q
      <4>1. q <= l
        BY <1>3
      <4> QED BY ONLY <4>1, <2>5, p \in Int, q \in Nat \ {0}, d \in Int, l \in Nat, q + d >= 1
    <3>5. n[r[p + d + 1]][o] = m[s[q]][o]
      BY <3>1, <3>3, <3>4, <1>7
    <3> QED BY <3>4, <3>5, <2>1, <2>2, <1>1 DEF Reads
  <2> QED BY <2>3, <2>4, <2>5
<1> QED BY <1>9, <1>10

-----------------------------------------------------------------------------
(* The frame of a page, when the frames of s back the pages: entry k of s  *)
(* is the one of page k - 1.                                               *)
LEMMA FrameOfPage ==
  ASSUME NEW s \in Seq(Frames), IsInjective(s), Len(s) <= RegionPages, NEW k \in 1..Len(s)
  PROVE  /\ Backed(s)[k - 1] = s[k] /\ s[k] \in Frames
         /\ \A j \in 1..Len(s) : s[j] = Backed(s)[k - 1] <=> j = k
<1>1. PICK l \in Nat : l = Len(s)
  OBVIOUS
<1>2. k \in 1..l /\ k - 1 \in Pages /\ k - 1 < l /\ k - 1 + 1 = k
  BY <1>1, Sizes DEF Pages
<1>3. Backed(s)[k - 1] = s[k] /\ s[k] \in Frames
  BY <1>1, <1>2, BackedType
<1>4. \A j \in 1..Len(s) : s[j] = s[k] => j = k
  BY Once
<1> QED BY <1>3, <1>4

(* Shrink: the guest bytes are copied before the frames behind them are    *)
(* freed, through the page table as it was.                                *)
LEMMA CutBytes ==
  ASSUME NEW s \in Seq(Frames), IsInjective(s), Len(s) <= RegionPages,
         NEW a \in Nat, a # 0, NEW b \in Nat, a <= b, b <= Len(s), NEW d \in Int, d = a - b,
         NEW m \in Memory, NEW c, NEW e \in Int, e = nextAddress(c),
         guestBytes(c) = RoundUp(e) - e, PageCeil(e) = b,
         NEW r, r = Without(s, a, b),
         NEW n, n = Zeroed(CopyGuest(m, Backed(s), c, d * PageSize), Range(Taken(s, a, b)))
  PROVE  Spliced(s, r, b, d) /\ GuestsFollow(m, n, s, r, b, d, e)
<1>1. PICK l \in Nat : l = Len(s)
  OBVIOUS
<1>2. a <= b /\ b <= l
  BY <1>1
<1>3. /\ r \in Seq(Frames) /\ Len(r) = l - (b - a)
      /\ \A k \in 1..l - (b - a) : r[k] = IF k <= a THEN s[k] ELSE s[k + (b - a)]
  <2>1. a <= b /\ b <= Len(s)
    OBVIOUS
  <2>2. /\ Without(s, a, b) \in Seq(Frames) /\ Len(Without(s, a, b)) = Len(s) - (b - a)
        /\ \A k \in 1..Len(Without(s, a, b)) :
             Without(s, a, b)[k] = IF k <= a THEN s[k] ELSE s[k + (b - a)]
    BY ONLY <2>1, s \in Seq(Frames), a \in Nat, b \in Nat, WithoutShape
  <2> QED BY ONLY <2>2, <1>1, r = Without(s, a, b)
<1>4. PICK gone : gone = Range(Taken(s, a, b))
  OBVIOUS
<1>5. IsInjective(r) /\ Range(r) = Range(s) \ gone
  <2> QED BY ONLY a \in Nat, s \in Seq(Frames), IsInjective(s), b \in Nat, a <= b, b <= Len(s), <1>4,
                  r = Without(s, a, b), WithoutTaken
<1>6. Spliced(s, r, b, d)
  <2>1. ASSUME NEW k \in 1..b, k <= b + d PROVE r[k] = s[k]
    <3>1. k <= a /\ k \in 1..l - (b - a)
      BY ONLY <2>1, <1>2, a \in Nat, a # 0, b \in Nat, l \in Nat, d \in Int, d = a - b, k \in 1..b
    <3> QED BY <3>1, <1>3
  <2>2. ASSUME NEW k \in b + 1..l PROVE r[k + d] = s[k]
    <3>1. ~(k + d <= a) /\ k + d \in 1..l - (b - a) /\ k + d + (b - a) = k
      BY ONLY <2>2, <1>2, a \in Nat, a # 0, b \in Nat, l \in Nat, d \in Int, d = a - b
    <3> QED BY <3>1, <1>3
  <2> QED BY <2>1, <2>2, <1>1 DEF Spliced
<1>7. PICK y \in Int : y = e + d * PageSize
  BY Sizes
<1>8. RoundUp(e) # e => PageAt(e) = b - 1 /\ PageAt(y) = a - 1
  <2>1. PageAt(y) = PageAt(e) + d
    BY <1>7, PagesFurther
  <2>2. RoundUp(e) # e => PageAt(e) = b - 1
    BY GuestOffset
  <2> QED BY <2>1, <2>2
<1>9. PICK t : t = Backed(s)
  OBVIOUS
<1>10. t[b - 1] = s[b] /\ t[a - 1] = s[a] /\ r[a] = s[a]
  <2>1. a \in 1..Len(s) /\ b \in 1..Len(s)
    BY <1>1, <1>2
  <2>2. Backed(s)[b - 1] = s[b]
    BY ONLY <2>1, s \in Seq(Frames), IsInjective(s), Len(s) <= RegionPages, FrameOfPage
  <2>3. Backed(s)[a - 1] = s[a]
    BY ONLY <2>1, s \in Seq(Frames), IsInjective(s), Len(s) <= RegionPages, FrameOfPage
  <2>4. a \in 1..l - (b - a) /\ a <= a
    BY ONLY <1>2, a \in Nat, a # 0, b \in Nat, l \in Nat
  <2> QED BY <2>2, <2>3, <2>4, <1>3, <1>9
<1>11. PICK copy : copy = CopyGuest(m, t, c, d * PageSize)
  OBVIOUS
<1>12. ASSUME NEW k \in 1..Len(r), NEW o \in Offset
       PROVE  n[r[k]][o] = IF RoundUp(e) # e /\ k = b + d /\ o >= e % PageSize
                           THEN m[s[b]][o] ELSE m[r[k]][o]
  <2>1. r[k] \in Frames /\ r[k] \notin gone
    BY <1>3, <1>5, Once
  <2>2. n[r[k]] = copy[r[k]]
    BY <2>1, <1>4, <1>9, <1>11 DEF Zeroed
  <2>3. copy[r[k]][o] = IF RoundUp(e) # e /\ r[k] = t[PageAt(y)] /\ o >= e % PageSize
                        THEN m[t[PageAt(e)]][o] ELSE m[r[k]][o]
    <3>1. PICK f \in Frames : f = r[k]
      BY <2>1
    <3>2. CopiesGuest(m, t, c, e, d)
      BY GuestCopied
    <3>3. copy[f][o] = IF RoundUp(e) # e /\ f = t[PageAt(e + d * PageSize)] /\ o >= e % PageSize
                       THEN m[t[PageAt(e)]][o] ELSE m[f][o]
      BY <3>1, <3>2, <1>11 DEF CopiesGuest
    <3>4. e + d * PageSize = y
      BY ONLY <1>7
    <3> QED BY ONLY <3>1, <3>3, <3>4
  <2>4. b + d = a /\ a \in 1..Len(r)
    BY ONLY <1>2, <1>3, a \in Nat, a # 0, b \in Nat, l \in Nat, d \in Int, d = a - b
  <2>5. r[k] = r[a] <=> k = a
    BY ONLY <1>3, <1>5, <2>4, k \in 1..Len(r), Once
  <2>6. RoundUp(e) # e => t[PageAt(e)] = s[b] /\ t[PageAt(y)] = r[b + d]
    BY ONLY <2>4, <1>8, <1>10
  <2>7. r[k] = r[b + d] <=> k = b + d
    BY ONLY <2>4, <2>5
  <2> QED BY ONLY <2>2, <2>3, <2>6, <2>7
<1>13. GuestsFollow(m, n, s, r, b, d, e)
  BY ONLY <1>12 DEF GuestsFollow
<1> QED BY <1>6, <1>13

(* Grow: the guest bytes are copied when the new frames are mapped.        *)
LEMMA SplicedBytes ==
  ASSUME NEW s \in Seq(Frames), NEW got \in Seq(Frames), NEW q \in Nat, q # 0, q <= Len(s),
         NEW d \in Nat, d # 0, d = Len(got),
         NEW m \in Memory, NEW c, NEW e \in Int, e = nextAddress(c),
         guestBytes(c) = RoundUp(e) - e, PageCeil(e) = q,
         NEW r, r = With(s, q, got), IsInjective(r), Len(r) <= RegionPages,
         NEW n, n = CopyGuest(m, Backed(r), c, d * PageSize)
  PROVE  /\ Len(r) = Len(s) + d
         /\ Spliced(s, r, q, d) /\ GuestsFollow(m, n, s, r, q, d, e)
<1>1. PICK l \in Nat : l = Len(s)
  OBVIOUS
<1>2. q <= l
  BY <1>1
<1>3. /\ r \in Seq(Frames) /\ Len(r) = l + d
      /\ \A k \in 1..l + d : r[k] = IF k <= q THEN s[k]
                                    ELSE IF k <= q + d THEN got[k - q] ELSE s[k - d]
  <2>2. /\ With(s, q, got) \in Seq(Frames) /\ Len(With(s, q, got)) = Len(s) + Len(got)
        /\ \A k \in 1..Len(With(s, q, got)) :
             With(s, q, got)[k] = IF k <= q THEN s[k]
                                  ELSE IF k <= q + Len(got) THEN got[k - q]
                                  ELSE s[k - Len(got)]
    BY ONLY q \in Nat, s \in Seq(Frames), got \in Seq(Frames), q <= Len(s), WithShape
  <2> QED BY ONLY <2>2, <1>1, r = With(s, q, got), d = Len(got)
<1>4. Spliced(s, r, q, d)
  <2>1. ASSUME NEW k \in 1..q PROVE r[k] = s[k]
    <3>1. k <= q /\ k \in 1..l + d
      BY ONLY <1>2, q \in Nat, q # 0, l \in Nat, d \in Nat, d # 0, k \in 1..q
    <3> QED BY ONLY <3>1, <1>3
  <2>2. ASSUME NEW k \in q + 1..l PROVE r[k + d] = s[k]
    <3>1. ~(k + d <= q) /\ ~(k + d <= q + d) /\ k + d \in 1..l + d /\ k + d - d = k
      BY ONLY <1>2, q \in Nat, q # 0, l \in Nat, d \in Nat, d # 0, k \in q + 1..l
    <3> QED BY ONLY <3>1, <1>3
  <2> QED BY <2>1, <2>2, <1>1 DEF Spliced
<1>5. PICK y \in Int : y = e + d * PageSize
  BY Sizes
<1>6. RoundUp(e) # e => PageAt(e) = q - 1 /\ PageAt(y) = q + d - 1
  <2>1. PageAt(y) = PageAt(e) + d
    BY <1>5, PagesFurther
  <2>2. RoundUp(e) # e => PageAt(e) = q - 1
    BY GuestOffset
  <2> QED BY <2>1, <2>2
<1>7. PICK t : t = Backed(r)
  OBVIOUS
<1>8. t[q - 1] = r[q] /\ t[q + d - 1] = r[q + d] /\ r[q] = s[q] /\ q + d \in 1..Len(r)
  <2>1. q \in 1..Len(r) /\ q + d \in 1..Len(r)
    BY ONLY <1>2, <1>3, q \in Nat, q # 0, l \in Nat, d \in Nat, d # 0
  <2>2. Backed(r)[q - 1] = r[q]
    BY ONLY <2>1, <1>3, IsInjective(r), Len(r) <= RegionPages, FrameOfPage
  <2>3. Backed(r)[q + d - 1] = r[q + d]
    <3>1. PICK k \in 1..Len(r) : k = q + d
      BY <2>1
    <3>2. Backed(r)[k - 1] = r[k]
      BY ONLY <1>3, IsInjective(r), Len(r) <= RegionPages, FrameOfPage, k \in 1..Len(r)
    <3> QED BY ONLY <3>1, <3>2
  <2>4. r[q] = s[q]
    <3>1. q \in 1..l + d /\ q <= q
      BY ONLY <1>2, q \in Nat, q # 0, l \in Nat, d \in Nat, d # 0
    <3> QED BY <3>1, <1>3
  <2> QED BY <2>1, <2>2, <2>3, <2>4, <1>7
<1>9. ASSUME NEW k \in 1..Len(r), NEW o \in Offset
      PROVE  n[r[k]][o] = IF RoundUp(e) # e /\ k = q + d /\ o >= e % PageSize
                          THEN m[s[q]][o] ELSE m[r[k]][o]
  <2>1. PICK f \in Frames : f = r[k]
    BY <1>3, Once
  <2>2. n[f][o] = IF RoundUp(e) # e /\ f = t[PageAt(y)] /\ o >= e % PageSize
                  THEN m[t[PageAt(e)]][o] ELSE m[f][o]
    <3>1. PICK i \in Int : i = d
      OBVIOUS
    <3>2. CopiesGuest(m, t, c, e, i)
      BY GuestCopied
    <3> QED BY <3>1, <3>2, <1>5, <1>7 DEF CopiesGuest
  <2>3. r[k] = r[q + d] <=> k = q + d
    BY ONLY <1>3, <1>8, IsInjective(r), k \in 1..Len(r), Once
  <2> QED BY <2>1, <2>2, <2>3, <1>6, <1>8
<1>10. GuestsFollow(m, n, s, r, q, d, e)
  BY ONLY <1>9 DEF GuestsFollow
<1> QED BY <1>1, <1>3, <1>4, <1>10

-----------------------------------------------------------------------------
(* What a reallocation of container i by d pages that does not throw does  *)
(* to the page frame array and to the bytes.                               *)
BytesMove(i, d) ==
  /\ pfns' \in Seq(Frames) /\ Len(pfns') = Len(pfns) + d /\ PastPage(i) + d >= 1
  /\ Spliced(pfns, pfns', PastPage(i), d)
  /\ GuestsFollow(memory, memory', pfns, pfns', PastPage(i), d, End(i))

(* What a reallocation finds: the last page of the container is the one    *)
(* before its end's page boundary, and has an entry.                       *)
LEMMA ReallocFinds ==
  ASSUME FramesIInv, status = "running", NEW i \in Indices
  PROVE  /\ PastPage(i) \in Nat /\ PastPage(i) # 0 /\ PastPage(i) <= Len(pfns)
         /\ nbrOfPages(Context(i)) \in Nat
         /\ getPFNsPosition(i) \in Nat
         /\ getPFNsPosition(i) + nbrOfPages(Context(i)) = PastPage(i)
         /\ End(i) \in Nat /\ End(i) = nextAddress(Context(i))
         /\ guestBytes(Context(i)) = RoundUp(End(i)) - End(i)
         /\ PageCeil(End(i)) = PastPage(i)
<1>1. LayoutIInv /\ Len(pfns) = TotalPages
  BY InOrder
<1>2. /\ FirstPage(i) \in Nat /\ PastPage(i) \in Nat \ {0} /\ FirstPage(i) <= PastPage(i)
      /\ nbrOfPages(Context(i)) = PastPage(i) - FirstPage(i) /\ End(i) \in Nat
  BY <1>1, PagesOfContainer
<1>3. getPFNsPosition(i) = FirstPage(i)
  BY <1>1, PositionOfFrames
<1>4. PastPage(i) <= Len(pfns)
  BY <1>1, LastContainer
<1>5. End(i) = nextAddress(Context(i)) /\ guestBytes(Context(i)) = RoundUp(End(i)) - End(i)
  BY ContextOf DEF guestBytes, nextMappingAddress
<1>6. PICK f \in Nat : f = FirstPage(i)
  BY <1>2
<1>7. PICK p \in Nat : p = PastPage(i) /\ p # 0 /\ f <= p
  BY <1>2, <1>6
<1>8. p - f \in Nat /\ f + (p - f) = p
  BY <1>7
<1> QED BY <1>2, <1>3, <1>4, <1>5, <1>6, <1>7, <1>8 DEF PastPage

(* Fewer pages. *)
LEMMA ShrinkBytes ==
  ASSUME FramesIInv, status = "running", NEW v, NEW n \in Nat \ {0}, NEW i \in Indices,
         NEW R, R = RequestedPages(Context(i), n), R < nbrOfPages(Context(i)),
         Shrink(v, n, i, R), status' = "running"
  PROVE  BytesMove(i, R - nbrOfPages(Context(i)))
<1>1. /\ pfns \in Seq(Frames) /\ IsInjective(pfns) /\ table = Backed(pfns)
      /\ Len(pfns) <= RegionPages /\ memory \in Memory
  BY InOrder
<1>2. PICK c : c = Context(i)
  OBVIOUS
<1>3. PICK N \in Nat, start \in Nat : N = nbrOfPages(c) /\ start = getPFNsPosition(i)
  BY <1>2, ReallocFinds
<1>4. PICK b \in Nat, e \in Int : b = PastPage(i) /\ e = End(i)
  BY ReallocFinds
<1>5. /\ b # 0 /\ b <= Len(pfns) /\ start + N = b /\ PageCeil(e) = b
      /\ e = nextAddress(c) /\ guestBytes(c) = RoundUp(e) - e
  BY <1>2, <1>3, <1>4, ReallocFinds
<1>6. R \in Nat /\ start + R >= 1
  BY <1>3, InOrder, ReallocatedPages
<1>7. PICK a \in Nat : a = start + R
  BY <1>6
<1>8. R < N
  BY <1>2, <1>3
<1>9. PICK d \in Int : d = R - N
  BY <1>6
<1>10. a # 0 /\ a <= b /\ d = a - b
  <2>1. start + N = b
    BY <1>5
  <2> QED BY ONLY <2>1, start \in Nat, N \in Nat, a \in Nat, b \in Nat, <1>6, <1>7, <1>8, <1>9
<1>11. PICK by : by = -((N - R) * PageSize)
  OBVIOUS
<1>12. by = d * PageSize
  <2>1. \A x, y \in Int : -((x - y) * PageSize) = (y - x) * PageSize
    BY Sizes
  <2>2. N \in Int /\ R \in Int
    BY <1>6
  <2>3. -((N - R) * PageSize) = (R - N) * PageSize
    BY ONLY <2>1, <2>2, Zenon
  <2> QED BY ONLY <2>3, <1>9, <1>11, Zenon
<1>13. PICK r : r = Without(pfns, a, b)
  OBVIOUS
<1>14. /\ memory' = Zeroed(CopyGuest(memory, table, c, by), Range(Taken(pfns, a, b)))
       /\ pfns' = r
  <2>1. \/ /\ ~GuestAccessible(table, c, by)
           /\ Throw("access violation")
        \/ /\ ~(Range(Taken(pfns, a, b)) \subseteq frames)
           /\ Throw("cannot free")
        \/ /\ memory' = Zeroed(CopyGuest(memory, table, c, by), Range(Taken(pfns, a, b)))
           /\ \/ Throw(IF After(r, start) = <<>> THEN "zero pages mapped" ELSE "cannot map")
              \/ pfns' = r
    BY <1>2, <1>3, <1>5, <1>7, <1>11, <1>13 DEF Shrink, Without, Taken, After
  <2>2. ~Throw("access violation") /\ ~Throw("cannot free")
        /\ ~Throw(IF After(r, start) = <<>> THEN "zero pages mapped" ELSE "cannot map")
    BY DEF Throw
  <2> QED BY <2>1, <2>2
<1>15. Spliced(pfns, r, b, d) /\ GuestsFollow(memory, memory', pfns, r, b, d, e)
  <2>1. PICK s \in Seq(Frames) : s = pfns
    BY <1>1
  <2>2. PICK m \in Memory : m = memory
    BY <1>1
  <2>3. PICK k : k = memory'
    OBVIOUS
  <2>4. /\ IsInjective(s) /\ Len(s) <= RegionPages /\ b <= Len(s)
        /\ r = Without(s, a, b)
        /\ k = Zeroed(CopyGuest(m, Backed(s), c, d * PageSize), Range(Taken(s, a, b)))
    BY <1>1, <1>5, <1>12, <1>13, <1>14, <2>1, <2>2, <2>3
  <2>5. Spliced(s, r, b, d) /\ GuestsFollow(m, k, s, r, b, d, e)
    BY <1>5, <1>10, <2>4, CutBytes
  <2> QED BY <2>1, <2>2, <2>3, <2>5
<1>16. r \in Seq(Frames) /\ Len(r) = Len(pfns) + d
  <2>1. r \in Seq(Frames) /\ Len(r) = Len(pfns) - (b - a)
    <3>1. a <= b /\ b <= Len(pfns) /\ pfns \in Seq(Frames)
      BY ONLY <1>1, <1>5, <1>10
    <3> QED BY <3>1, <1>13, WithoutShape
  <2>2. PICK l \in Nat : l = Len(pfns)
    BY <1>1
  <2>3. l - (b - a) = l + d
    BY <1>10
  <2> QED BY <2>1, <2>2, <2>3
<1>17. b + d >= 1
  BY ONLY <1>10, a \in Nat, b \in Nat, d \in Int
<1>18. BytesMove(i, d)
  BY <1>4, <1>14, <1>15, <1>16, <1>17 DEF BytesMove
<1> QED BY <1>2, <1>3, <1>9, <1>18

(* More pages. *)
LEMMA GrowBytes ==
  ASSUME FramesIInv, FramesIInv', status = "running", NEW v, NEW n \in Nat \ {0}, NEW i \in Indices,
         NEW R, R = RequestedPages(Context(i), n), R > nbrOfPages(Context(i)),
         Grow(v, n, i, R), status' = "running"
  PROVE  BytesMove(i, R - nbrOfPages(Context(i)))
<1>1. /\ pfns \in Seq(Frames) /\ memory \in Memory
      /\ pfns' \in Seq(Frames) /\ IsInjective(pfns') /\ table' = Backed(pfns')
      /\ Len(pfns') <= RegionPages
  <2>1. Consistent' /\ FramesType'
    BY DEF FramesIInv
  <2>2. pfns' \in Seq(Frames) /\ IsInjective(pfns') /\ Len(pfns') <= RegionPages
    BY <2>1 DEF Consistent, FramesType
  <2>3. table' = Backed(pfns')
    BY <2>1 DEF Consistent, Backed
  <2> QED BY <2>2, <2>3, InOrder
<1>2. PICK c : c = Context(i)
  OBVIOUS
<1>3. PICK N \in Nat, start \in Nat : N = nbrOfPages(c) /\ start = getPFNsPosition(i)
  BY <1>2, ReallocFinds
<1>4. PICK q \in Nat, e \in Int : q = PastPage(i) /\ e = End(i)
  BY ReallocFinds
<1>5. /\ q # 0 /\ q <= Len(pfns) /\ start + N = q /\ PageCeil(e) = q
      /\ e = nextAddress(c) /\ guestBytes(c) = RoundUp(e) - e
  BY <1>2, <1>3, <1>4, ReallocFinds
<1>6. R \in Nat
  BY InOrder, ReallocatedPages
<1>7. R > N
  BY <1>2, <1>3
<1>8. PICK d \in Nat : d = R - N /\ d # 0
  BY <1>6, <1>7
<1>9. \E got \in Grants(d) :
        /\ Len(got) = d
        /\ pfns' = With(pfns, q, got)
        /\ memory' = CopyGuest(memory, table', c, d * PageSize)
  <2> DEFINE all(got)  == With(pfns, q, got)
             tail(got) == After(all(got), start)
             bare      == UnmapFrom(table, mappingAddress(c), PagesFrom(start))
             now(got)  == MapPages(bare, mappingAddress(c), tail(got))
             mapped(got) == Len(got) = d /\ CanMap(bare, frames', mappingAddress(c), tail(got))
             copied(got) == GuestAccessible(now(got), c, d * PageSize)
  <2>1. \/ Throw("no memory for pfns")
        \/ \E got \in Grants(d) :
             \/ Throw(IF Len(got) < d THEN "out of frames" ELSE "cannot map")
             \/ Throw("access violation")
             \/ /\ mapped(got) /\ copied(got)
                /\ table' = now(got)
                /\ pfns' = all(got)
                /\ memory' = CopyGuest(memory, now(got), c, d * PageSize)
    BY ONLY Grow(v, n, i, R), <1>2, <1>3, <1>5, <1>8 DEF Grow, With, After
  <2>2. /\ ~Throw("no memory for pfns") /\ ~Throw("access violation")
        /\ \A got : ~Throw(IF Len(got) < d THEN "out of frames" ELSE "cannot map")
    BY DEF Throw
  <2>3. PICK got \in Grants(d) :
          /\ mapped(got)
          /\ table' = now(got)
          /\ pfns' = all(got)
          /\ memory' = CopyGuest(memory, now(got), c, d * PageSize)
    BY <2>1, <2>2
  <2>4. Len(got) = d
    BY <2>3
  <2>5. memory' = CopyGuest(memory, table', c, d * PageSize)
    <3> HIDE DEF now
    <3> QED BY <2>3
  <2> QED BY <2>3, <2>4, <2>5
<1>10. PICK got \in Grants(d) :
         /\ Len(got) = d
         /\ pfns' = With(pfns, q, got)
         /\ memory' = CopyGuest(memory, table', c, d * PageSize)
  BY <1>9
<1>11. got \in Seq(Frames)
  BY Granted
<1>12. /\ Len(pfns') = Len(pfns) + d
       /\ Spliced(pfns, pfns', q, d) /\ GuestsFollow(memory, memory', pfns, pfns', q, d, e)
  <2>1. PICK s \in Seq(Frames) : s = pfns
    BY <1>1
  <2>2. PICK m \in Memory : m = memory
    BY <1>1
  <2>3. PICK k : k = memory'
    OBVIOUS
  <2>4. PICK r : r = pfns'
    OBVIOUS
  <2>5. /\ q <= Len(s) /\ d = Len(got) /\ r = With(s, q, got) /\ IsInjective(r)
        /\ Len(r) <= RegionPages /\ k = CopyGuest(m, Backed(r), c, d * PageSize)
    BY <1>1, <1>5, <1>10, <2>1, <2>2, <2>3, <2>4
  <2>6. /\ Len(r) = Len(s) + d
        /\ Spliced(s, r, q, d) /\ GuestsFollow(m, k, s, r, q, d, e)
    BY <1>5, <1>8, <1>11, <2>5, SplicedBytes
  <2> QED BY <2>1, <2>2, <2>3, <2>4, <2>6
<1>13. q + d >= 1
  BY <1>5
<1>14. BytesMove(i, d)
  BY <1>1, <1>4, <1>12, <1>13 DEF BytesMove
<1> QED BY <1>2, <1>3, <1>8, <1>14

-----------------------------------------------------------------------------
(* While calls succeed, the caller has asked for something through exactly *)
(* the variables that have a container.                                    *)
AskedInUse == status = "running" => \A v \in PtrVars : asked[v] # 0 <=> InUse(v)

ArraysIInv == FramesIInv /\ AskedInUse

(* Where the arrays lie. *)
Placed ==
  status = "running" =>
    \A i \in 1..Len(containers) :
      /\ containers[i].reference \in PtrVars
      /\ Address(i) \in Nat /\ End(i) \in Nat /\ Base <= Address(i) /\ Address(i) < End(i)
      /\ Bytes(containers[i].reference) \in Nat
      /\ Address(i) + Bytes(containers[i].reference) <= End(i)

LEMMA PlacedHolds == FramesIInv => Placed
<1> SUFFICES ASSUME FramesIInv, status = "running", NEW i \in Indices
             PROVE  /\ containers[i].reference \in PtrVars
                    /\ Address(i) \in Nat /\ End(i) \in Nat
                    /\ Base <= Address(i) /\ Address(i) < End(i)
                    /\ Bytes(containers[i].reference) \in Nat
                    /\ Address(i) + Bytes(containers[i].reference) <= End(i)
  BY DEF Placed, Indices
<1>1. PICK v \in PtrVars : v = containers[i].reference
  BY InOrder, Entrywise
<1>2. /\ pointer[v] = Address(i) /\ Bytes(v) \in Nat /\ pointer[v] + Bytes(v) <= End(i)
  BY <1>1, ArrayPlace
<1>3. Address(i) \in Nat /\ End(i) \in Nat /\ Base <= Address(i) /\ Address(i) < End(i)
  BY InOrder, PagesOfContainer
<1> QED BY <1>1, <1>2, <1>3

(* What the caller reads through its pointer is what the frames of the     *)
(* array name.                                                             *)
ReadThrough ==
  /\ arrays \in [PtrVars -> Seq(Byte)]
  /\ \A v \in PtrVars :
       /\ arrays[v] = <<>> <=> status # "running" \/ asked[v] = 0
       /\ status = "running" /\ asked[v] # 0 =>
            /\ Bytes(v) \in Nat \ {0} /\ pointer[v] \in Nat
            /\ arrays[v] = [k \in 1..Bytes(v) |-> Reads(memory, pfns, pointer[v] + (k - 1))]

LEMMA ReadThroughHolds == ArraysIInv => ReadThrough
<1> SUFFICES ASSUME ArraysIInv PROVE ReadThrough
  OBVIOUS
<1>1. FramesIInv /\ AskedInUse
  BY DEF ArraysIInv
<1>2. \A v \in PtrVars : arrays[v] = Contents(v)
  BY DEF arrays
<1>3. arrays = [v \in PtrVars |-> Contents(v)]
  BY DEF arrays
<1>4. ASSUME NEW v \in PtrVars
      PROVE  /\ Contents(v) \in Seq(Byte)
             /\ Contents(v) = <<>> <=> status # "running" \/ asked[v] = 0
             /\ status = "running" /\ asked[v] # 0 =>
                  /\ Bytes(v) \in Nat \ {0} /\ pointer[v] \in Nat
                  /\ Contents(v) = [k \in 1..Bytes(v) |-> Reads(memory, pfns, pointer[v] + (k - 1))]
  <2>1. CASE status # "running" \/ asked[v] = 0
    BY <2>1 DEF Contents
  <2>2. CASE status = "running" /\ asked[v] # 0
    <3>1. PICK i \in Indices : containers[i].reference = v
      BY <1>1, <2>2 DEF AskedInUse, InUse, Indices
    <3>2. PICK at \in Nat, size \in Nat \ {0} : at = pointer[v] /\ size = Bytes(v)
      BY <1>1, <2>2, <3>1, ArrayPlace
    <3>3. \A k \in 0..size - 1 : PageAt(at + k) \in 0..Len(pfns) - 1
      BY <1>1, <2>2, <3>1, <3>2, ArrayPlace
    <3>4. /\ pfns \in Seq(Frames) /\ table = Backed(pfns) /\ Len(pfns) <= RegionPages
          /\ memory \in Memory
      BY <1>1, <2>2, InOrder
    <3>5. ASSUME NEW k \in 1..size
          PROVE  /\ ByteAt(at + k - 1) = Reads(memory, pfns, at + (k - 1))
                 /\ Reads(memory, pfns, at + (k - 1)) \in Byte
      <4>1. PICK x \in Int : x = at + (k - 1) /\ x = at + k - 1
        OBVIOUS
      <4>2. PICK p : p = PageAt(x)
        OBVIOUS
      <4>3. PICK l \in Nat : l = Len(pfns)
        BY <3>4
      <4>4. p \in 0..l - 1
        <5>1. k - 1 \in 0..size - 1
          OBVIOUS
        <5> QED BY <5>1, <3>3, <4>1, <4>2, <4>3
      <4>5. p \in Pages /\ p < l
        BY <4>3, <4>4, <3>4, Sizes DEF Pages
      <4>6. table[p] = pfns[p + 1] /\ pfns[p + 1] \in Frames
        BY <3>4, <4>3, <4>5, BackedType
      <4>7. (x - Base) % PageSize = x % PageSize /\ x % PageSize \in Offset
        BY OffsetInRegion, PageAndOffset
      <4>8. ByteAt(x) = Reads(memory, pfns, x)
        BY <4>2, <4>6, <4>7 DEF ByteAt, Reads
      <4>9. Reads(memory, pfns, x) \in Byte
        BY <3>4, <4>2, <4>6, <4>7 DEF Reads, Memory
      <4> QED BY <4>1, <4>8, <4>9
    <3>6. Contents(v) = [k \in 1..size |-> ByteAt(at + k - 1)]
      BY <2>2, <3>2 DEF Contents, Bytes
    <3>7. Contents(v) = [k \in 1..size |-> Reads(memory, pfns, at + (k - 1))]
      BY <3>5, <3>6
    <3>8. Contents(v) \in Seq(Byte) /\ Contents(v) # <<>>
      <4>1. [k \in 1..size |-> Reads(memory, pfns, at + (k - 1))] \in [1..size -> Byte]
        BY <3>5
      <4>2. PICK s \in [1..size -> Byte] : s = Contents(v)
        BY <3>7, <4>1
      <4>3. s \in Seq(Byte) /\ s # <<>>
        BY <4>2
      <4> QED BY <4>2, <4>3
    <3> QED BY <2>2, <3>2, <3>7, <3>8
  <2> QED BY <2>1, <2>2
<1>5. arrays \in [PtrVars -> Seq(Byte)]
  BY <1>3, <1>4
<1> QED BY <1>2, <1>4, <1>5 DEF ReadThrough

(* The same of the state after a step. *)
LEMMA ReadThroughNext == ArraysIInv' => ReadThrough'
BY ReadThroughHolds, PTL

LEMMA PlacedNext == FramesIInv' => Placed'
BY PlacedHolds, PTL

-----------------------------------------------------------------------------
(* ContainerRealloc, in either direction or within the same pages, when it *)
(* does not throw.                                                         *)
Reallocated(i, v, n, d) ==
  /\ asked' = [asked EXCEPT ![v] = n]
  /\ Len(containers') = Len(containers)
  /\ \A j \in Indices :
       /\ containers'[j].reference = containers[j].reference
       /\ Address(j)' = IF j > i THEN Address(j) + d * PageSize ELSE Address(j)
  /\ End(i)' = End(i) + d * PageSize
  /\ BytesMove(i, d)

LEMMA ReallocRuns ==
  ASSUME FramesIInv, FramesIInv', ReallocCounts # {}, status = "running",
         NEW v \in PtrVars, InUse(v), NEW n \in Nat \ {0}, ContainerRealloc(v, n),
         status' = "running"
  PROVE  \E i \in Indices, d \in Int : containers[i].reference = v /\ Reallocated(i, v, n, d)
<1>1. LayoutIInv
  BY InOrder
<1>2. PICK i \in Indices : i = Position(v) /\ containers[i].reference = v
  BY <1>1, PositionFound
<1>3. PICK c : c = Context(i)
  OBVIOUS
<1>4. PICK R : R = RequestedPages(c, n)
  OBVIOUS
<1>5. PICK N \in Nat : N = nbrOfPages(c)
  BY <1>1, <1>3, ReallocatedPages
<1>6. R \in Nat /\ ElementsIn(c, R) >= n
  <2>1. /\ c.address = Address(i) /\ c.type_size = containers[i].type_size
        /\ c.elements_num = containers[i].elements_num
    BY <1>3, ContextOf
  <2>2. /\ c.address \in Int /\ c.type_size \in Nat \ {0} /\ c.elements_num \in Nat
        /\ PageSize % c.type_size = 0
    BY <2>1, <1>1, Entrywise
  <2> QED BY <2>2, <1>4, PageSizeAssumption, RequestSuffices
<1>7. PICK d \in Int : d = R - N
  BY <1>6
<1>8. ASSUME BytesMove(i, d), Resettle(i, R, d * PageSize), asked' = [asked EXCEPT ![v] = n]
      PROVE  Reallocated(i, v, n, d)
  <2>1. PICK by \in Int : by = d * PageSize
    BY Sizes
  <2>2. /\ by = (R - nbrOfPages(Context(i))) * PageSize /\ R \in Int
        /\ ElementsIn(Context(i), R) >= n /\ Resettle(i, R, by)
    BY <2>1, <1>3, <1>5, <1>6, <1>7, <1>8
  <2>3. /\ Len(containers') = Len(containers)
        /\ \A j \in Indices :
             /\ containers'[j].reference = containers[j].reference
             /\ Address(j)' = IF j > i THEN Address(j) + by ELSE Address(j)
             /\ End(j)' = IF j >= i THEN End(j) + by ELSE End(j)
    BY ONLY <1>1, ReallocCounts # {}, i \in Indices, n \in Nat \ {0}, by \in Int, <2>2, Resettled
  <2>4. End(i)' = End(i) + by
    BY <2>3 DEF Indices
  <2> QED BY <2>1, <2>3, <2>4, <1>8 DEF Reallocated
<1>9. CASE R < N /\ Shrink(v, n, i, R)
  <2>1. BytesMove(i, R - nbrOfPages(Context(i)))
    BY <1>3, <1>4, <1>5, <1>9, ShrinkBytes
  <2>2. /\ Resettle(i, R, (R - nbrOfPages(Context(i))) * PageSize)
        /\ asked' = [asked EXCEPT ![v] = n]
    BY <1>3, <1>4, <1>5, <1>9, ShrinkOutcome
  <2> QED BY <2>1, <2>2, <1>2, <1>3, <1>5, <1>7, <1>8
<1>10. CASE R > N /\ Grow(v, n, i, R)
  <2>1. R = RequestedPages(Context(i), n) /\ R > nbrOfPages(Context(i)) /\ Grow(v, n, i, R)
    BY ONLY <1>3, <1>4, <1>5, <1>10
  <2>2. BytesMove(i, R - nbrOfPages(Context(i)))
    BY ONLY FramesIInv, FramesIInv', status = "running", n \in Nat \ {0}, i \in Indices,
            <2>1, status' = "running", GrowBytes
  <2>3. /\ Resettle(i, R, (R - nbrOfPages(Context(i))) * PageSize)
        /\ asked' = [asked EXCEPT ![v] = n]
    <3>1. \/ status' \in {"no memory for pfns", "out of frames", "cannot map"}
          \/ /\ Resettle(i, R, (R - nbrOfPages(Context(i))) * PageSize)
             /\ asked' = [asked EXCEPT ![v] = n]
      BY ONLY FramesIInv, status = "running", n \in Nat \ {0}, i \in Indices, <2>1, GrowOutcome
    <3> QED BY ONLY <3>1, status' = "running"
  <2> QED BY <2>2, <2>3, <1>2, <1>3, <1>5, <1>7, <1>8
<1>11. CASE R = N /\ asked' = [asked EXCEPT ![v] = n] /\ UNCHANGED <<bookkeeping, pointer, os, status>>
  <2>1. /\ containers' = containers /\ pfns' = pfns /\ pointer' = pointer /\ memory' = memory
    BY <1>11 DEF bookkeeping, os
  <2>2. d = 0 /\ d * PageSize = 0
    BY <1>5, <1>7, <1>11, Sizes
  <2>3. PastPage(i) \in Nat /\ PastPage(i) # 0 /\ PastPage(i) <= Len(pfns)
    BY ReallocFinds
  <2>4. pfns \in Seq(Frames) /\ Len(pfns) \in Nat
    BY InOrder
  <2>5. Spliced(pfns, pfns, PastPage(i), 0)
    BY <2>3, <2>4 DEF Spliced
  <2>6. GuestsFollow(memory, memory, pfns, pfns, PastPage(i), 0, End(i))
    BY <2>3 DEF GuestsFollow
  <2>7. BytesMove(i, d)
    BY <2>1, <2>2, <2>3, <2>4, <2>5, <2>6 DEF BytesMove
  <2>8. \A j \in Indices : Address(j)' = Address(j) /\ End(j)' = End(j)
                           /\ Address(j) \in Nat /\ End(j) \in Nat
    BY <1>1, <2>1, Entrywise DEF Address, End
  <2> QED BY <1>2, <1>11, <2>1, <2>2, <2>7, <2>8 DEF Reallocated
<1> QED BY <1>2, <1>3, <1>4, <1>5, <1>9, <1>10, <1>11 DEF ContainerRealloc

(* Every byte of every array is where its caller finds it again: of the    *)
(* one reallocated, those of the old and the new length.                   *)
LEMMA BytesKept ==
  ASSUME FramesIInv, FramesIInv', status = "running", status' = "running",
         NEW i \in Indices, NEW n, NEW d \in Int, Reallocated(i, containers[i].reference, n, d),
         NEW u \in PtrVars, InUse(u), NEW k \in 0..Bytes(u) - 1,
         u = containers[i].reference => k < Bytes(u)'
  PROVE  Reads(memory', pfns', pointer'[u] + k) = Reads(memory, pfns, pointer[u] + k)
<1>1. PICK j \in Indices : containers[j].reference = u
  BY DEF InUse, Indices
<1>2. LayoutIInv /\ LayoutIInv' /\ Placed'
  BY InOrder, PlacedNext DEF FramesIInv
<1>3. /\ pointer[u] = Address(j) /\ Base <= pointer[u] /\ pointer[u] \in Nat
      /\ Bytes(u) \in Nat /\ pointer[u] + Bytes(u) <= End(j)
      /\ PageAt(pointer[u] + k) \in 0..Len(pfns) - 1
  BY <1>1, ArrayPlace
<1>4. PICK x \in Int : x = pointer[u] + k /\ Base <= x /\ Address(j) <= x /\ x < End(j)
  <2>1. PICK at \in Nat, size \in Nat, end \in Nat :
          at = pointer[u] /\ size = Bytes(u) /\ end = End(j) /\ Base <= at /\ at + size <= end
    BY <1>1, <1>2, <1>3, Entrywise
  <2>2. at + k \in Int /\ Base <= at + k /\ at <= at + k /\ at + k < end
    BY <2>1, Sizes
  <2> QED BY <1>3, <2>1, <2>2
<1>5. /\ Len(containers') = Len(containers)
      /\ \A l \in Indices :
           /\ containers'[l].reference = containers[l].reference
           /\ Address(l)' = IF l > i THEN Address(l) + d * PageSize ELSE Address(l)
      /\ End(i)' = End(i) + d * PageSize
      /\ BytesMove(i, d)
  BY DEF Reallocated
<1>6. pointer'[u] = IF j > i THEN pointer[u] + d * PageSize ELSE pointer[u]
  BY <1>1, <1>3, <1>5 DEF Address
<1>7. /\ PastPage(i) \in Nat \ {0} /\ PastPage(i) <= Len(pfns) /\ PageCeil(End(i)) = PastPage(i)
      /\ End(i) \in Int /\ pfns \in Seq(Frames)
  BY ReallocFinds, InOrder
<1>8. PICK e \in Int, y \in Int : e = End(i) /\ y = e + d * PageSize
  BY <1>7, Sizes
<1>9. /\ x < e /\ x < y => Reads(memory', pfns', x) = Reads(memory, pfns, x)
      /\ x >= e /\ PageAt(x) < Len(pfns) =>
           Reads(memory', pfns', x + d * PageSize) = Reads(memory, pfns, x)
  <2>1. PICK s \in Seq(Frames), r \in Seq(Frames), q \in Nat \ {0} :
          s = pfns /\ r = pfns' /\ q = PastPage(i)
    BY <1>5, <1>7 DEF BytesMove
  <2>2. PICK m, w : m = memory /\ w = memory'
    OBVIOUS
  <2>3. /\ Len(r) = Len(s) + d /\ q = PageCeil(e) /\ q <= Len(s) /\ q + d >= 1
        /\ Spliced(s, r, q, d) /\ GuestsFollow(m, w, s, r, q, d, e)
    BY <2>1, <2>2, <1>5, <1>7, <1>8 DEF BytesMove
  <2>4. /\ x < e /\ x < e + d * PageSize => Reads(w, r, x) = Reads(m, s, x)
        /\ x >= e /\ PageAt(x) < Len(s) => Reads(w, r, x + d * PageSize) = Reads(m, s, x)
    BY <2>3, <1>4, BytesFollow
  <2> QED BY <2>1, <2>2, <2>4, <1>8
<1>10. /\ Address(i)' \in Nat /\ End(i)' \in Nat /\ Address(i)' < End(i)' /\ End(i)' = y
       /\ Address(i)' + Bytes(containers[i].reference)' <= End(i)'
       /\ Bytes(containers[i].reference)' \in Nat
  <2>1. i \in 1..Len(containers')
    BY <1>5 DEF Indices
  <2>2. /\ Address(i)' \in Nat /\ End(i)' \in Nat /\ Address(i)' < End(i)'
        /\ Bytes(containers[i].reference)' \in Nat
        /\ Address(i)' + Bytes(containers[i].reference)' <= End(i)'
    BY <1>2, <2>1 DEF Placed
  <2> QED BY <1>5, <1>8, <2>2
<1>11. Address(i)' = Address(i) /\ Address(i) \in Nat /\ Address(i) < e
  BY <1>2, <1>5, <1>8, Entrywise DEF Indices
<1>12. i \in Nat /\ j \in Nat
  BY DEF Indices
<1>13. CASE j < i
  <2>1. End(j) <= Address(i) /\ End(j) \in Nat
    BY <1>2, <1>13, Entrywise DEF LayoutIInv, EndsBefore
  <2>2. x < e /\ x < y
    BY <2>1, <1>4, <1>10, <1>11
  <2> QED BY <2>2, <1>4, <1>6, <1>9, <1>12, <1>13
<1>14. CASE j = i
  <2>1. containers'[i].reference = u
    BY <1>1, <1>5, <1>14
  <2>2. PICK at \in Nat, size \in Nat :
          at = pointer[u] /\ size = Bytes(u)' /\ at + size <= y /\ k < size
    <3>1. Bytes(containers[i].reference)' = Bytes(u)'
      BY <2>1 DEF Bytes
    <3>2. Address(i)' = pointer[u] /\ u = containers[i].reference
      BY <1>1, <1>3, <1>11, <1>14
    <3> QED BY <3>1, <3>2, <1>10
  <2>3. x < y
    <3>1. k \in Int
      BY <1>3
    <3> QED BY <3>1, <2>2, <1>4
  <2> QED BY <2>3, <1>4, <1>6, <1>8, <1>9, <1>12, <1>14
<1>15. CASE j > i
  <2>1. End(i) <= Address(j) /\ Address(j) \in Nat
    BY <1>2, <1>15, Entrywise DEF LayoutIInv, EndsBefore
  <2>2. x >= e
    BY <2>1, <1>4, <1>8
  <2>3. PageAt(x) < Len(pfns)
    BY <1>3, <1>4, <1>7
  <2>4. x + d * PageSize = pointer'[u] + k
    <3>1. PICK by \in Int : by = d * PageSize
      BY Sizes
    <3> QED BY <3>1, <1>3, <1>4, <1>6, <1>15
  <2> QED BY <2>2, <2>3, <2>4, <1>4, <1>9
<1> QED BY <1>12, <1>13, <1>14, <1>15

-----------------------------------------------------------------------------
(* ContainerAlloc when it does not throw: it sets one variable, and the    *)
(* page frame array, if it changes, grows at its end.                      *)
LEMMA AllocRuns ==
  ASSUME FramesIInv, FramesIInv', status = "running", NEW v \in PtrVars, ~InUse(v),
         NEW n \in Nat \ {0}, ContainerAlloc(v, n), status' = "running"
  PROVE  /\ containers' = Append(containers,
              [reference |-> v, type_size |-> TypeSize[v], elements_num |-> n])
         /\ asked' = [asked EXCEPT ![v] = n]
         /\ \A u \in PtrVars \ {v} : pointer'[u] = pointer[u]
         /\ memory' = memory
         /\ pfns' = pfns \/ \E got \in Seq(Frames) : pfns' = pfns \o got
<1>1. /\ LayoutIInv /\ LayoutIInv' /\ pfns \in Seq(Frames) /\ pointer \in [PtrVars -> Nat]
      /\ Len(pfns) = TotalPages
  BY InOrder DEF FramesIInv, LayoutIInv, LayoutType
<1>2. /\ containers' = Append(containers,
           [reference |-> v, type_size |-> TypeSize[v], elements_num |-> n])
      /\ pointer' = [pointer EXCEPT ![v] =
           IF containers = <<>> THEN Base ELSE nextAddress(Context(Len(containers)))]
      /\ asked' = [asked EXCEPT ![v] = n]
  BY ContainerAllocOutcome
<1>3. PICK guest : guest = IF containers = <<>> THEN 0 ELSE guestBytes(Context(Len(containers)))
  OBVIOUS
<1>4. PICK mapping :
        mapping = IF containers = <<>> THEN Base ELSE nextMappingAddress(Context(Len(containers)))
  OBVIOUS
<1>5. PICK k \in Nat : k = PagesFor(TypeSize[v] * n - guest)
  <2>1. TypeSize[v] * n - guest \in Int
    BY <1>1, <1>2, <1>3, <1>4, AppendedPages
  <2> QED BY <2>1, PageSizeAssumption, PagesForCovers
<1>6. \/ UNCHANGED <<pfns, os>>
      \/ TakePages(mapping, k, v, n)
  <2>1. ~Throw("no memory for contexts")
    BY DEF Throw
  <2> QED BY <2>1, <1>3, <1>4, <1>5 DEF ContainerAlloc
<1>7. \A u \in PtrVars \ {v} : pointer'[u] = pointer[u]
  BY <1>1, <1>2
<1>8. ASSUME TakePages(mapping, k, v, n)
      PROVE  memory' = memory /\ \E got \in Seq(Frames) : pfns' = pfns \o got
  <2>1. ~Throw("no memory for pfns") /\ ~Throw("out of frames") /\ ~Throw("cannot map")
    BY DEF Throw
  <2>2. memory' = memory /\ \E got \in Grants(k) : pfns' = pfns \o got
    BY <1>8, <2>1 DEF TakePages
  <2>3. PICK got \in Grants(k) : pfns' = pfns \o got
    BY <2>2
  <2> QED BY <2>2, <2>3, Granted
<1>9. UNCHANGED <<pfns, os>> => memory' = memory /\ pfns' = pfns
  BY DEF os
<1> QED BY <1>2, <1>6, <1>7, <1>8, <1>9

(* Of the new containers, the last is the only one of its variable.        *)
LEMMA AllocUses ==
  ASSUME LayoutIInv, NEW v \in PtrVars, NEW c, c.reference = v,
         containers' = Append(containers, c), NEW u
  PROVE  InUse(u)' <=> u = v \/ InUse(u)
<1>1. PICK m \in Nat : m = Len(containers)
  BY LastContainer
<1>2. containers \in Seq(ContextType)
  BY DEF LayoutIInv, LayoutType
<1>3. /\ Len(containers') = m + 1
      /\ \A i \in 1..m + 1 : containers'[i] = IF i = m + 1 THEN c ELSE containers[i]
  BY <1>1, <1>2
<1>4. InUse(u)' <=> \E i \in 1..m + 1 : containers'[i].reference = u
  BY <1>3 DEF InUse
<1>5. InUse(u) <=> \E i \in 1..m : containers[i].reference = u
  BY <1>1 DEF InUse
<1>6. (\E i \in 1..m + 1 : containers'[i].reference = u)
        <=> u = v \/ \E i \in 1..m : containers[i].reference = u
  <2>1. ASSUME NEW i \in 1..m + 1, containers'[i].reference = u
        PROVE  u = v \/ \E j \in 1..m : containers[j].reference = u
    <3>1. i = m + 1 \/ i \in 1..m
      BY <1>1
    <3>2. i # m + 1 => containers'[i] = containers[i]
      BY <1>3
    <3>3. i = m + 1 => containers'[i] = c
      BY <1>3
    <3> QED BY <2>1, <3>1, <3>2, <3>3
  <2>2. ASSUME NEW i \in 1..m, containers[i].reference = u
        PROVE  \E j \in 1..m + 1 : containers'[j].reference = u
    <3>1. i \in 1..m + 1 /\ i # m + 1
      OBVIOUS
    <3> QED BY <2>2, <3>1, <1>3
  <2>3. u = v => \E j \in 1..m + 1 : containers'[j].reference = u
    <3>1. m + 1 \in 1..m + 1
      OBVIOUS
    <3> QED BY <3>1, <1>3
  <2> QED BY <2>1, <2>2, <2>3
<1> QED BY <1>4, <1>5, <1>6

(* A call that succeeds uses the variable it sets, and no other. *)
LEMMA AskedStep ==
  ASSUME ArraysIInv, FramesIInv', [Next]_vars
  PROVE  AskedInUse'
<1>1. FramesIInv /\ LayoutIInv /\ AskedInUse
  BY InOrder DEF ArraysIInv
<1>2. CASE status' # "running"
  BY <1>2 DEF AskedInUse
<1>3. CASE UNCHANGED <<containers, asked, status>>
  BY <1>1, <1>3 DEF AskedInUse, InUse
<1>4. ASSUME status' = "running", NEW v \in PtrVars, NEW n \in AllocCounts, vcmalloc(v, n)
      PROVE  AskedInUse'
  <2>1. status = "running" /\ ~InUse(v) /\ ContainerAlloc(v, n) /\ n \in Nat \ {0}
    BY <1>4, HyperContainerAssumption DEF vcmalloc, Running
  <2>2. PICK c : c = [reference |-> v, type_size |-> TypeSize[v], elements_num |-> n]
    OBVIOUS
  <2>3. containers' = Append(containers, c) /\ asked' = [asked EXCEPT ![v] = n]
    BY <1>1, <1>4, <2>1, <2>2, AllocRuns
  <2>4. \A u : InUse(u)' <=> u = v \/ InUse(u)
    BY <1>1, <2>2, <2>3, AllocUses
  <2>5. asked \in [PtrVars -> Nat]
    BY <1>1 DEF LayoutIInv, LayoutType
  <2> QED BY <1>1, <2>1, <2>3, <2>4, <2>5 DEF AskedInUse
<1>5. ASSUME status' = "running", NEW v \in PtrVars, NEW n \in ReallocCounts, vcrealloc(v, n)
      PROVE  AskedInUse'
  <2>1. /\ status = "running" /\ InUse(v) /\ ContainerRealloc(v, n) /\ n \in Nat \ {0}
        /\ ReallocCounts # {}
    BY <1>5, HyperContainerAssumption DEF vcrealloc, Running
  <2>2. PICK i \in Indices, d \in Int : containers[i].reference = v /\ Reallocated(i, v, n, d)
    BY <1>1, <1>5, <2>1, ReallocRuns
  <2>3. /\ asked' = [asked EXCEPT ![v] = n] /\ Len(containers') = Len(containers)
        /\ \A j \in 1..Len(containers) : containers'[j].reference = containers[j].reference
    BY <2>2 DEF Reallocated, Indices
  <2>4. \A u : InUse(u)' <=> InUse(u)
    BY <2>3 DEF InUse
  <2>5. asked \in [PtrVars -> Nat]
    BY <1>1 DEF LayoutIInv, LayoutType
  <2> QED BY <1>1, <2>1, <2>3, <2>4, <2>5 DEF AskedInUse
<1>6. ASSUME NEW v \in PtrVars, Store(v)
      PROVE  status' # "running" \/ UNCHANGED <<containers, asked, status>>
  BY <1>6 DEF Store, StoreThrough, Throw, bookkeeping, caller
<1>7. ASSUME NEW j, Extend(j) PROVE status' # "running" \/ UNCHANGED <<containers, asked, status>>
  BY <1>7 DEF Extend, ExtendCcStorage, ExtendPfnsStorage, Throw, caller
<1>8. CASE vccfree
  BY <1>2, <1>8 DEF vccfree, HyperContainerFree, Throw
<1>9. CASE UNCHANGED vars
  BY <1>3, <1>9 DEF vars, bookkeeping, caller
<1> QED BY <1>2, <1>3, <1>4, <1>5, <1>6, <1>7, <1>8, <1>9 DEF Next, Ended

-----------------------------------------------------------------------------
(* Two arrays have no byte in common. *)
LEMMA ArraysApart ==
  ASSUME FramesIInv, status = "running", NEW u \in PtrVars, NEW v \in PtrVars, u # v,
         InUse(u), InUse(v), NEW k \in 0..Bytes(u) - 1
  PROVE  pointer[u] + k \notin pointer[v]..pointer[v] + Bytes(v) - 1
<1>1. PICK i \in Indices, j \in Indices : containers[i].reference = u /\ containers[j].reference = v
  BY DEF InUse, Indices
<1>2. /\ pointer[u] = Address(i) /\ pointer[u] \in Nat /\ Bytes(u) \in Nat
      /\ pointer[u] + Bytes(u) <= End(i) /\ End(i) \in Nat
  BY <1>1, ArrayPlace
<1>3. /\ pointer[v] = Address(j) /\ pointer[v] \in Nat /\ Bytes(v) \in Nat
      /\ pointer[v] + Bytes(v) <= End(j) /\ End(j) \in Nat
  BY <1>1, ArrayPlace
<1>4. i < j \/ j < i
  BY <1>1 DEF Indices
<1>5. (i < j => End(i) <= Address(j)) /\ (j < i => End(j) <= Address(i))
  BY InOrder DEF LayoutIInv, EndsBefore
<1>6. PICK a \in Nat, b \in Nat, s \in Nat, t \in Nat, x \in Nat, y \in Nat :
        /\ a = pointer[u] /\ b = pointer[v] /\ s = Bytes(u) /\ t = Bytes(v)
        /\ x = End(i) /\ y = End(j)
  BY <1>2, <1>3
<1>7. a + s <= x /\ b + t <= y /\ (x <= b \/ y <= a)
  BY <1>2, <1>3, <1>4, <1>5, <1>6
<1>8. k \in 0..s - 1
  BY <1>6
<1>9. a + k \notin b..b + t - 1
  BY <1>6, <1>7, <1>8
<1> QED BY <1>6, <1>9

(* What the caller stores is found at the addresses of its array, and      *)
(* nowhere else: no two of its pages have the same frame.                  *)
LEMMA BytesWritten ==
  ASSUME FramesIInv, status = "running", NEW v \in PtrVars, InUse(v), StoreThrough(v),
         NEW x \in Int, PageAt(x) \in 0..Len(pfns) - 1
  PROVE  Reads(memory', pfns, x) =
           IF x \in pointer[v]..pointer[v] + Bytes(v) - 1 THEN Tag(v, x - pointer[v])
           ELSE Reads(memory, pfns, x)
<1>1. PICK i \in Indices : containers[i].reference = v
  BY DEF InUse, Indices
<1>2. PICK at \in Nat, size \in Nat : at = pointer[v] /\ size = Bytes(v)
  BY <1>1, ArrayPlace
<1>3. \A k \in 0..size - 1 : PageAt(at + k) \in 0..Len(pfns) - 1
  BY <1>1, <1>2, ArrayPlace
<1>4. PICK f : f = pfns[PageAt(x) + 1]
  OBVIOUS
<1>5. PICK o \in Offset : o = x % PageSize
  BY PageAndOffset
<1>6. PICK l \in Nat : l = Len(pfns)
  BY InOrder
<1>7. /\ pfns \in Seq(Frames) /\ IsInjective(pfns) /\ l <= RegionPages /\ table = Backed(pfns)
  BY <1>6, InOrder
<1>8. PICK p \in Nat : p = PageAt(x) /\ p < l
  BY <1>6
<1>9. f \in Frames
  BY <1>4, <1>6, <1>7, <1>8
<1> DEFINE hits(h, b) == {k \in 0..size - 1 :
                            table[PageAt(at + k)] = h /\ (at + k) % PageSize = b}
<1>10. memory'[f][o] = IF hits(f, o) = {} THEN memory[f][o] ELSE Tag(v, Max(hits(f, o)))
  <2>1. Accessible(table, at, size)
    BY <1>2, StoreFinds
  <2> DEFINE found(a, n, h, b) == {k \in 0..n - 1 :
                                    table[PageAt(a + k)] = h /\ (a + k) % PageSize = b}
             Written(a, n) == memory' = [h \in Frames |-> [b \in 0..PageSize - 1 |->
               IF found(a, n, h, b) = {} THEN memory[h][b] ELSE Tag(v, Max(found(a, n, h, b)))]]
  <2>2. Written(pointer[v], Bytes(v)) \/ ~Accessible(table, pointer[v], Bytes(v))
    BY DEF StoreThrough, Bytes
  <2>3. Written(at, size)
    <3> HIDE DEF Written
    <3> QED BY <1>2, <2>1, <2>2
  <2>4. found(at, size, f, o) = hits(f, o)
    OBVIOUS
  <2> HIDE DEF hits, found
  <2> QED BY <1>5, <1>9, <2>3, <2>4 DEF Offset
<1>11. ASSUME NEW k \in 0..size - 1
       PROVE  k \in hits(f, o) <=> at + k = x
  <2>1. PICK y \in Int : y = at + k
    OBVIOUS
  <2>2. PICK w \in 0..l - 1 : w = PageAt(y)
    BY <1>3, <1>6, <2>1
  <2>3. w \in Pages /\ w < Len(pfns)
    BY <1>6, <1>7, Sizes DEF Pages
  <2>4. table[w] = pfns[w + 1]
    BY <1>7, <2>3, BackedType
  <2>5. pfns[w + 1] = pfns[p + 1] <=> w = p
    <3>1. w + 1 \in 1..Len(pfns) /\ p + 1 \in 1..Len(pfns)
      BY <1>6, <1>8
    <3>2. pfns[w + 1] = pfns[p + 1] <=> w + 1 = p + 1
      BY ONLY <1>7, <3>1, Once
    <3> QED BY <3>2
  <2>6. k \in hits(f, o) <=> w = p /\ y % PageSize = o
    BY <1>4, <1>8, <2>1, <2>2, <2>4, <2>5
  <2>7. w = p /\ y % PageSize = o <=> y = x
    BY <1>5, <1>8, <2>2, SameByte
  <2> QED BY <2>1, <2>6, <2>7
<1>12. CASE x \in at..at + size - 1
  <2>1. PICK k \in 0..size - 1 : k = x - at /\ at + k = x
    BY <1>12
  <2>2. hits(f, o) = {k}
    <3>1. k \in hits(f, o)
      BY <1>11, <2>1
    <3>2. ASSUME NEW j \in hits(f, o) PROVE j = k
      <4>1. j \in 0..size - 1
        OBVIOUS
      <4>2. at + j = x
        BY <1>11, <4>1
      <4> QED BY <4>1, <4>2, <2>1
    <3> HIDE DEF hits
    <3> QED BY <3>1, <3>2
  <2>3. Max({k}) = k
    <3>1. k \in Nat
      OBVIOUS
    <3>2. PICK S : S = {k}
      OBVIOUS
    <3>3. S \subseteq 0..k /\ S # {}
      BY <3>1, <3>2
    <3>4. Max(S) \in S
      BY <3>1, <3>3, MaxProperties
    <3> QED BY <3>2, <3>4
  <2>4. memory'[f][o] = Tag(v, x - at)
    BY <1>10, <2>1, <2>2, <2>3
  <2> QED BY <1>2, <1>4, <1>5, <1>12, <2>4 DEF Reads
<1>13. CASE x \notin at..at + size - 1
  <2>1. hits(f, o) = {}
    <3>1. ASSUME NEW j \in hits(f, o) PROVE FALSE
      <4>1. j \in 0..size - 1
        OBVIOUS
      <4>2. at + j = x
        BY <1>11, <4>1
      <4> QED BY <4>1, <4>2, <1>13
    <3> HIDE DEF hits
    <3> QED BY <3>1
  <2>2. memory'[f][o] = memory[f][o]
    BY <1>10, <2>1
  <2> QED BY <1>2, <1>4, <1>5, <1>13, <2>2 DEF Reads
<1> QED BY <1>12, <1>13

-----------------------------------------------------------------------------
(* The refinement.  An array whose bytes the caller finds again, by the    *)
(* new pointer, is the same array.                                         *)
LEMMA SameArray ==
  ASSUME ArraysIInv, ArraysIInv', status = "running", status' = "running",
         NEW u \in PtrVars, asked'[u] = asked[u],
         \A k \in 0..Bytes(u) - 1 :
           asked[u] # 0 => Reads(memory', pfns', pointer'[u] + k) = Reads(memory, pfns, pointer[u] + k)
  PROVE  arrays'[u] = arrays[u]
<1>1. ReadThrough /\ ReadThrough'
  BY ReadThroughHolds, ReadThroughNext
<1>2. CASE asked[u] = 0
  BY <1>1, <1>2 DEF ReadThrough
<1>3. CASE asked[u] # 0
  <2>1. PICK n \in Nat : n = Bytes(u)
    BY <1>1, <1>3 DEF ReadThrough
  <2>2. Bytes(u)' = n
    BY <2>1 DEF Bytes
  <2>3. arrays[u] = [k \in 1..n |-> Reads(memory, pfns, pointer[u] + (k - 1))]
    BY <1>1, <1>3, <2>1 DEF ReadThrough
  <2>4. arrays'[u] = [k \in 1..Bytes(u)' |-> Reads(memory', pfns', pointer'[u] + (k - 1))]
    BY <1>1, <1>3 DEF ReadThrough
  <2>5. \A k \in 1..n :
          Reads(memory', pfns', pointer'[u] + (k - 1)) = Reads(memory, pfns, pointer[u] + (k - 1))
    <3>1. \A k \in 1..n : k - 1 \in 0..Bytes(u) - 1
      BY <2>1
    <3> QED BY <3>1, <1>3
  <2> QED BY <2>2, <2>3, <2>4, <2>5
<1> QED BY <1>2, <1>3

(* vcmalloc creates an array: no byte of another one changes. *)
LEMMA AllocCreates ==
  ASSUME ArraysIInv, ArraysIInv', status = "running", status' = "running",
         NEW v \in PtrVars, ~InUse(v), NEW n \in Nat \ {0}, ContainerAlloc(v, n)
  PROVE  Arrays!Create(v)
<1>1. /\ FramesIInv /\ FramesIInv' /\ AskedInUse /\ pfns \in Seq(Frames)
      /\ asked \in [PtrVars -> Nat] /\ ReadThrough /\ ReadThrough'
  BY InOrder, ReadThroughHolds, ReadThroughNext DEF ArraysIInv, LayoutIInv, LayoutType
<1>2. /\ asked' = [asked EXCEPT ![v] = n]
      /\ \A u \in PtrVars \ {v} : pointer'[u] = pointer[u]
      /\ memory' = memory
      /\ pfns' = pfns \/ \E got \in Seq(Frames) : pfns' = pfns \o got
  BY <1>1, AllocRuns
<1>3. PICK l \in Nat : l = Len(pfns)
  BY <1>1
<1>4. \A k \in 1..l : pfns'[k] = pfns[k]
  <2>1. ASSUME NEW got \in Seq(Frames), pfns' = pfns \o got
        PROVE  \A k \in 1..l : pfns'[k] = pfns[k]
    <3>1. PICK g \in Nat : g = Len(got)
      OBVIOUS
    <3>2. \A k \in 1..l + g : (pfns \o got)[k] = IF k <= l THEN pfns[k] ELSE got[k - l]
      BY <1>1, <1>3, <3>1, Joined
    <3>3. \A k \in 1..l : k \in 1..l + g /\ k <= l
      OBVIOUS
    <3> QED BY <2>1, <3>2, <3>3
  <2> QED BY <1>2, <2>1
<1>5. ASSUME NEW u \in PtrVars \ {v} PROVE arrays'[u] = arrays[u]
  <2>1. asked'[u] = asked[u] /\ pointer'[u] = pointer[u]
    BY <1>1, <1>2
  <2>2. ASSUME asked[u] # 0, NEW k \in 0..Bytes(u) - 1
        PROVE  Reads(memory', pfns', pointer'[u] + k) = Reads(memory, pfns, pointer[u] + k)
    <3>1. PICK j \in Indices : containers[j].reference = u
      BY <1>1, <2>2 DEF AskedInUse, InUse, Indices
    <3>2. PICK p \in 0..l - 1 : p = PageAt(pointer[u] + k)
      BY <1>1, <1>3, <3>1, ArrayPlace
    <3>3. pfns'[p + 1] = pfns[p + 1]
      BY <1>4, <3>2
    <3> QED BY <2>1, <3>2, <3>3, <1>2 DEF Reads
  <2> QED BY <2>1, <2>2, SameArray
<1>6. arrays[v] = <<>>
  BY <1>1 DEF ReadThrough, AskedInUse
<1>7. arrays'[v] # <<>>
  <2>1. asked'[v] = n
    BY <1>1, <1>2
  <2> QED BY <2>1, <1>1 DEF ReadThrough
<1>8. arrays' \in [PtrVars -> Seq({Zero} \cup (PtrVars \X Nat))]
  BY <1>1 DEF ReadThrough, Byte
<1> QED BY <1>5, <1>6, <1>7, <1>8 DEF Arrays!Create, Arrays!OthersUnchanged

(* vcrealloc keeps the bytes the two lengths have in common, and all those *)
(* of the other arrays.                                                    *)
LEMMA ReallocResizes ==
  ASSUME ArraysIInv, ArraysIInv', ReallocCounts # {}, status = "running", status' = "running",
         NEW v \in PtrVars, InUse(v), NEW n \in Nat \ {0}, ContainerRealloc(v, n)
  PROVE  Arrays!Resize({v})
<1>1. /\ FramesIInv /\ FramesIInv' /\ AskedInUse
      /\ asked \in [PtrVars -> Nat] /\ ReadThrough /\ ReadThrough'
  BY InOrder, ReadThroughHolds, ReadThroughNext DEF ArraysIInv, LayoutIInv, LayoutType
<1>2. PICK i \in Indices, d \in Int : containers[i].reference = v /\ Reallocated(i, v, n, d)
  BY <1>1, ReallocRuns
<1>3. asked' = [asked EXCEPT ![v] = n] /\ asked'[v] = n
  BY <1>1, <1>2 DEF Reallocated
<1>4. \A u \in PtrVars : \A k \in 0..Bytes(u) - 1 :
        InUse(u) /\ (u = v => k < Bytes(u)') =>
          Reads(memory', pfns', pointer'[u] + k) = Reads(memory, pfns, pointer[u] + k)
  BY <1>1, <1>2, BytesKept
<1>5. ASSUME NEW u \in PtrVars \ {v} PROVE arrays'[u] = arrays[u]
  <2>1. asked'[u] = asked[u]
    BY <1>1, <1>3
  <2>2. asked[u] # 0 => InUse(u)
    BY <1>1 DEF AskedInUse
  <2>3. \A k \in 0..Bytes(u) - 1 : asked[u] # 0 =>
          Reads(memory', pfns', pointer'[u] + k) = Reads(memory, pfns, pointer[u] + k)
    BY <1>4, <2>2
  <2> QED BY <2>1, <2>3, SameArray
<1>6. asked[v] # 0
  BY <1>1 DEF AskedInUse
<1>7. PICK s \in Nat \ {0} :
        s = Bytes(v) /\ arrays[v] = [k \in 1..s |-> Reads(memory, pfns, pointer[v] + (k - 1))]
  BY <1>1, <1>6 DEF ReadThrough
<1>8. PICK t \in Nat \ {0} :
        t = Bytes(v)' /\ arrays'[v] = [k \in 1..t |-> Reads(memory', pfns', pointer'[v] + (k - 1))]
  BY <1>1, <1>3 DEF ReadThrough
<1>9. ASSUME NEW k \in 1..s, k \in 1..t PROVE arrays'[v][k] = arrays[v][k]
  <2>1. k - 1 \in 0..Bytes(v) - 1 /\ k - 1 < Bytes(v)'
    BY <1>7, <1>8, <1>9
  <2>2. Reads(memory', pfns', pointer'[v] + (k - 1)) = Reads(memory, pfns, pointer[v] + (k - 1))
    BY <1>4, <2>1
  <2> QED BY <1>7, <1>8, <1>9, <2>2
<1>10. arrays[v] # <<>> /\ arrays'[v] # <<>>
  BY <1>1, <1>3, <1>6 DEF ReadThrough
<1>11. \A k \in DOMAIN arrays[v] \cap DOMAIN arrays'[v] : arrays'[v][k] = arrays[v][k]
  BY <1>7, <1>8, <1>9
<1>12. arrays' \in [PtrVars -> Seq({Zero} \cup (PtrVars \X Nat))]
  BY <1>1 DEF ReadThrough, Byte
<1> QED BY <1>5, <1>10, <1>11, <1>12 DEF Arrays!Resize, Arrays!OthersUnchanged

(* The caller's store fills its array and no other. *)
LEMMA StoreFills ==
  ASSUME ArraysIInv, ArraysIInv', status = "running", NEW v \in PtrVars, InUse(v), StoreThrough(v)
  PROVE  Arrays!Store(v)
<1>1. FramesIInv /\ AskedInUse /\ ReadThrough /\ ReadThrough'
  BY ReadThroughHolds, ReadThroughNext DEF ArraysIInv
<1>2. Accessible(table, pointer[v], Bytes(v))
  BY <1>1, StoreFinds
<1>3. UNCHANGED <<pfns, pointer, asked, status>>
  BY <1>2 DEF StoreThrough, Bytes, bookkeeping, caller
<1>4. asked[v] # 0
  BY <1>1 DEF AskedInUse
<1>5. PICK s \in Nat \ {0} :
        s = Bytes(v) /\ arrays[v] = [k \in 1..s |-> Reads(memory, pfns, pointer[v] + (k - 1))]
  BY <1>1, <1>4 DEF ReadThrough
<1>6. Bytes(v)' = s
  BY <1>3, <1>5 DEF Bytes
<1>7. arrays'[v] = [k \in 1..s |-> Reads(memory', pfns, pointer[v] + (k - 1))]
  BY <1>1, <1>3, <1>4, <1>6 DEF ReadThrough
<1>8. ASSUME NEW u \in PtrVars, NEW k \in 0..Bytes(u) - 1, InUse(u)
      PROVE  Reads(memory', pfns, pointer[u] + k) =
               IF u = v THEN Tag(v, k) ELSE Reads(memory, pfns, pointer[u] + k)
  <2>1. PICK j \in Indices : containers[j].reference = u
    BY <1>8 DEF InUse, Indices
  <2>2. PICK at \in Nat, size \in Nat : at = pointer[u] /\ size = Bytes(u)
    BY <1>1, <2>1, ArrayPlace
  <2>3. PICK x \in Int : x = at + k
    BY <2>2
  <2>4. PageAt(x) \in 0..Len(pfns) - 1
    BY <1>1, <2>1, <2>2, <2>3, ArrayPlace
  <2>5. Reads(memory', pfns, x) =
          IF x \in pointer[v]..pointer[v] + Bytes(v) - 1 THEN Tag(v, x - pointer[v])
          ELSE Reads(memory, pfns, x)
    BY <1>1, <2>4, BytesWritten
  <2>6. CASE u = v
    <3>1. x \in at..at + size - 1 /\ x - at = k
      BY <2>2, <2>3
    <3> QED BY <2>2, <2>3, <2>5, <2>6, <3>1
  <2>7. CASE u # v
    BY <1>1, <1>8, <2>2, <2>3, <2>5, <2>7, ArraysApart
  <2> QED BY <2>6, <2>7
<1>9. ASSUME NEW u \in PtrVars \ {v} PROVE arrays'[u] = arrays[u]
  <2>1. asked[u] # 0 => InUse(u)
    BY <1>1 DEF AskedInUse
  <2>2. \A k \in 0..Bytes(u) - 1 : asked[u] # 0 =>
          Reads(memory', pfns', pointer'[u] + k) = Reads(memory, pfns, pointer[u] + k)
    BY <1>3, <1>8, <2>1
  <2>3. status' = "running" /\ asked'[u] = asked[u]
    BY <1>3
  <2> QED BY <2>2, <2>3, SameArray
<1>10. \A k \in 1..s : Reads(memory', pfns, pointer[v] + (k - 1)) = Tag(v, k - 1)
  <2>1. \A k \in 1..s : k - 1 \in 0..Bytes(v) - 1
    BY <1>5
  <2> QED BY <2>1, <1>8
<1>11. arrays'[v] = [k \in DOMAIN arrays[v] |-> Tag(v, k - 1)]
  BY <1>5, <1>7, <1>10
<1>12. arrays[v] # <<>> /\ arrays \in [PtrVars -> Seq(Byte)] /\ arrays' \in [PtrVars -> Seq(Byte)]
  BY <1>1, <1>3, <1>4 DEF ReadThrough
<1>13. arrays' = [arrays EXCEPT ![v] = [k \in DOMAIN arrays[v] |-> Tag(v, k - 1)]]
  BY <1>9, <1>11, <1>12
<1> QED BY <1>12, <1>13 DEF Arrays!Store

(* Every step of a hypercontainer is one of the caller's arrays, or shows  *)
(* nothing of itself.                                                      *)
LEMMA ArraysStep == ArraysIInv /\ ArraysIInv' /\ [Next]_vars => [Arrays!Next]_arrays
<1> SUFFICES ASSUME ArraysIInv, ArraysIInv', [Next]_vars PROVE Arrays!Next \/ arrays' = arrays
  OBVIOUS
<1>1. CASE status' # "running"
  <2>1. arrays' = [v \in PtrVars |-> <<>>]
    BY <1>1 DEF arrays, Contents
  <2> QED BY <2>1 DEF Arrays!Next, Arrays!Discard
<1>2. CASE UNCHANGED <<pointer, asked, table, memory, status>>
  BY <1>2 DEF arrays, Contents, ByteAt
<1>3. ASSUME status' = "running", NEW v \in PtrVars, NEW n \in AllocCounts, vcmalloc(v, n)
      PROVE  Arrays!Next
  <2>1. Arrays!Create(v)
    BY <1>3, AllocCreates, HyperContainerAssumption DEF vcmalloc, Running
  <2> QED BY <2>1 DEF Arrays!Next
<1>4. ASSUME status' = "running", NEW v \in PtrVars, NEW n \in ReallocCounts, vcrealloc(v, n)
      PROVE  Arrays!Next
  <2>1. status = "running" /\ InUse(v) /\ ContainerRealloc(v, n) /\ n \in Nat \ {0}
    BY <1>4, HyperContainerAssumption DEF vcrealloc, Running
  <2>2. Arrays!Resize({v})
    BY <1>4, <2>1, ReallocResizes
  <2>3. {v} \in SUBSET PtrVars
    OBVIOUS
  <2> QED BY <2>2, <2>3 DEF Arrays!Next
<1>5. ASSUME NEW v \in PtrVars, Store(v) PROVE Arrays!Next
  <2>1. Arrays!Store(v)
    BY <1>5, StoreFills DEF Store, Running
  <2> QED BY <2>1 DEF Arrays!Next
<1>6. ASSUME NEW j, Extend(j)
      PROVE  status' # "running" \/ UNCHANGED <<pointer, asked, table, memory, status>>
  BY <1>6 DEF Extend, ExtendCcStorage, ExtendPfnsStorage, Throw, caller, os
<1>7. vccfree => status' # "running"
  BY DEF vccfree, HyperContainerFree, Throw
<1>8. UNCHANGED vars => UNCHANGED <<pointer, asked, table, memory, status>>
  BY DEF vars, caller, os
<1> QED BY <1>1, <1>2, <1>3, <1>4, <1>5, <1>6, <1>7, <1>8 DEF Next, Ended

LEMMA ArraysInit == Init => ArraysIInv /\ Arrays!Init
<1> SUFFICES ASSUME Init PROVE ArraysIInv /\ Arrays!Init
  OBVIOUS
<1>1. FramesIInv
  BY FramesInit
<1>2. /\ Len(containers) = 0 /\ \A v \in PtrVars : asked[v] = 0
  BY DEF Init
<1>3. AskedInUse
  BY <1>2 DEF AskedInUse, InUse
<1>4. arrays = [v \in PtrVars |-> <<>>]
  BY <1>2 DEF arrays, Contents
<1> QED BY <1>1, <1>3, <1>4 DEF ArraysIInv, Arrays!Init

LEMMA ArraysIInvStep == ArraysIInv /\ [Next]_vars => ArraysIInv'
BY FramesStep, AskedStep DEF ArraysIInv

LEMMA ArraysIInvHolds == Spec => []ArraysIInv
BY ArraysInit, ArraysIInvStep, PTL DEF Spec

(* A hypercontainer gives its caller independent arrays that keep their    *)
(* contents when they, or their neighbours, are reallocated                *)
(* (vcmalloc.h:341-471), for every page size, region, number of frames,    *)
(* set of variables and sequence of calls: it implements CallerArrays.     *)
THEOREM HyperContainerKeepsArrays == Spec => ArraysKept
BY ArraysIInvHolds, ArraysInit, ArraysStep, PTL DEF Spec, ArraysKept, Arrays!Spec
=============================================================================
