---------------------------- MODULE SearchProofs ----------------------------
(***************************************************************************)
(* The lookup, for every word width and every ascending array that is not  *)
(* empty: it is right and reads entries of the array only.  The steps are  *)
(* powers of two, which is needed at one place only: a step halves without *)
(* a remainder, so that the steps still to come cover what lies between.   *)
(***************************************************************************)
EXTENDS Search, NaturalsProofs, SequenceTheorems

(* The powers of two, as the least set that has 1 and every double.        *)
Doubling(S) == 1 \in S /\ \A k \in S : 2 * k \in S
Powers == {m \in Nat : \A S \in SUBSET Nat : Doubling(S) => m \in S}

(* 1 is a power of two, and so is every double. *)
LEMMA PowersGrow ==
  /\ Powers \subseteq Nat \ {0} /\ 1 \in Powers
  /\ \A m \in Powers : 2 * m \in Powers
<1>1. 1 \in Powers
  BY DEF Powers, Doubling
<1>2. ASSUME NEW m \in Powers PROVE 2 * m \in Powers
  <2>1. m \in Nat
    BY DEF Powers
  <2>2. ASSUME NEW S \in SUBSET Nat, Doubling(S) PROVE 2 * m \in S
    BY <2>2 DEF Powers, Doubling
  <2> QED BY <2>1, <2>2 DEF Powers
<1>3. ASSUME NEW m \in Powers PROVE m \in Nat \ {0}
  <2> DEFINE S == Nat \ {0}
  <2>1. Doubling(S)
    BY DEF Doubling
  <2>2. S \in SUBSET Nat
    OBVIOUS
  <2> HIDE DEF S
  <2>3. m \in S
    BY <2>1, <2>2 DEF Powers
  <2> QED BY <2>3 DEF S
<1> QED BY <1>1, <1>2, <1>3

(* A power of two is 1 or the double of one. *)
LEMMA PowersShrink ==
  ASSUME NEW m \in Powers, m # 1
  PROVE  Halved(m) \in Powers /\ m = 2 * Halved(m)
<1> DEFINE S == {1} \cup {2 * k : k \in Powers}
<1>1. S \in SUBSET Nat
  BY PowersGrow
<1>2. Doubling(S)
  BY PowersGrow DEF Doubling
<1> HIDE DEF S
<1>3. m \in S
  BY <1>1, <1>2 DEF Powers
<1>4. PICK k \in Powers : m = 2 * k
  BY <1>3 DEF S
<1>5. k \in Nat
  BY PowersGrow
<1>6. (2 * k) \div 2 = k
  BY <1>5
<1> QED BY <1>4, <1>6 DEF Halved

(* A machine word has room for twice the entries. *)
LEMMA WordSize == SizeMod \in Nat \ {0}
BY SearchAssumption, PowerOfTwo DEF SizeMod

(* The remainder of a number that is at most one word away from its range. *)
LEMMA WrapOf ==
  ASSUME NEW x \in Int
  PROVE  /\ 0 <= x /\ x < SizeMod => Wrap(x) = x
         /\ x < 0 /\ -x <= SizeMod => Wrap(x) = x + SizeMod
         /\ SizeMod <= x /\ x < 2 * SizeMod => Wrap(x) = x - SizeMod
<1> PICK M \in Nat \ {0} : M = SizeMod
  BY WordSize
<1>1. /\ 0 <= x /\ x < M => x % M = x
  OBVIOUS
<1>2. x < 0 /\ -x <= M => x % M = x + M
  OBVIOUS
<1>3. M <= x /\ x < 2 * M => x % M = x - M
  OBVIOUS
<1> QED BY <1>1, <1>2, <1>3 DEF Wrap

(* A number that fits an INT64, kept in a word, is what Signed reads, and  *)
(* adding to the word adds to the number.                                  *)
Fits(x) == 2 * x < SizeMod /\ -2 * x < SizeMod

(* Signed inverts Wrap, and sums may be wrapped early. *)
LEMMA SignedWords ==
  ASSUME NEW x \in Int, Fits(x)
  PROVE  /\ Signed(Wrap(x)) = x /\ (x >= 0 => Wrap(x) = x)
         /\ \A d \in Int : Fits(x + d) => Wrap(Wrap(x) + d) = Wrap(x + d)
<1>1. PICK M \in Nat \ {0} : M = SizeMod
  BY WordSize
<1>2. 2 * x < M /\ -2 * x < M
  BY <1>1 DEF Fits
<1>3. Wrap(x) = IF x >= 0 THEN x ELSE x + M
  BY <1>1, <1>2, WrapOf
<1>4. Signed(Wrap(x)) = x
  BY <1>1, <1>2, <1>3 DEF Signed
<1>5. ASSUME NEW d \in Int, Fits(x + d)
      PROVE  Wrap(Wrap(x) + d) = Wrap(x + d)
  <2>1. PICK y \in Int : y = x + d
    OBVIOUS
  <2>2. 2 * y < M /\ -2 * y < M
    BY <1>1, <1>5, <2>1 DEF Fits
  <2>3. Wrap(y) = IF y >= 0 THEN y ELSE y + M
    BY <1>1, <2>2, WrapOf
  <2>4. Wrap(x) + d = IF x >= 0 THEN y ELSE y + M
    BY <1>1, <1>3, <2>1
  <2>5. CASE x >= 0
    BY <2>1, <2>4, <2>5
  <2>6. CASE x < 0
    <3>1. Wrap(y + M) = IF y >= 0 THEN y ELSE y + M
      <4>1. PICK z \in Int : z = y + M
        OBVIOUS
      <4>2. y >= 0 => M <= z /\ z < 2 * M
        BY <2>2, <4>1
      <4>3. y < 0 => 0 <= z /\ z < M
        BY <2>2, <4>1
      <4>4. Wrap(z) = IF y >= 0 THEN z - M ELSE z
        BY ONLY y \in Int, z \in Int, <1>1, <4>2, <4>3, WrapOf
      <4> QED BY ONLY y \in Int, z \in Int, M \in Nat, <4>1, <4>4
    <3> QED BY <2>1, <2>3, <2>4, <2>6, <3>1
  <2> QED BY <2>5, <2>6
<1> QED BY <1>3, <1>4, <1>5

(* The array ascends from any entry to any later one. *)
LEMMA Later ==
  ASSUME NEW s \in Seq(Nat), Ascending(s)
  PROVE  \A i, j \in 1..Len(s) : i < j => s[i] < s[j]
<1> PICK n \in Nat : n = Len(s)
  OBVIOUS
<1>1. \A i \in 1..n : s[i] \in Nat
  OBVIOUS
<1>2. \A i \in 1..n - 1 : s[i] < s[i + 1]
  BY DEF Ascending
<1> DEFINE S == {d \in Nat : \A i \in 1..n : i + d + 1 <= n => s[i] < s[i + d + 1]}
<1>3. 0 \in S
  BY <1>2
<1>4. ASSUME NEW d \in Nat, d \in S PROVE d + 1 \in S
  <2> SUFFICES ASSUME NEW i \in 1..n, i + (d + 1) + 1 <= n PROVE s[i] < s[i + (d + 1) + 1]
    OBVIOUS
  <2>1. s[i] < s[i + d + 1]
    BY <1>4
  <2>2. i + d + 1 \in 1..n - 1 /\ i + d + 1 \in 1..n /\ i + (d + 1) + 1 \in 1..n
        /\ i + (d + 1) + 1 = (i + d + 1) + 1
    OBVIOUS
  <2>3. s[i + d + 1] < s[i + (d + 1) + 1]
    BY <1>2, <2>2
  <2> QED BY <1>1, <2>1, <2>2, <2>3
<1> HIDE DEF S
<1>5. Nat \subseteq S
  BY <1>3, <1>4, InductionBySet
<1> SUFFICES ASSUME NEW i \in 1..n, NEW j \in 1..n, i < j PROVE s[i] < s[j]
  OBVIOUS
<1>6. j - i - 1 \in S /\ j - i - 1 \in Nat
  BY <1>5
<1>7. i + (j - i - 1) + 1 = j
  OBVIOUS
<1> QED BY <1>6, <1>7 DEF S

-----------------------------------------------------------------------------
Last == Entries - 1          \* the index of the last entry
At(x) == ptrs[x + 1]         \* the entry that has index x
Steps == Powers \cup {0}

(* In MSB: the power so far is at most twice the number it is for, and a   *)
(* jump is from an entry that is too small over what lies behind it.       *)
InMsb ==
  pc = "msb" =>
    /\ msb \in Powers /\ arg \in 0..Last /\ (msb = 1 \/ msb <= 2 * arg)
    /\ caller \in {"start", "jump"}
    /\ caller = "jump" => index \in 0..Last /\ arg = Last - index /\ At(index) < elem

(* In the loop that jumps ahead: the entry one step back is the first or   *)
(* too small.                                                              *)
InJump ==
  pc = "jump" =>
    /\ msb \in Steps /\ index \in 0..Last /\ msb <= index
    /\ index = msb \/ At(index - msb) < elem

(* In the loop that halves the step, as it is entered from the other: the  *)
(* address is between the entry one step back and this one.                *)
Entered ==
  /\ index \in 0..Last /\ msb <= index /\ At(index) >= elem
  /\ Supported => At(index - msb) <= elem

(* After that: every step still to come stays in the array, since the next *)
(* one goes up or there are two steps of room below.                       *)
Between ==
  /\ index \in 0..Last /\ index + 2 * msb <= Last
  /\ 2 * msb <= index \/ At(index) <= elem

(* For an address below the first entry the index may leave the array, at  *)
(* its lower end only, and by less than the array is long.                 *)
Astray ==
  \E x \in Int : index = Wrap(x) /\ -Last <= x - 2 * msb /\ x + 2 * msb <= Last

(* The entry with the address looked up is less than two steps away.       *)
InReach ==
  \A i \in 0..Last : At(i) = elem =>
    /\ index - i <= 2 * msb /\ i - index <= 2 * msb
    /\ msb = 0 \/ (index - i < 2 * msb /\ i - index < 2 * msb)

InProbe ==
  pc = "probe" =>
    /\ msb \in Steps
    /\ Entered \/ (Supported /\ Between) \/ (~Supported /\ Astray)
    /\ Supported => InReach

Sorted ==
  /\ ptrs \in Seq(Nat) /\ Entries \in Nat /\ elem \in Nat /\ 2 * Entries < SizeMod
  /\ \A i, j \in 0..Last : i < j => At(i) < At(j)

SearchIInv ==
  /\ ptrs \in Arrays /\ elem \in Addresses
  /\ Entries > 0 => InMsb /\ InJump /\ InProbe /\ SearchCorrect

(* What the lookups of every array start from. *)
LEMMA ArraysSorted ==
  ASSUME ptrs \in Arrays, elem \in Addresses
  PROVE  Sorted
<1>1. ptrs \in Seq(Nat) /\ Ascending(ptrs) /\ 2 * Len(ptrs) < 2 ^ Width /\ elem \in Nat
  <2>1. ptrs \in Seq(Addresses) /\ Ascending(ptrs) /\ 2 * Len(ptrs) < 2 ^ Width
    BY SearchAssumption
  <2>2. Addresses \subseteq Nat
    BY SearchAssumption
  <2>3. ptrs \in Seq(Nat)
    BY <2>1, <2>2, SeqMonotonic
  <2> QED BY <2>1, <2>2, <2>3
<1>2. PICK n \in Nat : n = Len(ptrs)
  BY <1>1
<1>3. \A i, j \in 1..n : i < j => ptrs[i] < ptrs[j]
  BY <1>1, <1>2, Later
<1>4. \A i, j \in 0..n - 1 : i < j => ptrs[i + 1] < ptrs[j + 1]
  <2> SUFFICES ASSUME NEW i \in 0..n - 1, NEW j \in 0..n - 1, i < j PROVE ptrs[i + 1] < ptrs[j + 1]
    OBVIOUS
  <2>1. i + 1 \in 1..n /\ j + 1 \in 1..n /\ i + 1 < j + 1
    OBVIOUS
  <2> QED BY <1>3, <2>1
<1>5. Entries = n /\ Last = n - 1
  BY <1>2 DEF Entries, Last
<1>6. ptrs \in Seq(Nat) /\ Entries \in Nat /\ elem \in Nat /\ 2 * Entries < SizeMod
  BY <1>1, <1>2, <1>5 DEF SizeMod
<1> QED BY <1>4, <1>5, <1>6 DEF Sorted, At

(* What an index that is one of the array reads, and the last of them. *)
LEMMA Indexed ==
  ASSUME Sorted, Entries > 0
  PROVE  /\ Last \in Nat /\ Last = Entries - 1 /\ MaxIndex = Last /\ elem \in Nat
         /\ \A x \in 0..Last : /\ Wrap(x) = x /\ Signed(x) = x /\ At(x) \in Nat
                               /\ Distances(x) = {At(x) - elem}
         /\ \A x \in Int : -Last <= x /\ x <= Last => Fits(x)
         /\ \A i, j \in 0..Last : At(i) < At(j) => i < j
<1>1. PICK n \in Nat, M \in Nat \ {0} : n = Entries /\ M = SizeMod
  BY WordSize DEF Sorted
<1>2. 2 * n < M /\ n > 0 /\ Last = n - 1 /\ ptrs \in Seq(Nat) /\ n = Len(ptrs) /\ elem \in Nat
  BY <1>1 DEF Sorted, Last, Entries
<1>3. ASSUME NEW x \in Int, -Last <= x, x <= Last PROVE Fits(x)
  BY <1>1, <1>2, <1>3 DEF Fits
<1>4. ASSUME NEW x \in 0..Last
      PROVE  /\ Wrap(x) = x /\ Signed(x) = x /\ At(x) \in Nat
             /\ Distances(x) = {At(x) - elem}
  <2>1. Fits(x) /\ x \in Int /\ x >= 0
    BY <1>2, <1>3
  <2>2. Wrap(x) = x /\ Signed(Wrap(x)) = x
    BY <2>1, SignedWords
  <2>3. x \in 0..Entries - 1 /\ x + 1 \in 1..n
    BY <1>1, <1>2
  <2> QED BY <2>2, <2>3, <1>2 DEF Distances, At
<1>5. MaxIndex = Last
  <2>1. Last \in 0..Last /\ Entries - 1 = Last
    BY <1>1, <1>2
  <2> QED BY <2>1, <1>4 DEF MaxIndex
<1>6. ASSUME NEW i \in 0..Last, NEW j \in 0..Last, At(i) < At(j) PROVE i < j
  <2>1. j < i => At(j) < At(i)
    BY DEF Sorted
  <2>2. At(i) \in Nat /\ At(j) \in Nat /\ i \in Int /\ j \in Int
    BY <1>2, <1>4
  <2> QED BY <1>6, <2>1, <2>2
<1>7. Last \in Nat /\ Last = Entries - 1 /\ elem \in Nat
  BY <1>1, <1>2
<1> QED BY ONLY <1>3, <1>4, <1>5, <1>6, <1>7

(* MSB starts with the power 1 for the last index. *)
LEMMA SearchInit == Init => SearchIInv
<1> SUFFICES ASSUME Init PROVE SearchIInv
  OBVIOUS
<1>1. /\ ptrs \in Arrays /\ elem \in Addresses
      /\ pc = "msb" /\ caller = "start" /\ arg = MaxIndex /\ msb = 1
  BY DEF Init
<1>2. Sorted
  BY <1>1, ArraysSorted
<1>3. Entries > 0 => InMsb
  BY <1>1, <1>2, Indexed, PowersGrow DEF InMsb
<1> QED BY <1>1, <1>3 DEF SearchIInv, InJump, InProbe, SearchCorrect

(* The step that follows, and what it is at most. *)
LEMMA StepHalves ==
  ASSUME NEW m \in Powers
  PROVE  /\ m \in Nat \ {0} /\ Halved(m) \in Steps /\ Halved(m) \in Nat /\ 2 * Halved(m) <= m
         /\ Halved(m) = 0 => m = 1
         /\ Halved(m) # 0 => m = 2 * Halved(m)
<1>1. m \in Nat \ {0}
  BY PowersGrow
<1>2. CASE m = 1
  <2>1. Halved(m) = 0
    BY <1>2 DEF Halved
  <2> QED BY <1>2, <2>1 DEF Steps
<1>3. CASE m # 1
  <2>1. Halved(m) \in Powers /\ m = 2 * Halved(m)
    BY <1>3, PowersShrink
  <2>2. Halved(m) \in Nat \ {0}
    BY <2>1, PowersGrow
  <2> QED BY <1>1, <2>1, <2>2 DEF Steps
<1> QED BY <1>2, <1>3

(* The loop of MSB does not wrap around. *)
LEMMA DoubleKeeps ==
  ASSUME Sorted, Entries > 0, InMsb, MsbDouble
  PROVE  InMsb' /\ pc' = "msb"
<1>1. /\ pc = "msb" /\ msb \in Powers /\ arg \in 0..Last /\ msb <= arg
      /\ msb' = Wrap(2 * msb)
      /\ UNCHANGED <<ptrs, elem, pc, caller, arg, index>>
  BY DEF InMsb, MsbDouble, Doubled
<1>2. PICK n \in Nat, M \in Nat \ {0} : n = Entries /\ M = SizeMod
  BY WordSize DEF Sorted
<1>3. 2 * n < M /\ Last = n - 1
  BY <1>2 DEF Sorted, Last
<1>4. msb \in Nat \ {0} /\ 2 * msb \in Powers
  BY <1>1, PowersGrow
<1>5. msb' = 2 * msb
  BY <1>1, <1>2, <1>3, <1>4, WrapOf
<1>6. Last' = Last /\ At(index)' = At(index)
  BY <1>1 DEF Last, Entries, At
<1> QED BY <1>1, <1>4, <1>5, <1>6 DEF InMsb

(* MSB returns what brings the index to an entry, or ends the lookup at a  *)
(* last entry that is too small.                                           *)
LEMMA ReturnKeeps ==
  ASSUME Sorted, Entries > 0, InMsb, MsbReturn
  PROVE  (pc' = "jump" /\ InJump') \/ (pc' = "done" /\ SearchCorrect')
<1> DEFINE m == Halved(msb)
<1>1. /\ msb \in Powers /\ arg \in 0..Last /\ (msb = 1 \/ msb <= 2 * arg) /\ msb > arg
      /\ caller = "jump" => index \in 0..Last /\ arg = Last - index /\ At(index) < elem
      /\ ptrs' = ptrs /\ elem' = elem
  BY DEF InMsb, MsbReturn, Return
<1>2. /\ Last \in Nat /\ Last' = Last
      /\ \A x \in 0..Last : Wrap(x) = x
      /\ \A x : At(x)' = ptrs[x + 1]
  BY <1>1, Indexed DEF Last, Entries, At
<1>3. /\ msb \in Nat \ {0} /\ m \in Nat /\ m \in Steps /\ m <= arg
      /\ m = 0 => msb = 1
  <2> HIDE DEF m
  <2>1. /\ msb \in Nat \ {0} /\ m \in Steps /\ m \in Nat /\ 2 * m <= msb /\ (m = 0 => msb = 1)
        /\ m # 0 => msb = 2 * m
    BY <1>1, StepHalves DEF m
  <2> QED BY <1>1, <1>2, <2>1
<1> HIDE DEF m
<1>4. CASE /\ caller = "start" /\ msb' = m /\ index' = m /\ pc' = "jump"
  BY <1>1, <1>2, <1>3, <1>4 DEF InJump
<1>5. CASE /\ caller = "jump" /\ msb' = m /\ index' = Wrap(index + m) /\ pc' = "jump"
  <2>1. index + m \in 0..Last
    BY <1>1, <1>2, <1>3, <1>5
  <2>2. index' = index + m
    BY <1>2, <1>5, <2>1
  <2>3. index' - msb' = index
    BY <1>1, <1>3, <1>5, <2>2
  <2>4. At(index - msb)' < elem'
    BY <2>3, <1>1, <1>5 DEF At
  <2>5. index' \in 0..Last' /\ msb' <= index' /\ msb' \in Steps
    BY <1>1, <1>2, <1>3, <1>5, <2>1, <2>2
  <2> QED BY <1>5, <2>4, <2>5 DEF InJump
<1>6. CASE /\ caller = "jump" /\ m = 0 /\ result' = -1 /\ pc' = "done"
  <2>1. index = Last /\ At(Last) < elem
    BY <1>1, <1>2, <1>3, <1>6
  <2>2. ASSUME NEW i \in 1..Entries PROVE ptrs[i] # elem
    <3>1. i - 1 \in 0..Last /\ At(i - 1) = ptrs[i] /\ Last \in 0..Last
      <4>1. Last \in Nat /\ Last = Entries - 1
        BY Indexed
      <4>2. Entries \in Nat
        BY DEF Sorted
      <4> QED BY <4>1, <4>2 DEF At
    <3>2. i - 1 < Last => At(i - 1) < At(Last)
      BY <3>1 DEF Sorted
    <3>3. At(i - 1) \in Nat /\ At(Last) \in Nat /\ elem \in Nat
      BY <3>1, Indexed
    <3>4. i - 1 = Last \/ i - 1 < Last
      BY <3>1, <1>2
    <3> QED BY <2>1, <3>1, <3>2, <3>3, <3>4
  <2> QED BY <1>1, <1>6, <2>2 DEF SearchCorrect, Entries
<1>7. caller = "start" \/ caller = "jump"
  BY DEF InMsb, MsbReturn
<1> QED BY <1>4, <1>5, <1>6, <1>7 DEF MsbReturn, Return, m

-----------------------------------------------------------------------------
(* Leaving the loop that jumps ahead leaves the address behind the entry   *)
(* one step back and not behind this one; jumping again needs more room.   *)
LEMMA JumpKeeps ==
  ASSUME Sorted, Entries > 0, InJump, Jump
  PROVE  (pc' = "msb" /\ InMsb') \/ (pc' = "probe" /\ InProbe')
<1>1. /\ msb \in Steps /\ index \in 0..Last /\ msb <= index
      /\ index = msb \/ At(index - msb) < elem
      /\ UNCHANGED <<ptrs, elem, index, result>>
  BY DEF InJump, Jump
<1>2. /\ Last \in Nat /\ Last = Entries - 1 /\ MaxIndex = Last /\ elem \in Nat
      /\ \A x \in 0..Last : Wrap(x) = x /\ At(x) \in Nat /\ Distances(x) = {At(x) - elem}
      /\ \A i, j \in 0..Last : At(i) < At(j) => i < j
      /\ Last' = Last /\ msb \in Nat
  <2>1. Last' = Last
    BY <1>1 DEF Last, Entries
  <2>2. msb \in Nat
    BY <1>1, PowersGrow DEF Steps
  <2> QED BY <2>1, <2>2, Indexed
<1>3. CASE /\ At(index) - elem < 0 /\ pc' = "msb" /\ caller' = "jump"
           /\ arg' = Wrap(MaxIndex - index) /\ msb' = 1
  <2>1. At(index) < elem
    BY <1>1, <1>2, <1>3
  <2>2. Last - index \in 0..Last /\ arg' = Last - index
    <3>1. Last - index \in 0..Last
      BY <1>1, <1>2
    <3> QED BY <1>2, <1>3, <3>1
  <2>3. At(index)' < elem'
    BY <1>1, <2>1 DEF At
  <2>4. msb' \in Powers
    BY <1>3, PowersGrow
  <2> QED BY <1>1, <1>2, <1>3, <2>2, <2>3, <2>4 DEF InMsb
<1>4. CASE ~(At(index) - elem < 0) /\ pc' = "probe" /\ UNCHANGED <<caller, arg, msb>>
  <2>1. At(index) >= elem
    BY <1>1, <1>2, <1>4
  <2>2. Supported => At(index - msb) <= elem
    <3>1. index = msb => At(index - msb) = ptrs[1]
      BY <1>2 DEF At
    <3>2. index - msb \in 0..Last
      BY <1>1, <1>2
    <3>3. ptrs[1] \in Nat
      <4>1. 0 \in 0..Last
        BY <1>2
      <4> QED BY <4>1, <1>2 DEF At
    <3> QED BY <1>1, <1>2, <3>1, <3>2, <3>3 DEF Supported
  <2>3. Supported => InReach
    <3> SUFFICES ASSUME Supported, NEW i \in 0..Last, At(i) = elem
                 PROVE  /\ index - i <= 2 * msb /\ i - index <= 2 * msb
                        /\ msb = 0 \/ (index - i < 2 * msb /\ i - index < 2 * msb)
      BY DEF InReach
    <3>1. PICK y \in 0..Last : y = index - msb
      BY <1>1, <1>2
    <3>2. At(i) \in Nat /\ At(index) \in Nat /\ At(y) \in Nat
      BY <1>1, <1>2
    <3>3. ~(index < i)
      <4>1. index < i => At(index) < At(i)
        BY <1>1 DEF Sorted
      <4> QED BY <4>1, <2>1, <3>2
    <3>4. ~(i < y)
      <4>1. i < y => At(i) < At(y)
        BY DEF Sorted
      <4> QED BY <4>1, <2>2, <3>1, <3>2
    <3> QED BY ONLY <1>1, <1>2, <3>1, <3>3, <3>4, i \in 0..Last
  <2>4. Entered
    BY <1>1, <2>1, <2>2 DEF Entered
  <2>5. (Entered => Entered') /\ (InReach => InReach') /\ (Supported' <=> Supported)
    BY <1>1, <1>2, <1>4 DEF Entered, InReach, Supported, At, Last, Entries
  <2> QED BY <1>1, <1>4, <2>3, <2>4, <2>5 DEF InProbe
<1>5. \E d \in Distances(index) :
        \/ /\ d < 0
           /\ pc' = "msb" /\ caller' = "jump"
           /\ arg' = Wrap(MaxIndex - index)
           /\ msb' = 1
        \/ /\ d >= 0
           /\ pc' = "probe"
           /\ UNCHANGED <<caller, arg, msb>>
  BY DEF Jump
<1>6. Distances(index) = {At(index) - elem} /\ At(index) \in Nat
  BY <1>1, <1>2
<1> QED BY <1>2, <1>3, <1>4, <1>5, <1>6

(* The halving loop with an address that is in reach: it is found, or out  *)
(* of reach when the step is zero, or still in reach after the next step.  *)
LEMMA ProbeKeeps ==
  ASSUME Sorted, Supported, InProbe, Probe
  PROVE  (pc' = "done" /\ SearchCorrect') \/ (pc' = "probe" /\ InProbe')
<1>0. Entries > 0
  BY DEF Supported
<1>1. /\ msb \in Steps /\ index \in 0..Last /\ (Entered \/ Between) /\ InReach
      /\ ptrs' = ptrs /\ elem' = elem
  BY DEF InProbe, Probe, Return, Entered, Between
<1>2. /\ Last \in Nat /\ Last = Entries - 1 /\ elem \in Nat
      /\ \A x \in 0..Last : Wrap(x) = x /\ Signed(x) = x /\ At(x) \in Nat
                            /\ Distances(x) = {At(x) - elem}
      /\ \A i, j \in 0..Last : At(i) < At(j) => i < j
      /\ Last' = Last /\ msb \in Nat
  <2>1. Last' = Last
    BY <1>1 DEF Last, Entries
  <2>2. msb \in Nat
    BY <1>1, PowersGrow DEF Steps
  <2> QED BY <1>0, <2>1, <2>2, Indexed
<1>3. CASE At(index) - elem = 0 /\ Return(Signed(index))
  <2>1. result' = index /\ pc' = "done" /\ At(index) = elem
    BY <1>1, <1>2, <1>3 DEF Return
  <2>2. result' \in 0..Entries' - 1 /\ ptrs'[result' + 1] = elem'
    BY <1>1, <1>2, <2>1 DEF At, Entries
  <2>3. \E i \in 1..Entries' : ptrs'[i] = elem'
    <3>1. result' + 1 \in 1..Entries'
      <4>1. Entries' = Entries /\ Entries \in Nat
        BY <1>1 DEF Entries, Sorted
      <4>2. index + 1 \in 1..Entries
        BY <4>1, <1>1, <1>2
      <4> QED BY <4>1, <4>2, <2>1
    <3> QED BY <3>1, <2>2
  <2> QED BY <2>1, <2>2, <2>3 DEF SearchCorrect
<1>4. CASE At(index) - elem # 0 /\ Exhausted(msb) /\ Return(-1)
  <2>1. msb = 0 /\ result' = -1 /\ pc' = "done"
    BY <1>4 DEF Exhausted, Return
  <2>2. ASSUME NEW i \in 1..Entries PROVE ptrs[i] # elem
    <3>1. i - 1 \in 0..Last /\ At(i - 1) = ptrs[i]
      <4>1. Entries \in Nat
        BY DEF Sorted
      <4> QED BY <4>1, <1>0, <1>2 DEF At
    <3>2. At(i - 1) = elem => i - 1 = index
      BY <3>1, <2>1, <1>1, <1>2 DEF InReach
    <3> QED BY <3>1, <3>2, <1>1, <1>2, <1>4
  <2> QED BY <1>1, <2>1, <2>2 DEF SearchCorrect, Entries
<1>5. ASSUME msb \in Powers, pc' = "probe", msb' = Halved(msb),
             At(index) < elem \/ At(index) > elem,
             index' = Wrap(IF At(index) < elem THEN index + msb ELSE index - msb)
      PROVE  InProbe'
  <2>1. PICK h \in Nat : h = Halved(msb)
    BY <1>5, StepHalves
  <2>2. /\ msb \in Nat \ {0} /\ h \in Steps /\ 2 * h <= msb
        /\ h = 0 => msb = 1
        /\ h # 0 => msb = 2 * h
    BY <1>5, <2>1, StepHalves
  <2>3. PICK y \in Int : y = IF At(index) < elem THEN index + msb ELSE index - msb
    BY <1>1, <1>2
  <2>4. At(index) \in Nat
    BY <1>1, <1>2
  <2>5. /\ y \in 0..Last /\ y + 2 * h <= Last
        /\ 2 * h <= y \/ (y = index - msb /\ At(y) <= elem)
    <3>1. CASE Entered
      <4>1. ~(At(index) < elem) /\ y = index - msb
        BY <3>1, <2>3, <2>4, <1>2 DEF Entered
      <4>2. msb <= index /\ At(y) <= elem
        BY <3>1, <4>1 DEF Entered
      <4> QED BY ONLY <1>1, <1>2, <2>2, <4>1, <4>2, h \in Nat
    <3>2. CASE Between
      <4>1. index + 2 * msb <= Last /\ (2 * msb <= index \/ At(index) <= elem)
        BY <3>2 DEF Between
      <4>2. CASE At(index) < elem
        <5>1. y = index + msb
          BY <4>2, <2>3
        <5> QED BY ONLY <1>1, <1>2, <2>2, <4>1, <5>1, h \in Nat
      <4>3. CASE At(index) > elem
        <5>1. y = index - msb /\ 2 * msb <= index
          BY <4>3, <4>1, <2>3, <2>4, <1>2
        <5> QED BY ONLY <1>1, <1>2, <2>2, <4>1, <5>1, h \in Nat
      <4> QED BY <1>5, <4>2, <4>3
    <3> QED BY <1>1, <3>1, <3>2
  <2>6. index' = y /\ msb' = h
    BY <1>2, <1>5, <2>1, <2>3, <2>5
  <2>7. ASSUME NEW i \in 0..Last, At(i) = elem
        PROVE  /\ y - i <= 2 * h /\ i - y <= 2 * h
               /\ h = 0 \/ (y - i < 2 * h /\ i - y < 2 * h)
    <3>1. index - i < 2 * msb /\ i - index < 2 * msb
      BY <2>2, <2>7, <1>1 DEF InReach
    <3>2. CASE At(index) < elem
      <4>1. y = index + msb /\ index < i
        BY <3>2, <2>3, <2>7, <1>1, <1>2
      <4> QED BY ONLY <1>1, <1>2, <2>2, <3>1, <4>1, h \in Nat, i \in 0..Last
    <3>3. CASE At(index) > elem
      <4>1. y = index - msb /\ i < index
        BY <3>3, <2>3, <2>4, <2>7, <1>1, <1>2
      <4> QED BY ONLY <1>1, <1>2, <2>2, <3>1, <4>1, h \in Nat, i \in 0..Last
    <3> QED BY <1>5, <3>2, <3>3
  <2>8. At(y)' = At(y) /\ At(index)' = At(y) /\ \A i : At(i)' = ptrs[i + 1]
    BY <1>1, <2>6 DEF At
  <2>9. Between'
    <3>1. index' \in 0..Last' /\ index' + 2 * msb' <= Last'
      BY <1>2, <2>5, <2>6
    <3>2. 2 * msb' <= index' \/ At(index)' <= elem'
      BY <1>1, <2>5, <2>6, <2>8
    <3> QED BY <3>1, <3>2 DEF Between
  <2>10. InReach'
    BY <1>1, <1>2, <2>6, <2>7 DEF InReach, At
  <2>11. Supported'
    BY <1>1 DEF Supported, Entries
  <2> QED BY <2>2, <2>6, <2>9, <2>10, <2>11 DEF InProbe
<1>6. At(index) \in Nat /\ Distances(index) = {At(index) - elem}
  BY <1>1, <1>2
<1>7. \/ At(index) - elem = 0 /\ Return(Signed(index))
      \/ At(index) - elem # 0 /\ Exhausted(msb) /\ Return(-1)
      \/ /\ At(index) - elem # 0 /\ ~Exhausted(msb)
         /\ index' = Wrap(IF At(index) - elem < 0 THEN index + msb ELSE index - msb)
         /\ msb' = Halved(msb) /\ UNCHANGED pc
  BY <1>6 DEF Probe
<1>8. CASE /\ At(index) - elem # 0 /\ ~Exhausted(msb)
           /\ index' = Wrap(IF At(index) - elem < 0 THEN index + msb ELSE index - msb)
           /\ msb' = Halved(msb) /\ UNCHANGED pc
  <2>1. msb \in Powers /\ pc' = "probe"
    BY <1>1, <1>8 DEF Steps, Exhausted, Probe
  <2>2. /\ At(index) < elem \/ At(index) > elem
        /\ At(index) - elem < 0 <=> At(index) < elem
    BY <1>2, <1>6, <1>8
  <2> QED BY <1>5, <1>8, <2>1, <2>2
<1> QED BY <1>3, <1>4, <1>7, <1>8 DEF Return

(* The halving loop with an address below the first entry: it may leave    *)
(* the array, never at its upper end.                                      *)
LEMMA ProbeBelow ==
  ASSUME Sorted, Entries > 0, ~Supported, InProbe, Probe
  PROVE  pc' = "done" \/ (pc' = "probe" /\ InProbe')
<1>1. msb \in Steps /\ (Entered \/ Astray) /\ ptrs' = ptrs /\ elem' = elem
  BY DEF InProbe, Probe, Return
<1>2. /\ Last \in Nat /\ Last = Entries - 1 /\ elem \in Nat
      /\ \A x \in 0..Last : Wrap(x) = x /\ At(x) \in Nat /\ Distances(x) = {At(x) - elem}
      /\ \A x \in Int : -Last <= x /\ x <= Last => Fits(x)
  BY Indexed
<1>3. Last' = Last /\ ~Supported'
  BY <1>1 DEF Last, Entries, Supported
<1>4. CASE pc' = "done"
  BY <1>4
<1>5. ASSUME msb \in Powers, pc' = "probe", msb' = Halved(msb),
             NEW x \in Int, NEW y \in Int, y = x + msb \/ y = x - msb,
             index' = Wrap(y), -Last <= y - 2 * Halved(msb), y + 2 * Halved(msb) <= Last
      PROVE  InProbe'
  <2>1. msb' \in Steps
    BY <1>5, StepHalves
  <2>2. Astray'
    BY <1>3, <1>5 DEF Astray
  <2> QED BY <1>3, <2>1, <2>2 DEF InProbe
<1>6. ASSUME NEW d \in Distances(index), d # 0, ~Exhausted(msb), pc' = "probe",
             index' = Wrap(IF d < 0 THEN index + msb ELSE index - msb), msb' = Halved(msb)
      PROVE  InProbe'
  <2>1. msb \in Powers
    BY <1>1, <1>6 DEF Steps, Exhausted
  <2>2. PICK h \in Nat : h = Halved(msb)
    BY <2>1, StepHalves
  <2>3. msb \in Nat \ {0} /\ 2 * h <= msb
    BY <2>1, <2>2, StepHalves
  <2>4. CASE Entered
    <3>1. index \in 0..Last /\ msb <= index /\ At(index) >= elem
      BY <2>4 DEF Entered
    <3>2. ~(d < 0)
      BY <1>2, <1>6, <3>1
    <3>3. PICK y \in Int : y = index - msb
      BY <3>1, <2>3
    <3>4. index' = Wrap(y)
      BY <1>6, <3>2, <3>3
    <3>5. -Last <= y - 2 * h /\ y + 2 * h <= Last /\ index \in Int
      BY ONLY <1>2, <2>3, <3>1, <3>3, h \in Nat
    <3> QED BY <1>5, <1>6, <2>1, <2>2, <3>3, <3>4, <3>5
  <2>5. CASE Astray
    <3>1. PICK x \in Int : index = Wrap(x) /\ -Last <= x - 2 * msb /\ x + 2 * msb <= Last
      BY <2>5 DEF Astray
    <3>2. PICK e \in Int : e = IF d < 0 THEN msb ELSE -msb
      BY <2>3
    <3>3. PICK y \in Int : y = x + e
      OBVIOUS
    <3>4. Fits(x) /\ Fits(x + e)
      <4>1. -Last <= x /\ x <= Last /\ -Last <= x + e /\ x + e <= Last
        BY ONLY <1>2, <2>3, <3>1, <3>2
      <4> QED BY <4>1, <1>2
    <3>5. index' = Wrap(y)
      <4>1. Wrap(Wrap(x) + e) = Wrap(x + e)
        BY <3>4, SignedWords
      <4>2. index \in Int
        BY <3>1, WordSize DEF Wrap
      <4>3. index + e = IF d < 0 THEN index + msb ELSE index - msb
        BY <4>2, <2>3, <3>2
      <4> QED BY <4>1, <4>3, <1>6, <3>1, <3>3
    <3>6. /\ -Last <= y - 2 * h /\ y + 2 * h <= Last
          /\ y = x + msb \/ y = x - msb
      BY ONLY <1>2, <2>3, <3>1, <3>2, <3>3, h \in Nat
    <3> QED BY <1>5, <1>6, <2>1, <2>2, <3>5, <3>6
  <2> QED BY <1>1, <2>4, <2>5
<1> QED BY <1>4, <1>6 DEF Probe, Return

-----------------------------------------------------------------------------
(* Each of the three loops keeps its part, or hands over to the next. *)
LEMMA SearchStep == SearchIInv /\ [Next]_vars => SearchIInv'
<1> SUFFICES ASSUME SearchIInv, [Next]_vars PROVE SearchIInv'
  OBVIOUS
<1>1. ptrs \in Arrays /\ elem \in Addresses /\ Sorted
  BY ArraysSorted DEF SearchIInv
<1>2. ptrs' = ptrs /\ elem' = elem /\ Entries' = Entries
  BY DEF Next, MsbDouble, MsbReturn, Jump, Probe, Done, Return, vars, Entries
<1>3. CASE Entries > 0 /\ pc' = "msb" /\ InMsb'
  BY <1>1, <1>2, <1>3 DEF SearchIInv, InJump, InProbe, SearchCorrect
<1>4. CASE Entries > 0 /\ pc' = "jump" /\ InJump'
  BY <1>1, <1>2, <1>4 DEF SearchIInv, InMsb, InProbe, SearchCorrect
<1>5. CASE Entries > 0 /\ pc' = "probe" /\ InProbe'
  BY <1>1, <1>2, <1>5 DEF SearchIInv, InMsb, InJump, SearchCorrect
<1>6. CASE Entries > 0 /\ pc' = "done" /\ SearchCorrect'
  BY <1>1, <1>2, <1>6 DEF SearchIInv, InMsb, InJump, InProbe
<1>7. CASE ~(Entries > 0)
  BY <1>1, <1>2, <1>7 DEF SearchIInv
<1>8. CASE Entries > 0
  <2>1. InMsb /\ InJump /\ InProbe /\ SearchCorrect
    BY <1>8 DEF SearchIInv
  <2>2. CASE MsbDouble
    BY <1>1, <1>3, <1>8, <2>1, <2>2, DoubleKeeps
  <2>3. CASE MsbReturn
    BY <1>1, <1>4, <1>6, <1>8, <2>1, <2>3, ReturnKeeps
  <2>4. CASE Jump
    BY <1>1, <1>3, <1>5, <1>8, <2>1, <2>4, JumpKeeps
  <2>5. CASE Probe /\ Supported
    BY <1>1, <1>5, <1>6, <1>8, <2>1, <2>5, ProbeKeeps
  <2>6. CASE Probe /\ ~Supported
    <3>1. ~Supported'
      BY <1>2, <2>6 DEF Supported
    <3>2. SearchCorrect'
      BY <3>1 DEF SearchCorrect
    <3> QED BY <1>1, <1>5, <1>6, <1>8, <2>1, <2>6, <3>2, ProbeBelow
  <2>7. CASE UNCHANGED vars
    BY <2>7, <1>1, <1>2, <2>1
       DEF vars, SearchIInv, InMsb, InJump, InProbe, SearchCorrect, Entered, Between, Astray,
           InReach, Supported, Last, Entries, At
  <2> QED BY <2>2, <2>3, <2>4, <2>5, <2>6, <2>7 DEF Next, Done
<1> QED BY <1>7, <1>8

(* The invariant holds in every reachable state. *)
LEMMA SearchIInvHolds == Spec => []SearchIInv
BY SearchInit, SearchStep, PTL DEF Spec

(* The invariant implies the properties of the runs. *)
LEMMA SearchIInvImplies ==
  ASSUME SearchIInv
  PROVE  SearchCorrect /\ ProbesInBounds /\ TargetInReach
<1>1. Sorted
  BY ArraysSorted DEF SearchIInv
<1>2. SearchCorrect
  <2>1. Entries \in Nat /\ (Supported => Entries > 0)
    BY <1>1 DEF Sorted, Supported
  <2> QED BY <2>1 DEF SearchIInv, SearchCorrect
<1>3. ProbesInBounds
  <2> SUFFICES ASSUME pc \in {"jump", "probe"}, Entries > 0
               PROVE  Signed(index) < Entries /\ (Supported => Signed(index) >= 0)
    BY DEF ProbesInBounds
  <2>1. /\ Last \in Nat /\ Last = Entries - 1 /\ \A x \in 0..Last : Signed(x) = x
        /\ \A x \in Int : -Last <= x /\ x <= Last => Fits(x)
    BY <1>1, Indexed
  <2>2. Entries \in Nat
    BY <1>1 DEF Sorted
  <2>3. CASE index \in 0..Last
    BY <2>1, <2>2, <2>3
  <2>4. CASE ~Supported /\ Astray /\ msb \in Steps
    <3>1. PICK x \in Int : index = Wrap(x) /\ -Last <= x - 2 * msb /\ x + 2 * msb <= Last
      BY <2>4 DEF Astray
    <3>2. msb \in Nat
      BY <2>4, PowersGrow DEF Steps
    <3>3. -Last <= x /\ x <= Last
      BY ONLY <2>1, <3>1, <3>2
    <3>4. Signed(index) = x
      BY <2>1, <3>1, <3>3, SignedWords
    <3> QED BY <2>1, <2>2, <2>4, <3>3, <3>4
  <2> QED BY <2>3, <2>4 DEF SearchIInv, InJump, InProbe, Entered, Between
<1>4. TargetInReach
  <2> SUFFICES ASSUME pc = "probe", NEW i \in 1..Entries, ptrs[i] = elem
               PROVE  (IF i - 1 >= index THEN i - 1 - index ELSE index - (i - 1)) <= 2 * msb
    BY DEF TargetInReach
  <2>1. Entries \in Nat /\ Entries > 0
    BY <1>1 DEF Sorted
  <2>2. /\ Last \in Nat /\ Last = Entries - 1 /\ elem \in Nat
        /\ \A x \in 0..Last : At(x) \in Nat
    BY <1>1, <2>1, Indexed
  <2>3. 0 \in 0..Last /\ i - 1 \in 0..Last /\ At(i - 1) = elem /\ At(0) = ptrs[1]
    BY <2>1, <2>2 DEF At
  <2>4. Supported
    <3>1. 0 < i - 1 => At(0) < At(i - 1)
      BY <1>1, <2>3 DEF Sorted
    <3>2. 0 = i - 1 \/ 0 < i - 1
      OBVIOUS
    <3> QED BY <2>1, <2>2, <2>3, <3>1, <3>2 DEF Supported
  <2>5. InReach /\ index \in 0..Last /\ msb \in Steps
    BY <2>1, <2>4 DEF SearchIInv, InProbe, Entered, Between
  <2>6. index - (i - 1) <= 2 * msb /\ i - 1 - index <= 2 * msb
    BY <2>3, <2>5 DEF InReach
  <2> QED BY <2>6
<1> QED BY <1>2, <1>3, <1>4

(* A lookup of any address that is not below the first entry, in any       *)
(* ascending array of any length that a word can count twice, is answered  *)
(* with its position, or with -1 when the array does not have it           *)
(* (vcmalloc.h:28-64).                                                     *)
THEOREM SearchAlwaysCorrect == Spec => []SearchCorrect
BY SearchIInvHolds, SearchIInvImplies, PTL

(* No such lookup reads outside of the array (vcmalloc.h:301), and one of   *)
(* an address below the first entry never reads behind it.                 *)
THEOREM ProbesAlwaysInBounds == Spec => []ProbesInBounds
BY SearchIInvHolds, SearchIInvImplies, PTL

(* Halving the step (vcmalloc.h:54) skips no entry: the address is always  *)
(* within what the steps still to come can cover.                          *)
THEOREM TargetAlwaysInReach == Spec => []TargetInReach
BY SearchIInvHolds, SearchIInvImplies, PTL
=============================================================================
