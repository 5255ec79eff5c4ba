-------------------------- MODULE ContainerRealloc2 --------------------------
(***************************************************************************)
(* vcrealloc2 (libs_src/vcmalloc.h, ContainerRealloc2): the reallocation   *)
(* of a run of consecutive containers in one call, on the hypercontainer   *)
(* of HyperContainer.tla.                                                  *)
(*                                                                         *)
(* The code walks the run twice.  The first pass serves the containers     *)
(* that shrink and sets the frames they give up aside; then the            *)
(* hypercontainer is mapped anew, surplus frames are freed or missing ones *)
(* allocated, and the second pass serves the containers that grow, after   *)
(* which everything is mapped once more.  Each pass is given here by what  *)
(* it leaves for container i, in place of its loop over the run.           *)
(***************************************************************************)
EXTENDS HyperContainer, SequencesExt

CONSTANTS
  Runs,   \* bound: the arrays of element counts passed to vcrealloc2
  Uses    \* what the caller may ask for beyond the careful calls, see Admitted

KnownUses == {"another behind a growing one", "growth by pages", "shrink to none"}

ASSUME Realloc2Assumption ==
  /\ Runs \subseteq Seq((Nat \ {0}) \cup {-1})
  /\ Uses \subseteq KnownUses

All == 1..Len(containers)

(* The pages asked for container i, when the caller asks for n elements or *)
(* says with -1 that it stays as it is.                                    *)
RequestedPages2(i, n) ==
  IF n \in {-1, containers[i].elements_num} THEN nbrOfPages(Context(i))
                                            ELSE RequestedPages(Context(i), n)

SumBefore(f) ==
  LET sum[i \in 1..Len(containers) + 1] == IF i = 1 THEN 0 ELSE sum[i - 1] + f[i - 1]
  IN  sum

(* A run: its containers, the counts asked for, the pages they make for    *)
(* each container of the hypercontainer, how many it has to give up or to  *)
(* take for that, and how many those before it.                            *)
Run(first, counts) ==
  LET in == first..first + Len(counts) - 1
      pages    == [i \in All |-> nbrOfPages(Context(i))]
      requests == [i \in All |-> IF i \in in THEN RequestedPages2(i, counts[i - first + 1])
                                             ELSE pages[i]]
      gives == [i \in All |-> Max({0, pages[i] - requests[i]})]
      takes == [i \in All |-> Max({0, requests[i] - pages[i]})]
  IN  [in     |-> in,
       first  |-> first,
       counts |-> [i \in in |-> counts[i - first + 1]],
       pages  |-> requests,
       gives  |-> gives, given |-> SumBefore(gives),
       takes  |-> takes, taken |-> SumBefore(takes)]

(* The variable "steps" of each pass when its loop is at container i. *)
MutGivenUpTo(r, i) == r.given[i + 1]   \* mutant: added too early
GivenBefore(r, i) == r.given[i]
TakenBefore(r, i) == r.taken[i]

AllGiven(r) == r.given[Len(containers) + 1]
AllTaken(r) == r.taken[Len(containers) + 1]

-----------------------------------------------------------------------------
(* The page frame array as a concatenation of what belongs to each         *)
(* container: in tempPFNs the frames it keeps, in sparePFNs those it gives *)
(* up, and after the second pass the ones it is given.                     *)
Concat(Part(_)) == FlattenSeq([i \in All |-> Part(i)])

OwnFrames(i) ==
  SubSeq(pfns, getPFNsPosition(i) + 1, getPFNsPosition(i) + nbrOfPages(Context(i)))

MutKeepsLast(r, i) == SubSeq(OwnFrames(i), r.gives[i] + 1, Len(OwnFrames(i)))   \* mutant
KeptFrames(r, i)  == SubSeq(OwnFrames(i), 1, Len(OwnFrames(i)) - r.gives[i])
GivenFrames(r, i) ==
  SubSeq(OwnFrames(i), Len(OwnFrames(i)) - r.gives[i] + 1, Len(OwnFrames(i)))

(* Growing containers are served from the end of the spare frames.         *)
AddedFrames(r, spare, i) ==
  LET left == AllTaken(r) - TakenBefore(r, i)
  IN  SubSeq(spare, left - r.takes[i] + 1, left)

FramesAfterGiving(r) == Concat(LAMBDA i : KeptFrames(r, i))
FramesAfterTaking(r, spare) ==
  Concat(LAMBDA i : KeptFrames(r, i) \o AddedFrames(r, spare, i))

(* Both passes set the element count of the containers they serve.         *)
ContextsAfter(r, served) ==
  [i \in All |->
     IF i \in served THEN [containers[i] EXCEPT !.elements_num =
                          ElementsIn(Context(i), r.pages[i])]
     ELSE containers[i]]

(* How far each pass moves container i.  The first lowers a container by   *)
(* the pages given up before it.  The second raises the containers that    *)
(* grow and those behind the run by the pages taken before them, and       *)
(* lowers the others of the run by as much.                                *)
FirstMove(r, i) == -(GivenBefore(r, i) * PageSize)
SecondMove(r, i) ==
  IF i \in r.in /\ r.takes[i] = 0 THEN -(TakenBefore(r, i) * PageSize)
                                    ELSE TakenBefore(r, i) * PageSize

PointersAfter(move) ==
  [v \in PtrVars |->
     IF InUse(v) THEN pointer[v] + move[CHOOSE i \in All : containers[i].reference = v]
     ELSE pointer[v]]

-----------------------------------------------------------------------------
(* The first pass moves the guest bytes of each shrinking container down,  *)
(* one container after the other, all within the old mapping.              *)
GuestsMovedDown(r) ==
  LET m[i \in 0..Len(containers)] ==
        IF i = 0 THEN memory
        ELSE IF r.gives[i] = 0 THEN m[i - 1]
        ELSE CopyGuest(m[i - 1], table, Context(i), -(r.gives[i] * PageSize))
  IN  m[Len(containers)]

GuestsAccessible(r) ==
  \A i \in All : r.gives[i] > 0 =>
    GuestAccessible(table, Context(i), -(r.gives[i] * PageSize))

(* The second pass copies the guest bytes of each growing container, read  *)
(* through the mapping t of the first, to the first frame it is given.     *)
GuestsCopiedUp(r, spare, m, t) ==
  [f \in Frames |->
     LET gets(i) == r.takes[i] > 0 /\ AddedFrames(r, spare, i)[1] = f
     IN  IF \E i \in All : gets(i)
         THEN LET i   == CHOOSE j \in All : gets(j)
                  src == nextAddress(Context(i)) + FirstMove(r, i)
                  from == PageSize - guestBytes(Context(i))   \* lastPageOffset, or past the end
              IN  [o \in 0..PageSize - 1 |-> IF o >= from THEN m[t[PageAt(src)]][o] ELSE m[f][o]]
         ELSE m[f]]

-----------------------------------------------------------------------------
Suffix(r, fs) == SubSeq(fs, getPFNsPosition(r.first) + 1, Len(fs))
RunAt(r)   == mappingAddress(Context(r.first))
Unmapped(r, t) == UnmapFrom(t, RunAt(r), PagesFrom(getPFNsPosition(r.first)))

AskedAfter(r) ==
  [v \in PtrVars |->
     IF \E i \in r.in : containers[i].reference = v /\ r.counts[i] # -1
     THEN r.counts[CHOOSE i \in r.in : containers[i].reference = v]
     ELSE asked[v]]

(* Everything up to the frees: the passes have changed the bookkeeping     *)
(* before the first call of the OS that can fail.                          *)
GivePages(r) ==
  /\ containers' = ContextsAfter(r, {i \in All : r.gives[i] > 0})
  /\ pointer' = PointersAfter([i \in All |-> FirstMove(r, i)])
  /\ pfns' = FramesAfterGiving(r)

GivingFails(r, bare) ==
  /\ GivePages(r)
  /\ memory' = GuestsMovedDown(r)
  /\ table' = bare
  /\ Throw("cannot map")
  /\ UNCHANGED <<containers_max, pfns_max, asked, frames>>

(* The frames set aside beyond what the growing containers need.  They are *)
(* the process's own, see FramesInOrder, so that freeing them succeeds.    *)
Surplus(r, spare) == Range(SubSeq(spare, AllTaken(r) + 1, Len(spare)))
PfnsNeeded(r, kept) == 2 * Len(kept) + AllTaken(r)

TakingFails(r, spare, kept, now) ==
  /\ GivePages(r)
  /\ table' = now
  /\ memory' = Zeroed(GuestsMovedDown(r), Surplus(r, spare))
  /\ \E got \in Grants(Max({0, AllTaken(r) - AllGiven(r)})) :
       /\ frames' = (frames \ Surplus(r, spare)) \cup Range(got)
       /\ \/ /\ Len(got) < AllTaken(r) - AllGiven(r)
             /\ Throw("out of frames")
          \/ /\ Len(got) >= AllTaken(r) - AllGiven(r)
             /\ PfnsNeeded(r, kept) > pfns_max
             /\ Throw("no memory for pfns")
  /\ UNCHANGED <<containers_max, pfns_max, asked>>

OnlyGives(r, spare, now) ==
  /\ GivePages(r)
  /\ table' = now
  /\ memory' = Zeroed(GuestsMovedDown(r), Surplus(r, spare))
  /\ frames' = frames \ Surplus(r, spare)
  /\ asked' = AskedAfter(r)
  /\ UNCHANGED <<containers_max, pfns_max, status>>

(* The second pass.  The page it copies through is outside of the          *)
(* hypercontainer and maps one spare frame at a time; its last act is to   *)
(* map the hypercontainer again.                                           *)
TakesPages(r, spare, kept, now) ==
  \E got \in Grants(Max({0, AllTaken(r) - AllGiven(r)})) :
    LET new  == spare \o got
        fs   == FramesAfterTaking(r, new)
        tail == Suffix(r, fs)
        bare == Unmapped(r, now)
    IN  /\ Len(got) >= AllTaken(r) - AllGiven(r)
        /\ frames' = (frames \ Surplus(r, spare)) \cup Range(got)
        /\ pfns_max' = PfnsMaxFor(PfnsNeeded(r, kept))
        /\ containers' = ContextsAfter(r, {i \in All : r.gives[i] + r.takes[i] > 0})
        /\ pointer' = PointersAfter([i \in All |-> FirstMove(r, i) + SecondMove(r, i)])
        /\ pfns' = fs
        /\ memory' = GuestsCopiedUp(r, new, Zeroed(GuestsMovedDown(r), Surplus(r, spare)), now)
        /\ UNCHANGED containers_max
        /\ \/ /\ CanMap(bare, frames', RunAt(r), tail)
              /\ table' = MapPages(bare, RunAt(r), tail)
              /\ asked' = AskedAfter(r)
              /\ UNCHANGED status
           \/ /\ ~CanMap(bare, frames', RunAt(r), tail)
              /\ table' = bare
              /\ Throw("cannot map")
              /\ UNCHANGED asked

ContainerRealloc2(r) ==
  LET kept  == FramesAfterGiving(r)
      spare == Concat(LAMBDA i : GivenFrames(r, i))
      bare  == Unmapped(r, table)
      now   == MapPages(bare, RunAt(r), Suffix(r, kept))
      remapped == Suffix(r, kept) = <<>> \/ CanMap(bare, frames, RunAt(r), Suffix(r, kept))
  IN  \/ /\ ~GuestsAccessible(r)
         /\ Throw("access violation")
         /\ UNCHANGED <<bookkeeping, caller, os>>
      \/ GuestsAccessible(r) /\ ~remapped /\ GivingFails(r, bare)
      \/ /\ GuestsAccessible(r) /\ remapped
         /\ \/ AllTaken(r) = 0 /\ OnlyGives(r, spare, now)
            \/ AllTaken(r) > 0 /\ TakingFails(r, spare, kept, now)
            \/ AllTaken(r) > 0 /\ TakesPages(r, spare, kept, now)

-----------------------------------------------------------------------------
(* What goes wrong in the code, as conditions on the call.                 *)
AnotherBehindGrowing(r) ==
  \E i, j \in r.in : i < j /\ r.takes[i] > 0 /\ r.takes[j] = 0

GrowthByPages(r) ==
  \E i \in r.in : r.takes[i] > 1 /\ guestBytes(Context(i)) > 0

ShrinkToNone(r) ==
  \E i, j \in r.in : /\ i < j /\ r.gives[i] > 0
                     /\ r.gives[j] > 0 /\ r.pages[j] = 0

Admitted(r) ==
  /\ AnotherBehindGrowing(r) => "another behind a growing one" \in Uses
  /\ GrowthByPages(r) => "growth by pages" \in Uses
  /\ ShrinkToNone(r) => "shrink to none" \in Uses

(* The runs a caller may pass with v: existing containers, with elements   *)
(* of the type of v.                                                       *)
RunsFrom(v) ==
  {r \in {Run(Position(v), counts) : counts \in Runs} :
     /\ r.in \subseteq All
     /\ \A i \in r.in : containers[i].type_size = TypeSize[v]
     /\ Admitted(r)}

vcrealloc2(v) == Running /\ InUse(v) /\ \E r \in RunsFrom(v) : ContainerRealloc2(r)

Next2 == Next \/ \E v \in PtrVars : vcrealloc2(v)

Spec2 == Init /\ [][Next2]_vars
=============================================================================
