---------------------------- MODULE PageGeometry ----------------------------
(***************************************************************************)
(* Where a container lies relative to the page boundaries: the derived     *)
(* quantities of vcma::ContainerContext (libs_src/vcmalloc.h).             *)
(*                                                                         *)
(* A container is the byte range [address, nextAddress).  The containers   *)
(* of a hypercontainer touch each other, so the page in which a container  *)
(* starts may belong to the one before: a container owns the pages from    *)
(* its first page boundary (mappingAddress) to the page boundary after its *)
(* last byte (nextMappingAddress).  Its priorFreeBytes lie in a page of a  *)
(* predecessor, and the guestBytes at the end of its last page are free    *)
(* for the containers that follow.                                         *)
(*                                                                         *)
(* The masks of the code, "x & (page_size - 1)", are remainders because a  *)
(* page size is a power of two; nothing here needs it to be one.           *)
(***************************************************************************)
EXTENDS Integers

CONSTANT PageSize

ASSUME PageSizeAssumption == PageSize \in Nat \ {0}

RoundUp(a) ==
  IF a % PageSize = 0 THEN a ELSE a - (a % PageSize) + PageSize

mappingAddress(c)     == RoundUp(c.address)
MutElementsForBytes(c) == c.address + c.elements_num   \* mutant: sizes of one byte
nextAddress(c)        == c.address + c.type_size * c.elements_num
nextMappingAddress(c) == RoundUp(nextAddress(c))
nbrOfPages(c)         == (nextMappingAddress(c) - mappingAddress(c)) \div PageSize
guestBytes(c)         == nextMappingAddress(c) - nextAddress(c)
priorFreeBytes(c)     == mappingAddress(c) - c.address

(* (SIZE_T)ceil((double)bytes / page_size), a negative number of bytes     *)
(* having been replaced by 0 first.                                        *)
PagesFor(bytes) ==
  IF bytes <= 0 THEN 0 ELSE (bytes + PageSize - 1) \div PageSize

(* What a reallocation of c to n elements asks for: the bytes beyond the   *)
(* ones c keeps in the page of a predecessor, plus the guest bytes, which  *)
(* stay behind the new end ...                                             *)
MutGuestForgotten(c, n) ==   \* mutant: no room asked for the guest bytes
  PagesFor(n * c.type_size - priorFreeBytes(c))
RequestedPages(c, n) ==
  PagesFor(n * c.type_size - priorFreeBytes(c) + guestBytes(c))

(* ... and the number of elements c has once it owns that many pages.      *)
MutPriorForgotten(c, pages) ==   \* mutant: the bytes before the first page not counted
  (pages * PageSize - guestBytes(c)) \div c.type_size
ElementsIn(c, pages) ==
  (pages * PageSize + priorFreeBytes(c) - guestBytes(c)) \div c.type_size
=============================================================================
