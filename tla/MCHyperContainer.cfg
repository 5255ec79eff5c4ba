CONSTANTS
  v1 = v1
  v2 = v2
  v3 = v3
  f1 = f1
  f2 = f2
  f3 = f3
  f4 = f4
  PtrVars = {v1, v2, v3}
  Frames = {f1, f2, f3, f4}
  TypeSize <- SizesOneTwo
  PageSize = 4
  Base = 4
  RegionPages = 3
  AllocCounts = {2, 3}
  ReallocCounts = {2, 5}
  ExtendCounts = {0, 3}
  PfnsMax0 = 1
  ContextsPerPage = 1
SYMMETRY FrameSymmetry
SPECIFICATION Spec
INVARIANTS TypeOK LayoutInv AddressesAscend FramesInOrder OnlyResourcesRunOut CallerHasRoom
           WithinStorage FreedLeavesNothing
PROPERTIES SuffixMovesByPages ArraysKept
