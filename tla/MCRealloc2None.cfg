CONSTANTS
  v1 = v1
  v2 = v2
  v3 = v3
  f1 = f1
  f2 = f2
  f3 = f3
  f4 = f4
  PtrVars = {v1, v2, v3}
  Frames = {f1, f2, f3, f4}
  TypeSize <- OneByteEach
  PageSize = 4
  Base = 4
  RegionPages = 3
  AllocCounts = {1, 5}
  ReallocCounts = {}
  ExtendCounts = {}
  PfnsMax0 = 2
  ContextsPerPage = 4
  Runs <- OneOrTwo
  Uses = {"shrink to none"}
SYMMETRY FrameSymmetry
SPECIFICATION Spec2
PROPERTY ArraysKept
