CONSTANTS
  f1 = f1
  f2 = f2
  f3 = f3
  f4 = f4
  f5 = f5
  f6 = f6
  f7 = f7
  Frames = {f1, f2, f3, f4, f5, f6, f7}
  PtrVars <- MCVars
  TypeSize <- MCSizes
  PageSize = 4
  Base = 4
  RegionPages <- MCPages
  AllocCounts = {1}
  ReallocCounts = {}
  ExtendCounts = {}
  PfnsMax0 = 2
  ContextsPerPage = 4
  heads = 2
  nodes = 3
  headsP = "headsP"
  nodeP = "nodeP"
  headP <- MCHeads
  arrayP <- MCArrays
  rowP <- MCRows
  Keys = {k1, k2, k3}
  Files = {"results.json", "other.json"}
  Default = "results.json"
  MaxRuns = 4
SPECIFICATION BenchmarkSpec
INVARIANTS HandedOut RowsInPlace NewDataAdded
PROPERTY Reported
