CONSTANTS
  Address = {1, 2, 3}
  Type = {1, 2}
  Keys = {k1}
  Files = {"results.json"}
  Default = "results.json"
  MaxRuns = 2
  DBL_MAX = 100
SPECIFICATION Spec
INVARIANT SomePromiseKept
