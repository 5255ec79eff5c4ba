CONSTANTS
  Programs = {"binaryTreeType", "graphType", "weightedGraphType", "dispersed"}
  MaxNodes = 6
  Graphs <- MCGraphs
  DBL_MAX <- MCDBL_MAX
  Weights <- MCWeights
  SymWeights <- MCSymWeights
  Address <- MCAddress
  heads = 2
  nodes = 2
SPECIFICATION Spec
INVARIANTS VisitOrder StackWithinHeight ShortestWeights MinimalTree AllFreed
PROPERTY Terminates
