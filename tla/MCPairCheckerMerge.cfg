SPECIFICATION Spec
CONSTANTS
  d = d
  v = v
  Var = {d, v}
  Pairs <- DclPair
  Statement <- ProgramStatement
  Programs <- Branches
  MaxBlocks = 10
INVARIANT MergeBelowPredecessors
