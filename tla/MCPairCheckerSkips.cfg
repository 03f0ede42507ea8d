SPECIFICATION Spec
CONSTANTS
  d = d
  v = v
  Var = {d, v}
  Pairs <- DclPair
  Statement <- ProgramStatement
  Programs <- SkippedCalls
  MaxBlocks = 10
INVARIANT MessagesTrue
