SPECIFICATION Spec
CONSTANTS
  d = d
  v = v
  Var = {d, v}
  Pairs <- DclPair
  Statement <- ProgramStatement
  Programs <- CallLoops
  MaxBlocks = 10
PROPERTY CallersRequeued
