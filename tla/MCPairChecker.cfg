SPECIFICATION Spec
CONSTANTS
  d = d
  v = v
  Var = {d, v}
  Pairs <- DclPair
  Statement <- ProgramStatement
  Programs <- Families
  MaxBlocks = 10
INVARIANTS
  NoneMissed
  
  LastLocationKnown
  DeathExplained
PROPERTY Termination
