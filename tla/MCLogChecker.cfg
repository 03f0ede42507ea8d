SPECIFICATION Spec
CONSTANTS
  d = d
  o = o
  tx = tx
  LogField = {d, o}
  TxBegin <- tx
  LogCode = {"main", "h"}
  Statement <- ProgramStatement
  Programs <- Families
  MaxBlocks = 10
INVARIANTS
  FirstMisusesReported
  
  LogStmtKnown
  LogDeathExplained
