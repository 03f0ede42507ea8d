SPECIFICATION FairSpec
CONSTANTS
  d = d
  v = v
  Statement <- PairStatement
  Programs <- AllPrograms
  InitManager <- PairInitManager
  InitTopValues <- PairInitLatticeValues
  ApplyTransfer <- PairHandleStmt
  LatMeet <- PairMeet
  LatAssertFailed <- PairAssertFailed
  LatEqualFails <- PairEqualFails
  DumpFails <- PairDumpAsserts
INVARIANTS
  ActiveIsStack
  IsSolution
PROPERTIES
  ResultsPrivate
  Termination
