SPECIFICATION Spec
CONSTANTS
  CacheLineSize = 8
  TranslationUnits <- Families
  Nodes <- AllNodes
  Height <- Heights
  Checkers = {"pair", "flushed", "log", "main"}
INVARIANTS
  TablesExact
  AutoClExact
  UntrackedOnlyIfHidden
  FatalExplained
CHECK_DEADLOCK FALSE
