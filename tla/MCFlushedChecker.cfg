SPECIFICATION Spec
CONSTANTS
  next = next
  other = other
  p = p
  Field = {next}
  Pointer = {p}
  Statement <- ProgramStatement
  Programs <- Families
  MaxBlocks = 10
INVARIANTS
  NoneMissed
  ReportsReal
