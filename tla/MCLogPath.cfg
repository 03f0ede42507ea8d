SPECIFICATION XSpec
CONSTANTS
  x = x
  y = y
  tx = tx
  LogField <- Fields
  TxBegin <- tx
  Place <- Places
  MaxOpen = 2
  Width = 2
  NumArgs <- Counts
SYMMETRY Alike
INVARIANTS
  ValuesExact
  FirstMisuseReported
  NoteIsFirstLog
  UnprotectedReported
  XReportsExact
  CheckersAgree
