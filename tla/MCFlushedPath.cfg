SPECIFICATION PtrxSpec
CONSTANTS
  next = next
  p = p
  q = q
  a = a
  b = b
  c = c
  none = none
  Field <- Fields
  Pointer <- Pointers
  Base <- Bases
  Symbol <- Symbols
  NoSymbol <- none
  NumArgs <- Counts
SYMMETRY Alike
INVARIANTS
  TypeOK
  CommitExact
  NoMissedStore
  FalseOnlyWhenReflushed
  NoteLeadsToPointer
  DirtyKnown
PROPERTIES
  BlamesDirtyRoots
