SPECIFICATION Spec
CONSTANTS
  d = d
  v = v
  w = w
  Var = {d, v, w}
  Pairs <- MixedPairs
  MaxVersion <- TwiceD
INVARIANTS
  TypeOK
  DurabilityExact
  OrderExact
  NoMissedBug
  LastLocationKnown
  NoFalseBug
  NoteLeadsToPair
PROPERTY ImplementsMonitor
