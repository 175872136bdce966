SPECIFICATION Spec
CONSTANTS
  Addr = {p1, p2, p3}
  NULL = NULL
  Fields = {f1, f2}
  Values = {0, 1}
  AddressReuse = FALSE
  ListenersThrow = FALSE
INVARIANTS TypeOK HistoryLinked SavePointHonest
PROPERTIES PerformAlternates ImplementsUndoHistory
