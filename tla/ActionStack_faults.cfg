SPECIFICATION Spec
CONSTANTS
  Addr = {p1, p2, p3}
  NULL = NULL
  Fields = {f1}
  Values = {0, 1}
  AddressReuse = TRUE
  ListenersThrow = TRUE
SYMMETRY Symmetry
INVARIANTS NoDoubleFree
