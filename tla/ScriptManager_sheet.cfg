\* A game with a field of each kind, and two cards.
CONSTANTS
    Cards      = {c1, c2}
    NoCard     = NoCard
    CardFields <- SheetCardFields
    SetFields  <- SheetSetFields
    Script     <- SheetScript
    Reads      <- SheetReads
    ReadsAll   <- SheetReadsAll
    Parts      <- SheetParts
    Base       = 2
SPECIFICATION Spec
INVARIANTS
    UpToDate
PROPERTIES
    EditsKept
    DefaultsKept
    RoundsEnd
