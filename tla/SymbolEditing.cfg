SPECIFICATION Spec
CONSTANTS
    MaxPart = 7
    Modes = {overlap, subtract}
    PartNames = {square, star}
    MaxEdits = 2
    Careless = {}
INVARIANTS UndoRestores PartsOnce
PROPERTIES SelectionApart
