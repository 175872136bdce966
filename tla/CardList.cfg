SPECIFICATION Spec
CONSTANTS
    c1 = c1
    c2 = c2
    c3 = c3
    CardIds = {c1, c2, c3}
    Sheets = {s1, s2}
    s1 = s1
    s2 = s2
    Values = {1, 2}
    PackTypes = {p1, p2}
    p1 = p1
    p2 = p2
    NULL = NULL
    MaxCards = 3
    MaxHistory = 2
    MaxPacks = 1
    MaxClipboard = 1
    MaxCopies = 1
SYMMETRY Symmetry
PROPERTIES
    SelectionKept
INVARIANTS
    HistoryCorrect
    StylingFits
    SelectionShown
CHECK_DEADLOCK FALSE
