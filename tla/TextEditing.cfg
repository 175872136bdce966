SPECIFICATION Spec
CONSTANTS
    InitialTexts <- MCInitialTexts
    Insertions <- MCInsertions
    Parts = 2
    Separator <- MCSeparator
    DrawnFirst = TRUE
    MaxEdits = 2
INVARIANTS
    TagsBalanced
    SeparatorsKept
    SelectionValid

PROPERTY ImplementsRichText
