SPECIFICATION Spec
CONSTANTS
    SetKeywords = {"k1", "k2"}
    GameKeywords <- MCGameKeywords
    MatchStrings <- MCMatchStrings
    GameMatch <- MCGameMatch
    ShownByDefault = {"g"}
    Refused = {"h"}
    InitialTexts <- MCInitialTexts
    Typed = {"b"}
    MaxEdits = 3
INVARIANTS
    PlainTextKept
    DatabaseCurrent
    RegionsAreKeywords
    Settled
CHECK_DEADLOCK FALSE
