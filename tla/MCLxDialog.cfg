SPECIFICATION Spec
CONSTANTS
    Lists <- MCLists
    Texts <- MCTexts
    Sizes <- MCSizes
    Letters <- MCLetters
    BoxWidth = 3
    MAX_LEN = 4
INVARIANTS
    CursorOnItem
    HighlightedIsTaken
    Placed
PROPERTIES
    KeysMoveIt
CHECK_DEADLOCK FALSE
