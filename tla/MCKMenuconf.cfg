CONSTANTS
    ConstSym <- MCConst
    StrOrder <- MCStrOrder
    Number <- MCNumber
    ToStr <- MCToStr
    ValidFor <- MCValid
    Symbols <- MCSymbols
    Trees <- MCTrees
    Names = {".config", "b"}
    FilesOf <- MCFiles
    TextsOf <- MCTexts
    Searches <- MCSearches
    Alphabet <- MCAlphabet
    SinglesOf <- MCSingles
    MayFail = {"open"}
    MaxSteps = 2
    MaxDepth = 3
SPECIFICATION Spec
INVARIANTS
    EverythingOffered
    JumpLands
    KeysWork
PROPERTIES
    Session
