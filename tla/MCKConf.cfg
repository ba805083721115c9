\* Five sets of Config.in files of up to six options; one run, and those that read back.
CONSTANTS
    ConstSym <- MCConst
    StrOrder <- MCStrOrder
    Number <- MCNumber
    ToStr <- MCToStr
    Symbols <- MCSymbols
    ValidFor <- MCValid
    Trees <- MCTrees
    EditsOf <- MCEdits
    SeedsOf <- MCSeeds
    TextsOf <- MCTexts
    DiceOf <- MCDice
    Modes <- MCModes
    StopsOf <- MCStops
    MaxChanges = 2
SPECIFICATION FairSpec
INVARIANTS
    Legal
    QuestionsServe
PROPERTIES
    Settled
    DefconfigRestores
    StampsCoverChanges
    Terminates
