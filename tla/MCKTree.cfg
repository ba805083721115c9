\* Configuration files of up to five options, with menus, ifs, choices and selects.
CONSTANTS
    ConstSym <- MCConst
    StrOrder <- MCStrOrder
    Number <- MCNumber
    ToStr <- MCToStr
    Symbols <- MCSymbols
    ValidFor <- MCValid
    Programs <- MCPrograms
SPECIFICATION Spec
CHECK_DEADLOCK FALSE
INVARIANTS
    MeaningKept
    StructureKept
    PrintedReadsBack
    RecursionFound
