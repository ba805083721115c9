SPECIFICATION Spec
CONSTANTS
    Skeletons <- SomeSkeletons
    Tables <- SomeTables
    Texts <- SomeTexts
    Passwd <- SomeIds
    Group <- SomeIds
    Number <- SomeNumbers
    Caps = {"net_raw", "sys_admin"}
    Supported = TRUE
    Limit = 3
    Width = 8
    MaxLines = 3
INVARIANTS
    TableHolds
    CapsOnTheirFile
    NodesMade
    OthersKept
CHECK_DEADLOCK FALSE
