SPECIFICATION Spec
CONSTANTS
    Client = {c1, c2}
    Data = {good, bad}
    Absent = Absent
    Partial = Partial
    NoClient = NoClient
    NUris = 1
    LinkWorks = TRUE
    HasPost = TRUE
    MaxRuns = 2
    MaxKills = 1
SYMMETRY Symmetry
INVARIANTS
    NeverPartial
    DlDirClean
PROPERTIES
    OkOnlyIfVerified
    ImplementsStore
CHECK_DEADLOCK FALSE
