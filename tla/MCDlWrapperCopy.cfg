SPECIFICATION FairSpec
CONSTANTS
    Client = {c1, c2}
    Data = {good, bad}
    Absent = Absent
    Partial = Partial
    NoClient = NoClient
    NUris = 2
    LinkWorks = FALSE
    HasPost = FALSE
    MaxRuns = 1
    MaxKills = 1
PROPERTIES
    RunsEnd
CHECK_DEADLOCK FALSE
