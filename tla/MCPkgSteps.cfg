SPECIFICATION FairSpec
CONSTANTS
    prog = prog
    lib = lib
    Pkg <- TwoPkg
    Override = {lib}
    Installs <- TwoInstalls
    Depends <- TwoDepends
    NPatch <- TwoPatches
    Parallel = {"all"}
    Ops = {"all", "rebuild", "reinstall", "reconfigure", "dirclean"}
    MaxMakes = 2
    MaxFaults = 1
INVARIANTS
    StampsHonest
    DepsInstalledFirst
    PatchedOnce
    DoesWhatItSays
PROPERTIES
    NothingElse
    ResumesToTheEnd
CHECK_DEADLOCK FALSE
