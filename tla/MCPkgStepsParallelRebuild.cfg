SPECIFICATION Spec
CONSTANTS
    prog = prog
    lib = lib
    Pkg <- TwoPkg
    Override = {lib}
    Installs <- TwoInstalls
    Depends <- TwoDepends
    NPatch <- TwoPatches
    Parallel = {"all", "rebuild"}
    Ops = {"all", "rebuild"}
    MaxMakes = 2
    MaxFaults = 0
INVARIANTS
    RestartsWhenComplete
CHECK_DEADLOCK FALSE
