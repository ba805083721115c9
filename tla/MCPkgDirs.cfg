SPECIFICATION Spec
CONSTANTS
    skeleton = skeleton
    lib = lib
    app = app
    fstab = fstab
    la = la
    exe = exe
    NoFile = NoFile
    World = World
    Pkg <- ChainPkg
    File <- AllFiles
    Depends <- ChainDepends
    Rdeps <- ChainRdeps
    Rank <- DepsFirst
    Provides <- OneEach
    Appends <- Writers
    Paths = {la}
    Edits <- Edited
    MaxInode = 10
    MaxCommands = 2
VIEW View
INVARIANTS
    WrittenByDepsOnly
    ImageUpToDate
CHECK_DEADLOCK FALSE
