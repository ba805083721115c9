SPECIFICATION Spec
CONSTANTS
    root = root
    sync = sync
    foo = foo
    wheel = wheel
    users = users
    grp = grp
    extra = extra
    NoName = NoName
    NoId = NoId
    NoHome = NoHome
    BadHome = BadHome
    Home = {"/foo"}
    User <- AllUsers
    Group <- AllGroups
    Lines <- SomeLines
    MaxLines = 2
    FirstSystem = 2
    LastSystem = 3
    FirstUser = 4
    LastUser = 5
    HasGshadow = TRUE
    Uid0 <- SkelUid
    UserGid0 <- SkelUserGid
    Gid0 <- SkelGid
    Members0 <- SkelMembers
INVARIANTS
    GidsUnique
    SpecifiedWins
    HomesOwned
    Membership
    SkeletonKept
CHECK_DEADLOCK FALSE
