------------------------------- MODULE MkUsers -------------------------------
(***************************************************************************)
(* support/scripts/mkusers: it adds the users and groups of a users table  *)
(* to the passwd, group and gshadow files of a root filesystem that has    *)
(* some already (those of the skeleton).  main goes through the lines of   *)
(* the table five times: for main groups with a given gid, main groups     *)
(* with an automatic gid, additional groups, users with a given uid and    *)
(* users with an automatic uid.  Any line that does not pass               *)
(* check_user_validity, and any range that is used up, fails the script.   *)
(*                                                                         *)
(* A file maps names to ids, and names are unique in it: every entry is    *)
(* removed before it is added again.                                       *)
(***************************************************************************)
EXTENDS Integers, Sequences, SequencesExt

CONSTANTS
    User, Group,                 \* names of users and of groups
    root,                        \* the user of that name
    NoName,                      \* "-": the line only describes groups
    NoId,                        \* there is no such user or group
    Home,                        \* absolute paths of home directories
    NoHome, BadHome,             \* "-"; "/" or no absolute path
    Lines,                       \* the lines a users table may have
    MaxLines,                    \* bound: how many it has
    FirstSystem, LastSystem,     \* FIRST_SYSTEM_UID = FIRST_SYSTEM_GID, ...
    FirstUser, LastUser,         \* FIRST_USER_UID = FIRST_USER_GID, ...
    HasGshadow,                  \* is there an /etc/gshadow?
    Uid0, UserGid0, Gid0, Members0  \* the files of the skeleton

AutoSystem == -1
AutoUser == -2
Automatic == {AutoSystem, AutoUser}

Injective(ids) == \A x, y \in DOMAIN ids : ids[x] = ids[y] /\ ids[x] # NoId => x = y

ASSUME TableAssumption ==
    /\ NoId \notin Int /\ NoName \notin User /\ root \in User
    /\ {NoHome, BadHome} \intersect Home = {} /\ NoHome # BadHome
    /\ Lines \subseteq [username : User \union {NoName}, uid : Int,
                        group : Group, gid : Int, groups : Seq(Group),
                        home : Home \union {NoHome, BadHome}]

ASSUME RangeAssumption ==
    {FirstSystem, LastSystem, FirstUser, LastUser} \subseteq Nat \ {0}

ASSUME SkeletonAssumption ==
    /\ Uid0 \in [User -> Nat \union {NoId}] /\ UserGid0 \in [User -> Nat \union {NoId}]
    /\ Gid0 \in [Group -> Nat \union {NoId}]
    /\ Members0 \in [Group -> SUBSET User]
    /\ Injective(Uid0) /\ Injective(Gid0)

VARIABLES
    table,      \* the users table
    phase,      \* which of the five loops of main is running
    line,       \* the line it is at
    nth,        \* and the additional group
    uid, ugid,  \* the passwd file: id and main group id of each user
    gid,        \* the group file: id of each group,
    members,    \* and its members
    gshadow,    \* the gshadow file: the members of each group
    homes       \* what the fakeroot script will chown home directories to

vars == <<table, phase, line, nth, uid, ugid, gid, members, gshadow, homes>>
files == <<uid, ugid, gid, members, gshadow, homes>>

Init ==
    /\ table \in UNION {[1..n -> Lines] : n \in 0..MaxLines}
    /\ phase = "fixedGids" /\ line = 1 /\ nth = 1
    /\ uid = Uid0 /\ ugid = UserGid0
    /\ gid = Gid0 /\ members = Members0
    /\ gshadow = [g \in Group |-> IF HasGshadow THEN Members0[g] ELSE {}]
    /\ homes = {}

Line == table[line]

-----------------------------------------------------------------------------
\* Ids: generate_gid and generate_uid.

IdRange(want) == IF want = AutoSystem THEN FirstSystem..LastSystem ELSE FirstUser..LastUser

Free(ids, want) == {i \in IdRange(want) : \A x \in DOMAIN ids : ids[x] # i}

\* Mutant: an automatic id is always a new one.
IdsAnew(ids, name, want) ==
    IF want \notin Automatic THEN {want}
    ELSE {i \in Free(ids, want) : \A j \in Free(ids, want) : i <= j}

\* The id a name gets: that given, else the one it has, else the lowest that
\* is free.  None when the range is used up.
Ids(ids, name, want) ==
    IF want \notin Automatic THEN {want}
    ELSE IF ids[name] # NoId THEN {ids[name]}
    ELSE {i \in Free(ids, want) : \A j \in Free(ids, want) : i <= j}

\* get_group, get_username: all names that have an id.
Named(ids, i) == {x \in DOMAIN ids : ids[x] = i}

\* The id additional groups are created with.
AutoId(u) ==
    IF u <= 0 THEN u
    ELSE IF u <= LastSystem THEN AutoSystem ELSE AutoUser

-----------------------------------------------------------------------------
\* check_user_validity.

\* Mutant: the uid of an existing user is not looked at.
ValidAnyUid(e) ==
    /\ e.username # root
    /\ e.gid >= -2 /\ e.gid # 0 /\ e.uid >= -2 /\ e.uid # 0
    /\ e.gid >= 0 => /\ Named(gid, e.gid) \subseteq {e.group}
                     /\ gid[e.group] \in {NoId, e.gid}
                     /\ ugid[e.username] \in {NoId, e.gid}
    /\ e.uid >= 0 => Named(uid, e.uid) \subseteq {e.username}
    /\ ugid[e.username] # NoId => Named(gid, ugid[e.username]) \subseteq {e.group}

\* Mutant: the name of an existing group with that gid is not looked at.
ValidAnyGroup(e) ==
    /\ e.username # root
    /\ e.gid >= -2 /\ e.gid # 0 /\ e.uid >= -2 /\ e.uid # 0
    /\ e.gid >= 0 => /\ gid[e.group] \in {NoId, e.gid}
                     /\ ugid[e.username] \in {NoId, e.gid}
    /\ e.uid >= 0 => /\ Named(uid, e.uid) \subseteq {e.username}
                     /\ uid[e.username] \in {NoId, e.uid}

\* check_user_validity; e is not a line that only describes groups.
Valid(e) ==
    /\ e.username # root
    /\ e.gid >= -2 /\ e.gid # 0 /\ e.uid >= -2 /\ e.uid # 0
    /\ e.gid >= 0 => /\ Named(gid, e.gid) \subseteq {e.group}
                     /\ gid[e.group] \in {NoId, e.gid}
                     /\ ugid[e.username] \in {NoId, e.gid}
    /\ e.uid >= 0 => /\ Named(uid, e.uid) \subseteq {e.username}
                     /\ uid[e.username] \in {NoId, e.uid}
    /\ ugid[e.username] # NoId => Named(gid, ugid[e.username]) \subseteq {e.group}

-----------------------------------------------------------------------------
\* Mutant: the members of the group are not put back.
AddOneGroupEmpty(g, i) ==
    /\ gid' = [gid EXCEPT ![g] = i]
    /\ members' = [members EXCEPT ![g] = {}]
    /\ gshadow' = IF HasGshadow THEN [gshadow EXCEPT ![g] = {}] ELSE gshadow

\* add_one_group: the group is removed and added again, with its members in
\* the group file and without members in gshadow.
AddOneGroup(g, i) ==
    /\ gid' = [gid EXCEPT ![g] = i]
    /\ members' = members
    /\ gshadow' = IF HasGshadow THEN [gshadow EXCEPT ![g] = {}] ELSE gshadow

\* add_one_user and add_user_to_group.
Joined(file, e) == [g \in Group |-> IF g \in ToSet(e.groups) THEN file[g] \union {e.username} ELSE file[g]]

AddOneUser(e, i) ==
    /\ uid' = [uid EXCEPT ![e.username] = i]
    /\ ugid' = [ugid EXCEPT ![e.username] = gid[e.group]]
    /\ homes' = homes \union {[user |-> e.username, home |-> h, uid |-> i, gid |-> gid[e.group]] :
                                  h \in {e.home} \ {NoHome}}
    /\ members' = Joined(members, e)
    /\ gshadow' = IF HasGshadow THEN Joined(gshadow, e) ELSE gshadow

-----------------------------------------------------------------------------
\* main.

\* Which lines a loop does not pass over with `continue'.
Concerns(e) ==
    CASE phase = "fixedGids"   -> e.gid >= 0
      [] phase = "autoGids"    -> e.gid < 0
      [] phase = "extraGroups" -> nth <= Len(e.groups)
      [] phase = "fixedUids"   -> e.username # NoName /\ e.uid >= 0
      [] phase = "autoUids"    -> e.username # NoName /\ e.uid < 0
      [] OTHER                 -> FALSE

AtLine == line <= Len(table) /\ Concerns(Line)

MainGroup ==
    /\ phase \in {"fixedGids", "autoGids"} /\ AtLine
    /\ \E i \in Ids(gid, Line.group, Line.gid) : AddOneGroup(Line.group, i)
    /\ line' = line + 1
    /\ UNCHANGED <<table, phase, nth, uid, ugid, homes>>

ExtraGroup ==
    /\ phase = "extraGroups" /\ AtLine
    /\ \E i \in Ids(gid, Line.groups[nth], AutoId(Line.uid)) : AddOneGroup(Line.groups[nth], i)
    /\ nth' = nth + 1
    /\ UNCHANGED <<table, phase, line, uid, ugid, homes>>

AddUser ==
    /\ phase \in {"fixedUids", "autoUids"} /\ AtLine
    /\ Valid(Line) /\ Line.home # BadHome
    /\ \E i \in Ids(uid, Line.username, Line.uid) : AddOneUser(Line, i)
    /\ line' = line + 1
    /\ UNCHANGED <<table, phase, nth, gid>>

\* fail.
Refused ==
    \/ /\ phase \in {"fixedGids", "autoGids"}
       /\ Ids(gid, Line.group, Line.gid) = {}
    \/ /\ phase = "extraGroups"
       /\ Ids(gid, Line.groups[nth], AutoId(Line.uid)) = {}
    \/ /\ phase \in {"fixedUids", "autoUids"}
       /\ Valid(Line) => Ids(uid, Line.username, Line.uid) = {}

Fail ==
    /\ AtLine /\ Refused
    /\ phase' = "failed"
    /\ UNCHANGED <<table, line, nth, files>>

\* The home is only looked at when the user has been removed.
FailHome ==
    /\ phase \in {"fixedUids", "autoUids"} /\ AtLine
    /\ ~Refused /\ Line.home = BadHome
    /\ uid' = [uid EXCEPT ![Line.username] = NoId]
    /\ ugid' = [ugid EXCEPT ![Line.username] = NoId]
    /\ phase' = "failed"
    /\ UNCHANGED <<table, line, nth, gid, members, gshadow, homes>>

NextLine ==
    /\ line <= Len(table) /\ ~Concerns(Line) /\ phase \notin {"done", "failed"}
    /\ line' = line + 1 /\ nth' = 1
    /\ UNCHANGED <<table, phase, files>>

After == [fixedGids |-> "autoGids", autoGids |-> "extraGroups", extraGroups |-> "fixedUids",
          fixedUids |-> "autoUids", autoUids |-> "done"]

NextLoop ==
    /\ line > Len(table) /\ phase \in DOMAIN After
    /\ phase' = After[phase] /\ line' = 1
    /\ UNCHANGED <<table, nth, files>>

Next == MainGroup \/ ExtraGroup \/ AddUser \/ Fail \/ FailHome \/ NextLine \/ NextLoop

Spec == Init /\ [][Next]_vars

-----------------------------------------------------------------------------
\* Types.  An additional group other than the first is only at hand in the loop
\* for additional groups, or where it failed.
TypeOK ==
    /\ table \in Seq(Lines)
    /\ phase \in DOMAIN After \union {"done", "failed"}
    /\ line \in 1..Len(table) + 1
    /\ nth \in Nat \ {0} /\ (nth # 1 => phase \in {"extraGroups", "failed"} /\ line <= Len(table))
    /\ uid \in [User -> Int \union {NoId}] /\ ugid \in [User -> Int \union {NoId}]
    /\ gid \in [Group -> Int \union {NoId}]
    /\ members \in [Group -> SUBSET User] /\ gshadow \in [Group -> SUBSET User]
    /\ homes \subseteq [user : User, home : Home, uid : Int, gid : Int \union {NoId}]

\* "uid: It must be unique": no two users ever share one, whether they come
\* from the skeleton, from a given or from an automatic uid.
UidsUnique == Injective(uid)

Done == phase = "done"
Asked == {table[n] : n \in 1..Len(table)}
Users == {e \in Asked : e.username # NoName}

\* "gid: It must be unique": when no line that only describes groups gives a
\* gid, a table that is accepted leaves no two groups with the same.
GivesNoGid(e) == e.gid \in Automatic /\ (e.groups = <<>> \/ AutoId(e.uid) \in Automatic)
GidsUnique == Done /\ (\A e \in Asked \ Users : GivesNoGid(e)) => Injective(gid)

\* "In case two packages create the same user (group), one with an automatic
\* uid, the other with a specified uid, ensure the specified uid is used."  No
\* line may then ask for another gid: as that of the group, or, with a uid that
\* is not positive, as that of an additional group.
Undisputed(e) ==
    \A f \in Asked : /\ f.group = e.group => f.gid \in Automatic \union {e.gid}
                     /\ e.group \in ToSet(f.groups) => AutoId(f.uid) \in Automatic
SpecifiedWins ==
    Done => /\ \A e \in Users : e.uid >= 0 => uid[e.username] = e.uid
            /\ \A e \in Users : e.gid >= 0 => gid[e.group] = e.gid
            /\ \A e \in Asked \ Users : e.gid >= 0 /\ Undisputed(e) => gid[e.group] = e.gid

\* Every user of the table ends up in its main group, by the id the group
\* has at last.
InMainGroup == Done => \A e \in Users : ugid[e.username] = gid[e.group] /\ gid[e.group] # NoId

\* "The home directory will belong to the user and its main group": what was
\* printed when a line was handled is still right when all have been.
HomesOwned ==
    Done => /\ \A h \in homes : uid[h.user] = h.uid /\ ugid[h.user] = h.gid
            /\ \A e \in Users : e.home \in Home => \E h \in homes : h.user = e.username /\ h.home = e.home

\* Who was asked to be in a group is, and nobody gets lost.
Wanted(g) == {e.username : e \in {f \in Users : g \in ToSet(f.groups)}}
Membership ==
    Done => \A g \in Group : /\ members[g] = Members0[g] \union Wanted(g)
                             /\ HasGshadow => Wanted(g) \subseteq gshadow[g]

\* Users and groups of the skeleton keep their ids, unless a line gives
\* another gid for a group of the skeleton.  A user whose main group is not
\* there at all may get another.
Renumbers ==
    \E e \in Asked : \/ e.gid \notin Automatic /\ Gid0[e.group] \notin {NoId, e.gid}
                     \/ AutoId(e.uid) \notin Automatic /\ e.groups # <<>>
SkeletonKept ==
    Done /\ ~Renumbers =>
        /\ \A u \in User : Uid0[u] # NoId =>
               /\ uid[u] = Uid0[u]
               /\ \A g \in Group : UserGid0[u] = Gid0[g] /\ Gid0[g] # NoId => ugid[u] = UserGid0[u]
        /\ \A g \in Group : Gid0[g] # NoId => gid[g] = Gid0[g]

-----------------------------------------------------------------------------
\* The inductive invariant.

\* The lines the loops for main groups are past.
Grouped(n) ==
    \/ phase \in {"extraGroups", "fixedUids", "autoUids", "done"}
    \/ phase = "autoGids" /\ (table[n].gid >= 0 \/ n < line)
    \/ phase = "fixedGids" /\ table[n].gid >= 0 /\ n < line

\* The users the loops for users are past.
Served(n) ==
    /\ table[n].username # NoName
    /\ \/ phase = "done"
       \/ phase = "autoUids" /\ (table[n].uid >= 0 \/ n < line)
       \/ phase = "fixedUids" /\ table[n].uid >= 0 /\ n < line

HasGid == \A n \in 1..Len(table) : Grouped(n) => gid[table[n].group] # NoId

InGroup == \A n \in 1..Len(table) : Served(n) => ugid[table[n].username] = gid[table[n].group]

OwnersRight ==
    phase # "failed" =>
        \A h \in homes : /\ uid[h.user] = h.uid /\ ugid[h.user] = h.gid
                         /\ \E n \in 1..Len(table) : Served(n) /\ table[n].username = h.user

HomesMade ==
    \A n \in 1..Len(table) :
        Served(n) /\ table[n].home \in Home =>
            \E h \in homes : h.user = table[n].username /\ h.home = table[n].home

IndInv == TypeOK /\ UidsUnique /\ HasGid /\ InGroup /\ OwnersRight /\ HomesMade

\* Who is in a group: the members of the skeleton and the users the loops for
\* users are past.
Joins(n, g) == Served(n) /\ g \in ToSet(table[n].groups)
MembersRight ==
    phase # "failed" =>
        \A g \in Group : members[g] = Members0[g] \union {table[n].username : n \in {n \in 1..Len(table) : Joins(n, g)}}
ShadowHas == \A n \in 1..Len(table), g \in Group : HasGshadow /\ Joins(n, g) => table[n].username \in gshadow[g]

\* What check_user_validity found of a line still holds, and its uid was given.
Checked ==
    \A n \in 1..Len(table) : Served(n) =>
        /\ table[n].gid >= -2 /\ table[n].gid # 0 /\ table[n].uid >= -2 /\ table[n].uid # 0
        /\ table[n].gid >= 0 => /\ Named(gid, table[n].gid) \subseteq {table[n].group}
                                /\ gid[table[n].group] = table[n].gid
        /\ table[n].uid >= 0 => uid[table[n].username] = table[n].uid

\* A group got the gid a line gives, when no line asks for another.
GivenKept ==
    \A n \in 1..Len(table) :
        Grouped(n) /\ table[n].gid >= 0 /\ Undisputed(table[n]) => gid[table[n].group] = table[n].gid

\* When two groups share a gid, the line of a user gives it, or a line that
\* only describes groups gives one.
SharedGiven ==
    \/ \E n \in 1..Len(table) : \/ table[n].username = NoName /\ table[n].gid \notin Automatic
                                \/ table[n].groups # <<>> /\ AutoId(table[n].uid) \notin Automatic
    \/ \A g, h \in Group :
           gid[g] = gid[h] /\ gid[g] # NoId =>
               \/ g = h
               \/ \E n \in 1..Len(table) : /\ table[n].username # NoName
                                           /\ table[n].gid \notin Automatic /\ table[n].gid = gid[g]

\* The ids of the skeleton.
SkeletonGids == ~Renumbers => \A g \in Group : Gid0[g] # NoId => gid[g] = Gid0[g]
SkeletonUsers ==
    phase # "failed" /\ ~Renumbers =>
        \A u \in User : Uid0[u] # NoId =>
            /\ uid[u] = Uid0[u]
            /\ \A g \in Group : UserGid0[u] = Gid0[g] /\ Gid0[g] # NoId => ugid[u] = UserGid0[u]

GroupInv == GivenKept /\ SharedGiven /\ SkeletonGids
UserInv == MembersRight /\ ShadowHas /\ Checked /\ SkeletonUsers
=============================================================================
