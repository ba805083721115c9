--------------------------- MODULE MkUsers_proofs ---------------------------
(***************************************************************************)
(* Proofs about mkusers, for any table, any skeleton and any ranges.       *)
(***************************************************************************)
EXTENDS MkUsers, TLAPS

\* The fields of a line a table may have.
LEMMA Fields ==
    ASSUME TypeOK, NEW n \in 1..Len(table)
    PROVE  /\ table[n].uid \in Int /\ table[n].gid \in Int /\ table[n].group \in Group
           /\ table[n].groups \in Seq(Group) /\ table[n].username \in User \union {NoName}
           /\ table[n].home \in Home \union {NoHome, BadHome}
<1>1. table[n] \in Lines
  BY DEF TypeOK
<1> QED BY <1>1, TableAssumption

\* The id a name gets is a number, and if it is neither the one given nor the
\* one the name has, nobody has it.
LEMMA IdsSpec ==
    ASSUME NEW S, NEW ids \in [S -> Int \union {NoId}], NEW name \in S,
           NEW want \in Int, NEW i \in Ids(ids, name, want)
    PROVE  /\ i \in Int
           /\ want \notin Automatic => i = want
           /\ want \in Automatic /\ ids[name] # NoId => i = ids[name]
           /\ want \in Automatic /\ ids[name] = NoId => \A x \in S : ids[x] # i
<1>1. CASE want \notin Automatic BY <1>1 DEF Ids
<1>2. CASE want \in Automatic /\ ids[name] # NoId BY <1>2 DEF Ids
<1>3. CASE want \in Automatic /\ ids[name] = NoId
  <2>1. i \in Free(ids, want) BY <1>3 DEF Ids
  <2>2. IdRange(want) \subseteq Int BY DEF IdRange
  <2> QED BY <1>3, <2>1, <2>2 DEF Free
<1> QED BY <1>1, <1>2, <1>3

\* The line main is at, and its fields.
LEMMA LineType ==
    ASSUME TypeOK, AtLine
    PROVE  /\ line \in 1..Len(table) /\ Line = table[line]
           /\ Line.uid \in Int /\ Line.gid \in Int /\ Line.group \in Group
           /\ Line.groups \in Seq(Group)
           /\ Line.home \in Home \union {NoHome, BadHome}
           /\ phase \in {"fixedUids", "autoUids"} => Line.username \in User
<1>1. line \in 1..Len(table)
  BY DEF TypeOK, AtLine
<1>2. phase \in {"fixedUids", "autoUids"} => Line.username # NoName
  BY DEF AtLine, Concerns
<1> QED BY <1>1, <1>2, Fields DEF Line

\* The additional group at hand.
LEMMA ExtraType ==
    ASSUME TypeOK, AtLine, phase = "extraGroups"
    PROVE  Line.groups[nth] \in Group /\ AutoId(Line.uid) \in Int
<1>1. nth \in 1..Len(Line.groups)
  BY DEF TypeOK, AtLine, Concerns
<1> QED BY <1>1, LineType DEF AutoId, AutoSystem, AutoUser

\* A group that is written changes neither the types of the group files nor
\* the users.
LEMMA AddOneGroupType ==
    ASSUME TypeOK, NEW g \in Group, NEW i \in Int, AddOneGroup(g, i)
    PROVE  /\ gid' \in [Group -> Int \union {NoId}]
           /\ members' \in [Group -> SUBSET User] /\ gshadow' \in [Group -> SUBSET User]
           /\ gid'[g] = i /\ \A h \in Group \ {g} : gid'[h] = gid[h]
BY DEF TypeOK, AddOneGroup

LEMMA JoinedType ==
    ASSUME NEW file \in [Group -> SUBSET User], NEW e, e.username \in User
    PROVE  Joined(file, e) \in [Group -> SUBSET User]
BY DEF Joined

LEMMA AddOneUserType ==
    ASSUME TypeOK, NEW e, e.username \in User, e.group \in Group, NEW i \in Int,
           e.home \in Home \union {NoHome}, AddOneUser(e, i)
    PROVE  /\ uid' \in [User -> Int \union {NoId}] /\ ugid' \in [User -> Int \union {NoId}]
           /\ members' \in [Group -> SUBSET User] /\ gshadow' \in [Group -> SUBSET User]
           /\ homes' \subseteq [user : User, home : Home, uid : Int, gid : Int \union {NoId}]
<1>1. uid' \in [User -> Int \union {NoId}] /\ ugid' \in [User -> Int \union {NoId}]
  BY DEF TypeOK, AddOneUser
<1>2. members' \in [Group -> SUBSET User] /\ gshadow' \in [Group -> SUBSET User]
  BY JoinedType DEF TypeOK, AddOneUser
<1>3. ASSUME NEW h \in {e.home} \ {NoHome}
      PROVE [user |-> e.username, home |-> h, uid |-> i, gid |-> gid[e.group]]
                \in [user : User, home : Home, uid : Int, gid : Int \union {NoId}]
  BY <1>3 DEF TypeOK
<1>4. homes' \subseteq [user : User, home : Home, uid : Int, gid : Int \union {NoId}]
  BY <1>3 DEF TypeOK, AddOneUser
<1> QED BY <1>1, <1>2, <1>4

-----------------------------------------------------------------------------
LEMMA InitType == Init => TypeOK
<1> SUFFICES ASSUME Init PROVE TypeOK OBVIOUS
<1>1. table \in Seq(Lines)
  <2>1. PICK n \in 0..MaxLines : table \in [1..n -> Lines]
    BY DEF Init
  <2> QED BY <2>1
<1>2. line \in 1..Len(table) + 1 BY <1>1 DEF Init
<1>3. members \in [Group -> SUBSET User] /\ gshadow \in [Group -> SUBSET User]
  BY SkeletonAssumption DEF Init
<1>4. /\ uid \in [User -> Int \union {NoId}] /\ ugid \in [User -> Int \union {NoId}]
      /\ gid \in [Group -> Int \union {NoId}]
  BY SkeletonAssumption DEF Init
<1>5. phase \in DOMAIN After /\ nth = 1 /\ homes = {}
  BY DEF Init, After
<1> QED BY <1>1, <1>2, <1>3, <1>4, <1>5 DEF TypeOK

LEMMA StepType == TypeOK /\ [Next]_vars => TypeOK'
<1> SUFFICES ASSUME TypeOK, [Next]_vars PROVE TypeOK' OBVIOUS
<1>1. CASE MainGroup
  <2>1. TypeOK /\ AtLine /\ Line.group \in Group /\ Line.gid \in Int
    BY <1>1, LineType DEF MainGroup
  <2>2. PICK i \in Ids(gid, Line.group, Line.gid) : AddOneGroup(Line.group, i)
    BY <1>1 DEF MainGroup
  <2>3. gid \in [Group -> Int \union {NoId}]
    BY DEF TypeOK
  <2>4. i \in Int
    BY <2>1, <2>2, <2>3, IdsSpec
  <2>5. /\ gid' \in [Group -> Int \union {NoId}]
        /\ members' \in [Group -> SUBSET User] /\ gshadow' \in [Group -> SUBSET User]
    BY <2>1, <2>2, <2>4, AddOneGroupType
  <2> QED BY <1>1, <2>5 DEF MainGroup, AtLine, TypeOK
<1>2. CASE ExtraGroup
  <2>1. TypeOK /\ AtLine /\ Line.groups[nth] \in Group /\ AutoId(Line.uid) \in Int
    BY <1>2, ExtraType DEF ExtraGroup
  <2>2. PICK i \in Ids(gid, Line.groups[nth], AutoId(Line.uid)) : AddOneGroup(Line.groups[nth], i)
    BY <1>2 DEF ExtraGroup
  <2>3. gid \in [Group -> Int \union {NoId}]
    BY DEF TypeOK
  <2>4. i \in Int
    BY <2>1, <2>2, <2>3, IdsSpec
  <2>5. /\ gid' \in [Group -> Int \union {NoId}]
        /\ members' \in [Group -> SUBSET User] /\ gshadow' \in [Group -> SUBSET User]
    BY <2>1, <2>2, <2>4, AddOneGroupType
  <2> QED BY <1>2, <2>5 DEF ExtraGroup, AtLine, TypeOK
<1>3. CASE AddUser
  <2>1. /\ TypeOK /\ AtLine /\ Line.username \in User /\ Line.group \in Group
        /\ Line.uid \in Int /\ Line.home \in Home \union {NoHome}
    BY <1>3, LineType DEF AddUser
  <2>2. PICK i \in Ids(uid, Line.username, Line.uid) : AddOneUser(Line, i)
    BY <1>3 DEF AddUser
  <2>3. uid \in [User -> Int \union {NoId}]
    BY DEF TypeOK
  <2>4. i \in Int
    BY <2>1, <2>2, <2>3, IdsSpec
  <2>5. /\ uid' \in [User -> Int \union {NoId}] /\ ugid' \in [User -> Int \union {NoId}]
        /\ members' \in [Group -> SUBSET User] /\ gshadow' \in [Group -> SUBSET User]
        /\ homes' \subseteq [user : User, home : Home, uid : Int, gid : Int \union {NoId}]
    BY <2>1, <2>2, <2>4, AddOneUserType
  <2>6. nth = 1
    BY <1>3 DEF AddUser, TypeOK
  <2> QED BY <1>3, <2>5, <2>6 DEF AddUser, AtLine, TypeOK
<1>4. CASE Fail BY <1>4 DEF Fail, AtLine, files, TypeOK
<1>5. CASE FailHome BY <1>5, LineType DEF FailHome, TypeOK
<1>6. CASE NextLine BY <1>6 DEF NextLine, files, TypeOK
<1>7. CASE NextLoop
  <2>1. phase' \in DOMAIN After \union {"done", "failed"}
    BY <1>7 DEF NextLoop, After
  <2> QED BY <1>7, <2>1 DEF NextLoop, files, TypeOK
<1>8. CASE UNCHANGED vars BY <1>8 DEF vars, TypeOK
<1> QED BY <1>1, <1>2, <1>3, <1>4, <1>5, <1>6, <1>7, <1>8 DEF Next

\* Types, in every reachable state.
THEOREM TypeCorrect == Spec => []TypeOK
<1>1. Init => TypeOK BY InitType
<1>2. TypeOK /\ [Next]_vars => TypeOK' BY StepType
<1> QED BY <1>1, <1>2, PTL DEF Spec

-----------------------------------------------------------------------------
\* What a step of a group loop and a step of a user loop do.

LEMMA GroupStep ==
    ASSUME TypeOK, MainGroup \/ ExtraGroup
    PROVE  \E g \in Group, i \in Int :
               /\ gid' = [gid EXCEPT ![g] = i]
               /\ MainGroup /\ phase # "extraGroups" => g = Line.group
<1>0. gid \in [Group -> Int \union {NoId}]
  BY DEF TypeOK
<1>1. CASE MainGroup
  <2>1. TypeOK /\ AtLine /\ Line.group \in Group /\ Line.gid \in Int
    BY <1>1, LineType DEF MainGroup
  <2>2. PICK i \in Ids(gid, Line.group, Line.gid) : AddOneGroup(Line.group, i)
    BY <1>1 DEF MainGroup
  <2>3. i \in Int
    BY <2>1, <2>2, <1>0, IdsSpec
  <2> QED BY <2>1, <2>2, <2>3 DEF AddOneGroup
<1>2. CASE ExtraGroup
  <2>1. TypeOK /\ AtLine /\ Line.groups[nth] \in Group /\ AutoId(Line.uid) \in Int
    BY <1>2, ExtraType DEF ExtraGroup
  <2>2. PICK i \in Ids(gid, Line.groups[nth], AutoId(Line.uid)) : AddOneGroup(Line.groups[nth], i)
    BY <1>2 DEF ExtraGroup
  <2>3. i \in Int
    BY <2>1, <2>2, <1>0, IdsSpec
  <2>4. phase = "extraGroups"
    BY <1>2 DEF ExtraGroup
  <2> QED BY <2>1, <2>2, <2>3, <2>4 DEF AddOneGroup
<1> QED BY <1>1, <1>2

\* A user keeps the uid it has, and a new uid is nobody's.
LEMMA UserStep ==
    ASSUME TypeOK, UidsUnique, AddUser
    PROVE  \E i \in Int :
               /\ AddOneUser(Line, i)
               /\ uid[Line.username] # NoId => i = uid[Line.username]
               /\ \A x \in User \ {Line.username} : uid[x] # i
<1>1. /\ TypeOK /\ AtLine /\ Line.username \in User /\ Line.uid \in Int
  BY LineType DEF AddUser
<1>2. PICK i \in Ids(uid, Line.username, Line.uid) : AddOneUser(Line, i)
  BY DEF AddUser
<1>3. uid \in [User -> Int \union {NoId}]
  BY DEF TypeOK
<1>4. i \in Int
  BY <1>1, <1>2, <1>3, IdsSpec
<1>5. CASE Line.uid \notin Automatic
  <2>1. i = Line.uid
    BY <1>1, <1>2, <1>3, <1>5, IdsSpec
  <2>2. Line.uid >= 0
    BY <1>1, <1>5 DEF AddUser, Valid, Automatic, AutoSystem, AutoUser
  <2>3. Named(uid, Line.uid) \subseteq {Line.username} /\ uid[Line.username] \in {NoId, Line.uid}
    BY <2>2 DEF AddUser, Valid
  <2> QED BY <1>2, <1>3, <1>4, <2>1, <2>3 DEF Named
<1>6. CASE Line.uid \in Automatic /\ uid[Line.username] # NoId
  <2>1. i = uid[Line.username]
    BY <1>1, <1>2, <1>3, <1>6, IdsSpec
  <2>2. \A x \in User \ {Line.username} : uid[x] # i
    BY <1>1, <1>3, <1>6, <2>1 DEF UidsUnique, Injective
  <2> QED BY <1>2, <1>4, <2>1, <2>2
<1>7. CASE Line.uid \in Automatic /\ uid[Line.username] = NoId
  <2>1. \A x \in User : uid[x] # i
    BY <1>1, <1>2, <1>3, <1>7, IdsSpec
  <2> QED BY <1>2, <1>4, <1>7, <2>1
<1> QED BY <1>5, <1>6, <1>7

\* The lines the loops are past, after a step.
LEMMA ServedStep ==
    ASSUME TypeOK, [Next]_vars, NEW n \in 1..Len(table), Served(n)'
    PROVE  Served(n) \/ (AddUser /\ n = line)
<1> USE DEF Served
<1>0. table[n].uid \in Int /\ line \in Nat
  BY Fields DEF TypeOK
<1>1. CASE MainGroup BY <1>0, <1>1 DEF MainGroup
<1>2. CASE ExtraGroup BY <1>0, <1>2 DEF ExtraGroup
<1>3. CASE AddUser BY <1>0, <1>3 DEF AddUser, AtLine, TypeOK
<1>4. CASE Fail BY <1>4 DEF Fail
<1>5. CASE FailHome BY <1>5 DEF FailHome
<1>6. CASE NextLine BY <1>0, <1>6 DEF NextLine, files, Concerns, Line
<1>7. CASE NextLoop BY <1>0, <1>7 DEF NextLoop, files, After
<1>8. CASE UNCHANGED vars BY <1>8 DEF vars
<1> QED BY <1>1, <1>2, <1>3, <1>4, <1>5, <1>6, <1>7, <1>8 DEF Next

LEMMA GroupedStep ==
    ASSUME TypeOK, [Next]_vars, NEW n \in 1..Len(table), Grouped(n)'
    PROVE  Grouped(n) \/ (MainGroup /\ n = line)
<1> USE DEF Grouped
<1>0. table[n].gid \in Int /\ line \in Nat
  BY Fields DEF TypeOK
<1>1. CASE MainGroup BY <1>0, <1>1 DEF MainGroup
<1>2. CASE ExtraGroup BY <1>0, <1>2 DEF ExtraGroup
<1>3. CASE AddUser BY <1>0, <1>3 DEF AddUser
<1>4. CASE Fail BY <1>4 DEF Fail
<1>5. CASE FailHome BY <1>5 DEF FailHome
<1>6. CASE NextLine BY <1>0, <1>6 DEF NextLine, files, Concerns, Line
<1>7. CASE NextLoop BY <1>0, <1>7 DEF NextLoop, files, After
<1>8. CASE UNCHANGED vars BY <1>8 DEF vars
<1> QED BY <1>1, <1>2, <1>3, <1>4, <1>5, <1>6, <1>7, <1>8 DEF Next

\* A line for a user that is there from an earlier line names the same group.
LEMMA SameGroup ==
    ASSUME IndInv, AddUser, NEW n \in 1..Len(table), Served(n),
           table[n].username = Line.username
    PROVE  ugid[Line.username] = gid[Line.group]
<1>1. table[n].group \in Group /\ gid \in [Group -> Int \union {NoId}]
  BY Fields DEF IndInv, TypeOK
<1>2. ugid[Line.username] = gid[table[n].group]
  BY DEF IndInv, InGroup
<1>3. Grouped(n)
  BY DEF Served, Grouped
<1>4. gid[table[n].group] # NoId
  BY <1>3 DEF IndInv, HasGid
<1>5. Named(gid, ugid[Line.username]) \subseteq {Line.group}
  BY <1>2, <1>4 DEF AddUser, Valid
<1>6. table[n].group \in Named(gid, ugid[Line.username])
  BY <1>1, <1>2 DEF Named
<1> QED BY <1>2, <1>5, <1>6

-----------------------------------------------------------------------------
\* The inductive invariant, one lemma per part.

LEMMA NextTable == ASSUME [Next]_vars PROVE table' = table
BY DEF Next, vars, MainGroup, ExtraGroup, AddUser, Fail, FailHome, NextLine, NextLoop

LEMMA UidsStep == ASSUME TypeOK, UidsUnique, [Next]_vars PROVE UidsUnique'
<1>0. uid \in [User -> Int \union {NoId}]
  BY DEF TypeOK
<1>1. CASE AddUser
  <2>1. PICK i \in Int : /\ AddOneUser(Line, i)
                         /\ \A x \in User \ {Line.username} : uid[x] # i
    BY <1>1, UserStep
  <2>2. uid' = [uid EXCEPT ![Line.username] = i]
    BY <2>1 DEF AddOneUser
  <2> QED BY <1>0, <2>1, <2>2 DEF UidsUnique, Injective
<1>2. CASE FailHome BY <1>0, <1>2 DEF FailHome, UidsUnique, Injective
<1>3. CASE UNCHANGED uid BY <1>3 DEF UidsUnique, Injective
<1> QED BY <1>1, <1>2, <1>3 DEF Next, vars, files, MainGroup, ExtraGroup, Fail, NextLine, NextLoop

LEMMA HasGidStep == ASSUME TypeOK, HasGid, [Next]_vars PROVE HasGid'
<1> SUFFICES ASSUME NEW n \in 1..Len(table), Grouped(n)'
             PROVE  gid'[table[n].group] # NoId
  BY NextTable DEF HasGid
<1>0. gid \in [Group -> Int \union {NoId}] /\ table[n].group \in Group
  BY Fields DEF TypeOK
<1>1. Grouped(n) \/ (MainGroup /\ n = line)
  BY GroupedStep
<1>2. CASE MainGroup \/ ExtraGroup
  <2>1. PICK g \in Group, i \in Int :
            /\ gid' = [gid EXCEPT ![g] = i]
            /\ MainGroup /\ phase # "extraGroups" => g = Line.group
    BY <1>2, GroupStep
  <2>2. MainGroup /\ n = line => g = table[n].group
    BY <2>1 DEF MainGroup, Line
  <2> QED BY <1>0, <1>1, <2>1, <2>2, TableAssumption DEF HasGid
<1>3. CASE ~(MainGroup \/ ExtraGroup)
  <2>1. gid' = gid
    BY <1>3 DEF Next, vars, files, AddUser, Fail, FailHome, NextLine, NextLoop
  <2> QED BY <1>1, <1>3, <2>1 DEF HasGid
<1> QED BY <1>2, <1>3

\* The steps that are no AddUser and after which a user has been served: they
\* leave the files alone.
LEMMA ServedFiles ==
    ASSUME [Next]_vars, ~AddUser, NEW n \in 1..Len(table), Served(n)'
    PROVE  UNCHANGED <<uid, ugid, gid, homes>>
<1>1. phase' \in {"fixedUids", "autoUids", "done"}
  BY DEF Served
<1> QED BY <1>1 DEF Next, vars, files, MainGroup, ExtraGroup, Fail, FailHome, NextLine, NextLoop

LEMMA InGroupStep == ASSUME IndInv, [Next]_vars PROVE InGroup'
<1> SUFFICES ASSUME NEW n \in 1..Len(table), Served(n)'
             PROVE  ugid'[table[n].username] = gid'[table[n].group]
  BY NextTable DEF InGroup
<1>1. TypeOK /\ UidsUnique
  BY DEF IndInv
<1>2. Served(n) \/ (AddUser /\ n = line)
  BY <1>1, ServedStep
<1>3. CASE ~AddUser
  BY <1>2, <1>3, ServedFiles DEF IndInv, InGroup
<1>4. CASE AddUser
  <2>1. PICK i \in Int : AddOneUser(Line, i)
    BY <1>1, <1>4, UserStep
  <2>2. /\ ugid' = [ugid EXCEPT ![Line.username] = gid[Line.group]]
        /\ gid' = gid /\ ugid \in [User -> Int \union {NoId}]
    BY <1>1, <1>4, <2>1 DEF AddUser, AddOneUser, TypeOK
  <2>3. Line = table[line] /\ Line.username \in User
    BY <1>1, <1>4, LineType DEF AddUser
  <2>4. CASE n = line BY <2>2, <2>3, <2>4
  <2>5. CASE n # line /\ table[n].username # Line.username
    BY <1>2, <2>2, <2>5 DEF IndInv, InGroup
  <2>6. CASE n # line /\ table[n].username = Line.username
    <3>1. ugid[Line.username] = gid[Line.group]
      BY <1>2, <1>4, <2>6, SameGroup
    <3>2. ugid[table[n].username] = gid[table[n].group]
      BY <1>2, <2>6 DEF IndInv, InGroup
    <3> QED BY <2>2, <2>3, <2>6, <3>1, <3>2
  <2> QED BY <2>4, <2>5, <2>6
<1> QED BY <1>3, <1>4

\* A user line that is handled is served, when another is the next.
LEMMA NowServed ==
    ASSUME TypeOK, AddUser
    PROVE  /\ line \in 1..Len(table)
           /\ \A n \in 1..Len(table) : Served(n) \/ n = line => Served(n)'
<1>1. /\ line \in 1..Len(table) /\ Line = table[line] /\ AtLine
      /\ table' = table /\ phase' = phase /\ line' = line + 1
      /\ phase \in {"fixedUids", "autoUids"}
  BY LineType DEF AddUser
<1>2. table[line].username # NoName /\ (phase = "fixedUids" => table[line].uid >= 0)
  BY <1>1 DEF AtLine, Concerns
<1>3. \A n \in 1..Len(table) : n < line => n < line + 1
  BY <1>1
<1>4. line < line + 1 /\ line \in 1..Len(table)
  BY <1>1
<1> QED BY <1>1, <1>2, <1>3, <1>4 DEF Served

LEMMA StillServed ==
    ASSUME TypeOK, [Next]_vars, phase' # "failed", NEW n \in 1..Len(table), Served(n)
    PROVE  Served(n)'
<1>1. table[n].uid \in Int /\ line \in 1..Len(table) + 1
  BY Fields DEF TypeOK
<1>2. CASE AddUser BY <1>2, NowServed
<1>3. CASE NextLine BY <1>1, <1>3 DEF NextLine, Served
<1>4. CASE NextLoop BY <1>1, <1>4 DEF NextLoop, Served, After
<1>5. CASE UNCHANGED vars BY <1>5 DEF vars, Served
<1>6. ~MainGroup /\ ~ExtraGroup
  BY DEF Served, MainGroup, ExtraGroup
<1> QED BY <1>2, <1>3, <1>4, <1>5, <1>6 DEF Next, Fail, FailHome

LEMMA OwnersStep == ASSUME IndInv, [Next]_vars PROVE OwnersRight'
<1> SUFFICES ASSUME phase' # "failed", NEW h \in homes'
             PROVE  /\ uid'[h.user] = h.uid /\ ugid'[h.user] = h.gid
                    /\ \E n \in 1..Len(table) : Served(n)' /\ table[n].username = h.user
  BY NextTable DEF OwnersRight
<1>1. TypeOK /\ UidsUnique
  BY DEF IndInv
<1>2. phase # "failed"
  BY DEF Next, vars, files, MainGroup, ExtraGroup, AddUser, Fail, FailHome, NextLine, NextLoop,
         AtLine, Concerns, After
<1>3. CASE ~AddUser
  <2>1. h \in homes
    BY <1>3 DEF Next, vars, files, MainGroup, ExtraGroup, Fail, FailHome, NextLine, NextLoop
  <2>2. PICK n \in 1..Len(table) : Served(n) /\ table[n].username = h.user
    BY <1>2, <2>1 DEF IndInv, OwnersRight
  <2>3. Served(n)'
    BY <1>1, <2>2, StillServed
  <2>4. UNCHANGED <<uid, ugid>>
    BY <1>3, <2>3, ServedFiles
  <2> QED BY <1>2, <2>1, <2>2, <2>3, <2>4 DEF IndInv, OwnersRight
<1>4. CASE AddUser
  <2>1. PICK i \in Int : /\ AddOneUser(Line, i)
                         /\ uid[Line.username] # NoId => i = uid[Line.username]
    BY <1>1, <1>4, UserStep
  <2>2. /\ uid' = [uid EXCEPT ![Line.username] = i] /\ uid \in [User -> Int \union {NoId}]
        /\ ugid' = [ugid EXCEPT ![Line.username] = gid[Line.group]]
        /\ ugid \in [User -> Int \union {NoId}]
    BY <1>1, <2>1 DEF AddOneUser, TypeOK
  <2>3. /\ Line = table[line] /\ Line.username \in User
        /\ \E n \in 1..Len(table) : n = line /\ Served(n)'
    BY <1>1, <1>4, LineType, NowServed DEF AddUser
  <2>4. CASE h \in homes
    <3>1. PICK n \in 1..Len(table) : Served(n) /\ table[n].username = h.user
      BY <1>2, <2>4 DEF IndInv, OwnersRight
    <3>2. Served(n)'
      BY <1>1, <3>1, StillServed
    <3>3. uid[h.user] = h.uid /\ ugid[h.user] = h.gid /\ h.uid \in Int /\ h.user \in User
      BY <1>1, <1>2, <2>4 DEF IndInv, OwnersRight, TypeOK
    <3>4. CASE h.user # Line.username BY <2>2, <3>1, <3>2, <3>3, <3>4
    <3>5. CASE h.user = Line.username
      <4>1. ugid[Line.username] = gid[Line.group]
        BY <1>4, <3>1, <3>5, SameGroup
      <4>2. i = uid[Line.username]
        BY <2>1, <3>3, <3>5, TableAssumption
      <4> QED BY <2>2, <2>3, <3>1, <3>2, <3>3, <3>5, <4>1, <4>2
    <3> QED BY <3>4, <3>5
  <2>5. CASE h \notin homes
    <3>0. PICK d \in {Line.home} \ {NoHome} :
              h = [user |-> Line.username, home |-> d, uid |-> i, gid |-> gid[Line.group]]
      BY <2>1, <2>5 DEF AddOneUser
    <3>1. h.user = Line.username /\ h.uid = i /\ h.gid = gid[Line.group]
      BY <3>0
    <3> QED BY <2>2, <2>3, <3>1
  <2> QED BY <2>4, <2>5
<1> QED BY <1>3, <1>4

LEMMA HomesStep == ASSUME IndInv, [Next]_vars PROVE HomesMade'
<1> SUFFICES ASSUME NEW n \in 1..Len(table), Served(n)', table[n].home \in Home
             PROVE  \E h \in homes' : h.user = table[n].username /\ h.home = table[n].home
  BY NextTable DEF HomesMade
<1>1. TypeOK /\ UidsUnique
  BY DEF IndInv
<1>2. Served(n) \/ (AddUser /\ n = line)
  BY <1>1, ServedStep
<1>3. CASE Served(n)
  <2>1. PICK h \in homes : h.user = table[n].username /\ h.home = table[n].home
    BY <1>3 DEF IndInv, HomesMade
  <2>2. CASE ~AddUser BY <2>1, <2>2, ServedFiles
  <2>3. CASE AddUser
    <3>1. PICK i \in Int : AddOneUser(Line, i)
      BY <1>1, <2>3, UserStep
    <3> QED BY <2>1, <3>1 DEF AddOneUser
  <2> QED BY <2>2, <2>3
<1>4. CASE AddUser /\ n = line
  <2>1. PICK i \in Int : AddOneUser(Line, i)
    BY <1>1, <1>4, UserStep
  <2>2. Line = table[n] /\ table[n].home # NoHome
    BY <1>1, <1>4, LineType, TableAssumption DEF AddUser
  <2>3. [user |-> Line.username, home |-> Line.home, uid |-> i, gid |-> gid[Line.group]] \in homes'
    BY <2>1, <2>2 DEF AddOneUser
  <2> DEFINE h == [user |-> Line.username, home |-> Line.home, uid |-> i, gid |-> gid[Line.group]]
  <2>4. h \in homes' /\ h.user = table[n].username /\ h.home = table[n].home
    BY <2>2, <2>3
  <2> QED BY <2>4
<1> QED BY <1>2, <1>3, <1>4

LEMMA InitInv == Init => IndInv
<1> SUFFICES ASSUME Init PROVE IndInv OBVIOUS
<1>1. TypeOK BY InitType
<1>2. UidsUnique BY SkeletonAssumption DEF Init, UidsUnique
<1>3. \A n \in 1..Len(table) : ~Served(n) /\ ~Grouped(n)
  BY DEF Init, Served, Grouped
<1>4. homes = {}
  BY DEF Init
<1> QED BY <1>1, <1>2, <1>3, <1>4 DEF IndInv, HasGid, InGroup, OwnersRight, HomesMade

\* The inductive invariant: uids are unique, and the users and homes that were
\* handled agree with the group file.
THEOREM Invariance == Spec => []IndInv
<1>1. Init => IndInv BY InitInv
<1>2. IndInv /\ [Next]_vars => IndInv'
  <2> SUFFICES ASSUME IndInv, [Next]_vars PROVE IndInv' OBVIOUS
  <2>1. TypeOK /\ UidsUnique /\ HasGid BY DEF IndInv
  <2>2. TypeOK' BY <2>1, StepType
  <2>3. UidsUnique' BY <2>1, UidsStep
  <2>4. HasGid' BY <2>1, HasGidStep
  <2>5. InGroup' /\ OwnersRight' /\ HomesMade' BY InGroupStep, OwnersStep, HomesStep
  <2> QED BY <2>2, <2>3, <2>4, <2>5 DEF IndInv
<1> QED BY <1>1, <1>2, PTL DEF Spec

-----------------------------------------------------------------------------
\* No two users ever share a uid, whatever the table says.
THEOREM UniqueUids == Spec => []UidsUnique
<1>1. IndInv => UidsUnique BY DEF IndInv
<1> QED BY <1>1, Invariance, PTL

LEMMA AllServed ==
    ASSUME TypeOK, Done, NEW e \in Users
    PROVE  \E n \in 1..Len(table) : table[n] = e /\ Served(n) /\ Grouped(n)
BY DEF Done, Users, Asked, Served, Grouped

\* When mkusers is done, the passwd file agrees with the group file on the main
\* group of every user of the table.
THEOREM MainGroups == Spec => []InMainGroup
<1>1. IndInv => InMainGroup
  <2> SUFFICES ASSUME IndInv, Done, NEW e \in Users
               PROVE  ugid[e.username] = gid[e.group] /\ gid[e.group] # NoId
    BY DEF InMainGroup
  <2>1. PICK n \in 1..Len(table) : table[n] = e /\ Served(n) /\ Grouped(n)
    BY AllServed DEF IndInv
  <2> QED BY <2>1 DEF IndInv, InGroup, HasGid
<1> QED BY <1>1, Invariance, PTL

\* The home directories belong to their users and the main groups of these.
THEOREM Homes == Spec => []HomesOwned
<1>1. IndInv => HomesOwned
  <2> SUFFICES ASSUME IndInv, Done
               PROVE  /\ \A h \in homes : uid[h.user] = h.uid /\ ugid[h.user] = h.gid
                      /\ \A e \in Users : e.home \in Home =>
                             \E h \in homes : h.user = e.username /\ h.home = e.home
    BY DEF HomesOwned
  <2>1. \A h \in homes : uid[h.user] = h.uid /\ ugid[h.user] = h.gid
    BY DEF Done, IndInv, OwnersRight
  <2>2. ASSUME NEW e \in Users, e.home \in Home
        PROVE \E h \in homes : h.user = e.username /\ h.home = e.home
    <3>1. PICK n \in 1..Len(table) : table[n] = e /\ Served(n) /\ Grouped(n)
      BY AllServed DEF IndInv
    <3> QED BY <2>2, <3>1 DEF IndInv, HomesMade
  <2> QED BY <2>1, <2>2
<1> QED BY <1>1, Invariance, PTL

-----------------------------------------------------------------------------
\* What is in the group file.

\* A step of a group loop writes one group, with an id for what a line wants:
\* as its main group or as an additional one.
LEMMA WrittenGroup ==
    ASSUME TypeOK, MainGroup \/ ExtraGroup
    PROVE  /\ line \in 1..Len(table)
           /\ \E g \in Group, want \in Int : \E i \in Ids(gid, g, want) :
                  /\ gid' = [gid EXCEPT ![g] = i]
                  /\ \/ g = table[line].group /\ want = table[line].gid
                     \/ /\ g \in ToSet(table[line].groups) /\ want = AutoId(table[line].uid)
                        /\ table[line].groups # <<>>
<1>1. CASE MainGroup
  <2>1. line \in 1..Len(table) /\ Line = table[line] /\ Line.group \in Group /\ Line.gid \in Int
    BY <1>1, LineType DEF MainGroup
  <2> QED BY <1>1, <2>1 DEF MainGroup, AddOneGroup
<1>2. CASE ExtraGroup
  <2>1. /\ line \in 1..Len(table) /\ Line = table[line] /\ Line.groups \in Seq(Group)
        /\ Line.groups[nth] \in Group /\ AutoId(Line.uid) \in Int
    BY <1>2, LineType, ExtraType DEF ExtraGroup
  <2>2. nth \in 1..Len(Line.groups)
    BY <1>2 DEF ExtraGroup, AtLine, Concerns, TypeOK
  <2>3. Line.groups[nth] \in ToSet(Line.groups) /\ Line.groups # <<>>
    BY <2>1, <2>2 DEF ToSet
  <2> QED BY <1>2, <2>1, <2>3 DEF ExtraGroup, AddOneGroup
<1> QED BY <1>1, <1>2

LEMMA OtherStep ==
    ASSUME [Next]_vars, ~(MainGroup \/ ExtraGroup)
    PROVE  gid' = gid
BY DEF Next, vars, files, AddUser, Fail, FailHome, NextLine, NextLoop

\* What a table asks for does not change.
LEMMA AskedStep ==
    ASSUME [Next]_vars
    PROVE  /\ \A e : Undisputed(e)' <=> Undisputed(e)
           /\ Renumbers' <=> Renumbers
BY NextTable DEF Undisputed, Renumbers, Asked

LEMMA GivenStep == ASSUME TypeOK, GivenKept, [Next]_vars PROVE GivenKept'
<1> SUFFICES ASSUME NEW n \in 1..Len(table), Grouped(n)', table[n].gid >= 0, Undisputed(table[n])
             PROVE  gid'[table[n].group] = table[n].gid
  BY NextTable, AskedStep DEF GivenKept
<1>0. /\ gid \in [Group -> Int \union {NoId}] /\ table[n].group \in Group
      /\ table[n].gid \in Int /\ table[n].gid \notin Automatic
  BY Fields DEF TypeOK, Automatic, AutoSystem, AutoUser
<1>1. Grouped(n) \/ (MainGroup /\ n = line)
  BY GroupedStep
<1>2. CASE MainGroup /\ n = line
  <2>1. PICK i \in Ids(gid, table[n].group, table[n].gid) : gid' = [gid EXCEPT ![table[n].group] = i]
    BY <1>2 DEF MainGroup, AddOneGroup, Line
  <2>2. i = table[n].gid
    BY <1>0, <2>1, IdsSpec
  <2> QED BY <1>0, <2>1, <2>2
<1>3. CASE Grouped(n) /\ (MainGroup \/ ExtraGroup)
  <2>1. gid[table[n].group] = table[n].gid /\ gid[table[n].group] # NoId
    BY <1>0, <1>3, TableAssumption DEF GivenKept
  <2>2. line \in 1..Len(table)
    BY <1>3, WrittenGroup
  <2>3a. PICK g \in Group, want \in Int : \E i \in Ids(gid, g, want) :
            /\ gid' = [gid EXCEPT ![g] = i]
            /\ \/ g = table[line].group /\ want = table[line].gid
               \/ g \in ToSet(table[line].groups) /\ want = AutoId(table[line].uid)
    BY <1>3, WrittenGroup
  <2>3. PICK i \in Ids(gid, g, want) :
            /\ gid' = [gid EXCEPT ![g] = i]
            /\ \/ g = table[line].group /\ want = table[line].gid
               \/ g \in ToSet(table[line].groups) /\ want = AutoId(table[line].uid)
    BY <2>3a
  <2>4. CASE g # table[n].group BY <1>0, <2>1, <2>3, <2>4
  <2>5. CASE g = table[n].group
    <3>1. table[line] \in Asked
      BY <2>2 DEF Asked
    <3>2. want \in Automatic \union {table[n].gid}
      BY <2>3, <2>5, <3>1 DEF Undisputed
    <3>3. i = table[n].gid
      BY <1>0, <2>1, <2>3, <2>5, <3>2, IdsSpec
    <3> QED BY <1>0, <2>3, <2>5, <3>3
  <2> QED BY <2>4, <2>5
<1>4. CASE Grouped(n) /\ ~(MainGroup \/ ExtraGroup)
  BY <1>4, OtherStep DEF GivenKept
<1> QED BY <1>1, <1>2, <1>3, <1>4

LEMMA SharedStep == ASSUME TypeOK, SharedGiven, [Next]_vars PROVE SharedGiven'
<1> DEFINE Gives(n) == \/ table[n].username = NoName /\ table[n].gid \notin Automatic
                       \/ table[n].groups # <<>> /\ AutoId(table[n].uid) \notin Automatic
           User1(i) == \E n \in 1..Len(table) : /\ table[n].username # NoName
                                                /\ table[n].gid \notin Automatic /\ table[n].gid = i
<1> SUFFICES ASSUME \A n \in 1..Len(table) : ~Gives(n),
                    NEW g \in Group, NEW h \in Group, gid'[g] = gid'[h], gid'[g] # NoId, g # h
             PROVE  User1(gid'[g])
  BY NextTable DEF SharedGiven
<1>0. gid \in [Group -> Int \union {NoId}]
  BY DEF TypeOK
<1>1. ASSUME gid[g] = gid[h], gid[g] # NoId PROVE User1(gid[g])
  BY <1>1 DEF SharedGiven
<1>2. CASE MainGroup \/ ExtraGroup
  <2>1. line \in 1..Len(table)
    BY <1>2, WrittenGroup
  <2>2a. PICK f \in Group, want \in Int : \E i \in Ids(gid, f, want) :
            /\ gid' = [gid EXCEPT ![f] = i]
            /\ \/ f = table[line].group /\ want = table[line].gid
               \/ want = AutoId(table[line].uid) /\ table[line].groups # <<>>
    BY <1>2, WrittenGroup
  <2>2. PICK i \in Ids(gid, f, want) :
            /\ gid' = [gid EXCEPT ![f] = i]
            /\ \/ f = table[line].group /\ want = table[line].gid
               \/ want = AutoId(table[line].uid) /\ table[line].groups # <<>>
    BY <2>2a
  <2>3. CASE want \notin Automatic
    <3>1. want = table[line].gid /\ table[line].username # NoName
      BY <2>1, <2>2, <2>3
    <3>2. i = want
      BY <1>0, <2>2, <2>3, IdsSpec
    <3>3. CASE f \in {g, h}
      <4>1. gid'[g] = want
        BY <1>0, <2>2, <3>2, <3>3
      <4> QED BY <2>1, <2>3, <3>1, <4>1
    <3>4. CASE f \notin {g, h} BY <1>0, <1>1, <2>2, <3>4
    <3> QED BY <3>3, <3>4
  <2>4. CASE want \in Automatic /\ gid[f] # NoId
    <3>1. i = gid[f]
      BY <1>0, <2>2, <2>4, IdsSpec
    <3> QED BY <1>0, <1>1, <2>2, <3>1
  <2>5. CASE want \in Automatic /\ gid[f] = NoId
    <3>1. \A x \in Group : gid[x] # i
      BY <1>0, <2>2, <2>5, IdsSpec
    <3> QED BY <1>0, <1>1, <2>2, <3>1
  <2> QED BY <2>3, <2>4, <2>5
<1>3. CASE ~(MainGroup \/ ExtraGroup) BY <1>1, <1>3, OtherStep
<1> QED BY <1>2, <1>3

LEMMA SkeletonGidsStep == ASSUME TypeOK, SkeletonGids, [Next]_vars PROVE SkeletonGids'
<1> SUFFICES ASSUME ~Renumbers, NEW g \in Group, Gid0[g] # NoId
             PROVE  gid'[g] = Gid0[g]
  BY AskedStep DEF SkeletonGids
<1>0. gid \in [Group -> Int \union {NoId}] /\ gid[g] = Gid0[g]
  BY DEF TypeOK, SkeletonGids
<1>1. CASE MainGroup \/ ExtraGroup
  <2>1. line \in 1..Len(table)
    BY <1>1, WrittenGroup
  <2>2a. PICK f \in Group, want \in Int : \E i \in Ids(gid, f, want) :
            /\ gid' = [gid EXCEPT ![f] = i]
            /\ \/ f = table[line].group /\ want = table[line].gid
               \/ want = AutoId(table[line].uid) /\ table[line].groups # <<>>
    BY <1>1, WrittenGroup
  <2>2. PICK i \in Ids(gid, f, want) :
            /\ gid' = [gid EXCEPT ![f] = i]
            /\ \/ f = table[line].group /\ want = table[line].gid
               \/ want = AutoId(table[line].uid) /\ table[line].groups # <<>>
    BY <2>2a
  <2>3. CASE f # g BY <1>0, <2>2, <2>3
  <2>4. CASE f = g
    <3>1. want \in Automatic \/ want = Gid0[g]
      BY <2>1, <2>2, <2>4 DEF Renumbers, Asked
    <3>2. i = Gid0[g]
      BY <1>0, <2>2, <2>4, <3>1, IdsSpec
    <3> QED BY <1>0, <2>2, <2>4, <3>2
  <2> QED BY <2>3, <2>4
<1>2. CASE ~(MainGroup \/ ExtraGroup) BY <1>0, <1>2, OtherStep
<1> QED BY <1>1, <1>2

LEMMA InitGroups == Init => GroupInv
<1> SUFFICES ASSUME Init PROVE GroupInv OBVIOUS
<1>1. GivenKept
  BY DEF Init, GivenKept, Grouped
<1>2. SharedGiven
  BY SkeletonAssumption DEF Init, SharedGiven, Injective
<1>3. SkeletonGids
  BY DEF Init, SkeletonGids
<1> QED BY <1>1, <1>2, <1>3 DEF GroupInv

\* The invariant of the group file: gids that were given are kept, gids that are
\* shared were given, and the groups of the skeleton are as they were.
THEOREM GroupInvariance == Spec => []GroupInv
<1>1. Init => GroupInv BY InitGroups
<1>2. TypeOK /\ GroupInv /\ [Next]_vars => GroupInv'
  BY GivenStep, SharedStep, SkeletonGidsStep DEF GroupInv
<1> QED BY <1>1, <1>2, TypeCorrect, PTL DEF Spec

-----------------------------------------------------------------------------
\* What is in the passwd file, and who is in the groups.

\* Unless a user is added or mkusers fails, the users are as they were.
LEMMA NoUserStep ==
    ASSUME TypeOK, [Next]_vars, ~AddUser, phase' # "failed"
    PROVE  /\ \A n \in 1..Len(table) : Served(n)' <=> Served(n)
           /\ UNCHANGED <<uid, ugid, members>>
<1>1. \A n \in 1..Len(table) : Served(n)' <=> Served(n)
  BY ServedStep, StillServed
<1>2. UNCHANGED <<uid, ugid, members>>
  BY DEF Next, vars, files, MainGroup, ExtraGroup, AddOneGroup, Fail, FailHome, NextLine, NextLoop
<1> QED BY <1>1, <1>2

LEMMA UserServed ==
    ASSUME TypeOK, AddUser, NEW n \in 1..Len(table)
    PROVE  Served(n)' <=> Served(n) \/ n = line
<1>1. [Next]_vars
  BY DEF Next
<1> QED BY <1>1, ServedStep, NowServed

\* A user that is added joins the groups of its line.
LEMMA JoinedGroup ==
    ASSUME NEW file, NEW e, NEW g \in Group
    PROVE  Joined(file, e)[g] = file[g] \union (IF g \in ToSet(e.groups) THEN {e.username} ELSE {})
BY DEF Joined

LEMMA MembersStep == ASSUME TypeOK, UidsUnique, MembersRight, [Next]_vars PROVE MembersRight'
<1> DEFINE From(g) == {n \in 1..Len(table) : Joins(n, g)}
           Names(N) == {table[n].username : n \in N}
<1> SUFFICES ASSUME phase' # "failed", NEW g \in Group
             PROVE  members'[g] = Members0[g] \union Names({n \in 1..Len(table) : Joins(n, g)'})
  BY NextTable DEF MembersRight
<1>1. phase # "failed"
  BY DEF Next, vars, files, MainGroup, ExtraGroup, AddUser, Fail, FailHome, NextLine, NextLoop,
         AtLine, Concerns, After
<1>2. members[g] = Members0[g] \union Names(From(g))
  BY <1>1 DEF MembersRight
<1>3. CASE ~AddUser
  <2>1. \A n \in 1..Len(table) : Joins(n, g)' <=> Joins(n, g)
    BY <1>3, NoUserStep, NextTable DEF Joins
  <2>2. members' = members
    BY <1>3, NoUserStep
  <2> QED BY <1>2, <2>1, <2>2
<1>4. CASE AddUser
  <2>1. line \in 1..Len(table) /\ Line = table[line] /\ table' = table
    BY <1>4, LineType DEF AddUser
  <2>2. members' = Joined(members, Line)
    BY <1>4 DEF AddUser, AddOneUser
  <2>3. members'[g] = members[g] \union (IF g \in ToSet(table[line].groups) THEN {table[line].username} ELSE {})
    BY <2>1, <2>2, JoinedGroup
  <2>4. \A n \in 1..Len(table) : Joins(n, g)' <=> Joins(n, g) \/ (n = line /\ g \in ToSet(table[line].groups))
    BY <1>4, <2>1, UserServed DEF Joins
  <2>5. Names({n \in 1..Len(table) : Joins(n, g)'})
            = Names(From(g)) \union (IF g \in ToSet(table[line].groups) THEN {table[line].username} ELSE {})
    <3> HIDE DEF Joins
    <3>1. {n \in 1..Len(table) : Joins(n, g)'}
              = From(g) \union (IF g \in ToSet(table[line].groups) THEN {line} ELSE {})
      BY <2>1, <2>4
    <3> QED BY <3>1
  <2> QED BY <1>2, <2>3, <2>5
<1> QED BY <1>3, <1>4

LEMMA ShadowStep == ASSUME TypeOK, UidsUnique, ShadowHas, [Next]_vars PROVE ShadowHas'
<1> SUFFICES ASSUME NEW n \in 1..Len(table), NEW g \in Group, HasGshadow, Joins(n, g)'
             PROVE  table[n].username \in gshadow'[g]
  BY NextTable DEF ShadowHas
<1>1. Served(n)' /\ g \in ToSet(table[n].groups)
  BY NextTable DEF Joins
<1>2. CASE AddUser
  <2>1. line \in 1..Len(table) /\ Line = table[line]
    BY <1>2, LineType DEF AddUser
  <2>2. gshadow' = Joined(gshadow, Line)
    BY <1>2 DEF AddUser, AddOneUser
  <2>3. gshadow'[g] = gshadow[g] \union (IF g \in ToSet(table[line].groups) THEN {table[line].username} ELSE {})
    BY <2>1, <2>2, JoinedGroup
  <2>4. Served(n) \/ n = line
    BY <1>1, <1>2, UserServed
  <2> QED BY <1>1, <2>3, <2>4 DEF ShadowHas, Joins
<1>3. CASE ~AddUser
  <2>1. Served(n)
    BY <1>1, <1>3, ServedStep
  <2>2. gshadow' = gshadow
    <3>1. phase' \in {"fixedUids", "autoUids", "done"}
      BY <1>1 DEF Served
    <3> QED BY <1>3, <3>1 DEF Next, vars, files, MainGroup, ExtraGroup, Fail, FailHome, NextLine, NextLoop
  <2> QED BY <1>1, <2>1, <2>2 DEF ShadowHas, Joins
<1> QED BY <1>2, <1>3

LEMMA CheckedStep == ASSUME IndInv, Checked, [Next]_vars PROVE Checked'
<1> SUFFICES ASSUME NEW n \in 1..Len(table), Served(n)'
             PROVE  /\ table[n].gid >= -2 /\ table[n].gid # 0 /\ table[n].uid >= -2 /\ table[n].uid # 0
                    /\ table[n].gid >= 0 => /\ Named(gid', table[n].gid) \subseteq {table[n].group}
                                            /\ gid'[table[n].group] = table[n].gid
                    /\ table[n].uid >= 0 => uid'[table[n].username] = table[n].uid
  BY NextTable DEF Checked, Named
<1>0. TypeOK /\ UidsUnique
  BY DEF IndInv
<1>1. CASE ~AddUser
  <2>1. Served(n)
    BY <1>0, <1>1, ServedStep
  <2>2. UNCHANGED <<uid, gid>>
    BY <1>1, ServedFiles
  <2> QED BY <2>1, <2>2 DEF Checked
<1>2. CASE AddUser
  <2>1. PICK i \in Int : AddOneUser(Line, i) /\ (uid[Line.username] # NoId => i = uid[Line.username])
    BY <1>0, <1>2, UserStep
  <2>2. /\ uid' = [uid EXCEPT ![Line.username] = i] /\ gid' = gid
        /\ uid \in [User -> Int \union {NoId}]
    BY <1>0, <1>2, <2>1 DEF AddUser, AddOneUser, TypeOK
  <2>3. /\ Line = table[line] /\ Line.username \in User /\ Line.uid \in Int
        /\ Line.group \in Group
    BY <1>0, <1>2, LineType DEF AddUser
  <2>4. Served(n) \/ n = line
    BY <1>0, <1>2, UserServed
  <2>5. table[n].uid \in Int /\ table[n].gid \in Int /\ table[n].username \in User \union {NoName}
    BY <1>0, Fields
  <2>6. CASE n = line
    <3>1. gid[Line.group] # NoId
      <4>1. Grouped(line)
        BY <1>2 DEF AddUser, Grouped
      <4> QED BY <2>3, <2>6, <4>1 DEF IndInv, HasGid
    <3>2. i = Line.uid \/ Line.uid < 0
      <4>1. CASE uid[Line.username] # NoId
        BY <1>2, <2>1, <2>3, <4>1 DEF AddUser, Valid
      <4>2. CASE Line.uid >= 0
        <5>1. PICK j \in Ids(uid, Line.username, Line.uid) : AddOneUser(Line, j)
          BY <1>2 DEF AddUser
        <5>2. Line.uid \notin Automatic
          BY <2>3, <4>2 DEF Automatic, AutoSystem, AutoUser
        <5>3. j = Line.uid
          BY <2>2, <2>3, <5>1, <5>2, IdsSpec
        <5>4. uid' = [uid EXCEPT ![Line.username] = j]
          BY <5>1 DEF AddOneUser
        <5> QED BY <2>2, <2>3, <5>3, <5>4
      <4> QED BY <2>3, <4>1, <4>2
    <3> QED BY <1>2, <2>2, <2>3, <2>6, <3>1, <3>2 DEF AddUser, Valid
  <2>7. CASE Served(n)
    <3>1. table[n].uid >= 0 => uid[table[n].username] = table[n].uid /\ uid[table[n].username] # NoId
      BY <2>5, <2>7, TableAssumption DEF Checked
    <3>2. table[n].uid >= 0 => uid'[table[n].username] = table[n].uid
      BY <2>1, <2>2, <2>3, <3>1
    <3> QED BY <2>2, <2>7, <3>2 DEF Checked
  <2> QED BY <2>4, <2>6, <2>7
<1> QED BY <1>1, <1>2

LEMMA SkeletonUsersStep ==
    ASSUME IndInv, SkeletonGids, SkeletonUsers, [Next]_vars PROVE SkeletonUsers'
<1> SUFFICES ASSUME phase' # "failed", ~Renumbers, NEW u \in User, Uid0[u] # NoId
             PROVE  /\ uid'[u] = Uid0[u]
                    /\ \A g \in Group : UserGid0[u] = Gid0[g] /\ Gid0[g] # NoId => ugid'[u] = UserGid0[u]
  BY AskedStep DEF SkeletonUsers
<1>0. TypeOK /\ UidsUnique
  BY DEF IndInv
<1>1. phase # "failed"
  BY DEF Next, vars, files, MainGroup, ExtraGroup, AddUser, Fail, FailHome, NextLine, NextLoop,
         AtLine, Concerns, After
<1>2. /\ uid[u] = Uid0[u]
      /\ \A g \in Group : UserGid0[u] = Gid0[g] /\ Gid0[g] # NoId => ugid[u] = UserGid0[u]
  BY <1>1 DEF SkeletonUsers
<1>3. CASE ~AddUser BY <1>0, <1>2, <1>3, NoUserStep
<1>4. CASE AddUser
  <2>1. PICK i \in Int : AddOneUser(Line, i) /\ (uid[Line.username] # NoId => i = uid[Line.username])
    BY <1>0, <1>4, UserStep
  <2>2. /\ uid' = [uid EXCEPT ![Line.username] = i] /\ uid \in [User -> Int \union {NoId}]
        /\ ugid' = [ugid EXCEPT ![Line.username] = gid[Line.group]]
        /\ ugid \in [User -> Int \union {NoId}] /\ gid \in [Group -> Int \union {NoId}]
    BY <1>0, <2>1 DEF AddOneUser, TypeOK
  <2>3. uid'[u] = Uid0[u]
    BY <1>2, <2>1, <2>2
  <2>4. ASSUME NEW g \in Group, UserGid0[u] = Gid0[g], Gid0[g] # NoId
        PROVE  ugid'[u] = UserGid0[u]
    <3>1. ugid[u] = Gid0[g] /\ gid[g] = Gid0[g]
      BY <1>2, <2>4 DEF SkeletonGids
    <3>2. CASE u = Line.username
      <4>1. Named(gid, ugid[u]) \subseteq {Line.group}
        BY <1>4, <2>4, <3>1, <3>2 DEF AddUser, Valid
      <4>2. g = Line.group
        BY <2>2, <3>1, <4>1 DEF Named
      <4> QED BY <2>2, <2>4, <3>1, <3>2, <4>2
    <3>3. CASE u # Line.username BY <2>2, <2>4, <3>1, <3>3
    <3> QED BY <3>2, <3>3
  <2> QED BY <2>3, <2>4
<1> QED BY <1>3, <1>4

LEMMA InitUsers == Init => UserInv
<1> SUFFICES ASSUME Init PROVE UserInv OBVIOUS
<1>1. \A n \in 1..Len(table) : ~Served(n)
  BY DEF Init, Served
<1>2. MembersRight
  BY <1>1 DEF Init, MembersRight, Joins
<1>3. ShadowHas /\ Checked
  BY <1>1 DEF ShadowHas, Checked, Joins
<1>4. SkeletonUsers
  BY DEF Init, SkeletonUsers
<1> QED BY <1>2, <1>3, <1>4 DEF UserInv

\* The invariant of the users and of the members of groups: what was checked of a
\* line and what it asked for stays true while the lines after it are handled.
THEOREM UserInvariance == Spec => []UserInv
<1>1. Init => UserInv BY InitUsers
<1>2. IndInv /\ GroupInv /\ UserInv /\ [Next]_vars => UserInv'
  <2> SUFFICES ASSUME IndInv, GroupInv, UserInv, [Next]_vars PROVE UserInv' OBVIOUS
  <2>1. TypeOK /\ UidsUnique /\ SkeletonGids
    BY DEF IndInv, GroupInv
  <2>2. MembersRight' /\ ShadowHas'
    BY <2>1, MembersStep, ShadowStep DEF UserInv
  <2>3. Checked' /\ SkeletonUsers'
    BY <2>1, CheckedStep, SkeletonUsersStep DEF UserInv
  <2> QED BY <2>2, <2>3 DEF UserInv
<1> QED BY <1>1, <1>2, Invariance, GroupInvariance, PTL DEF Spec

-----------------------------------------------------------------------------
\* A user line that was not refused has a uid additional groups are created
\* with an automatic gid for.
LEMMA AutoIdOfUser ==
    ASSUME TypeOK, Checked, Done, NEW e \in Users
    PROVE  AutoId(e.uid) \in Automatic
<1>1. PICK n \in 1..Len(table) : table[n] = e /\ Served(n)
  BY AllServed
<1>2. e.uid \in Int /\ e.uid >= -2 /\ e.uid # 0
  BY <1>1, Fields DEF Checked
<1> QED BY <1>2 DEF AutoId, Automatic, AutoSystem, AutoUser

\* Everyone who was asked to be in a group is, and the members of the skeleton
\* still are.
THEOREM Members == Spec => []Membership
<1>1. TypeOK /\ UserInv => Membership
  <2> SUFFICES ASSUME TypeOK, UserInv, Done, NEW g \in Group
               PROVE  /\ members[g] = Members0[g] \union Wanted(g)
                      /\ HasGshadow => Wanted(g) \subseteq gshadow[g]
    BY DEF Membership
  <2>1. Wanted(g) = {table[n].username : n \in {n \in 1..Len(table) : Joins(n, g)}}
    <3>1. ASSUME NEW u \in Wanted(g)
          PROVE  \E n \in 1..Len(table) : Joins(n, g) /\ table[n].username = u
      <4>1. PICK e \in Users : g \in ToSet(e.groups) /\ e.username = u
        BY DEF Wanted
      <4> QED BY <4>1, AllServed DEF Joins
    <3>2. ASSUME NEW n \in 1..Len(table), Joins(n, g)
          PROVE  table[n].username \in Wanted(g)
      <4>1. table[n] \in Users /\ g \in ToSet(table[n].groups)
        BY <3>2 DEF Joins, Served, Users, Asked
      <4> QED BY <4>1 DEF Wanted
    <3> QED BY <3>1, <3>2
  <2>2. members[g] = Members0[g] \union Wanted(g)
    BY <2>1 DEF UserInv, MembersRight, Done
  <2>3. HasGshadow => Wanted(g) \subseteq gshadow[g]
    BY <2>1 DEF UserInv, ShadowHas
  <2> QED BY <2>2, <2>3
<1> QED BY <1>1, TypeCorrect, UserInvariance, PTL

\* The uid and the gid a line gives are those that are used, whatever other
\* lines say and in whatever order they are.
THEOREM GivenIds == Spec => []SpecifiedWins
<1>1. IndInv /\ GroupInv /\ UserInv => SpecifiedWins
  <2> SUFFICES ASSUME IndInv, GroupInv, UserInv, Done PROVE SpecifiedWins
    BY DEF SpecifiedWins
  <2>0. TypeOK
    BY DEF IndInv
  <2>1. ASSUME NEW e \in Users
        PROVE  /\ e.uid >= 0 => uid[e.username] = e.uid
               /\ e.gid >= 0 => gid[e.group] = e.gid
    <3>1. PICK n \in 1..Len(table) : table[n] = e /\ Served(n)
      BY <2>0, AllServed
    <3> QED BY <3>1 DEF UserInv, Checked
  <2>2. ASSUME NEW e \in Asked \ Users, e.gid >= 0, Undisputed(e)
        PROVE  gid[e.group] = e.gid
    <3>1. PICK n \in 1..Len(table) : table[n] = e
      BY <2>2 DEF Asked
    <3>2. Grouped(n)
      BY DEF Done, Grouped
    <3> QED BY <2>2, <3>1, <3>2 DEF GroupInv, GivenKept
  <2> QED BY <2>1, <2>2 DEF SpecifiedWins
<1> QED BY <1>1, Invariance, GroupInvariance, UserInvariance, PTL

\* When mkusers accepts a table, two groups only share a gid if a line that is
\* not checked, for it describes a group only, asked for it.
THEOREM UniqueGids == Spec => []GidsUnique
<1>1. IndInv /\ GroupInv /\ UserInv => GidsUnique
  <2> SUFFICES ASSUME IndInv, GroupInv, UserInv, Done, \A e \in Asked \ Users : GivesNoGid(e)
               PROVE  Injective(gid)
    BY DEF GidsUnique
  <2> SUFFICES ASSUME NEW g \in Group, NEW h \in Group, gid[g] = gid[h], gid[g] # NoId, g # h
               PROVE  FALSE
    BY DEF IndInv, TypeOK, Injective
  <2>0. TypeOK /\ Checked
    BY DEF IndInv, UserInv
  <2>1. ASSUME NEW n \in 1..Len(table)
        PROVE  /\ ~(table[n].username = NoName /\ table[n].gid \notin Automatic)
               /\ ~(table[n].groups # <<>> /\ AutoId(table[n].uid) \notin Automatic)
    <3>1. table[n] \in Asked
      BY DEF Asked
    <3>2. CASE table[n].username = NoName
      <4>1. GivesNoGid(table[n])
        BY <3>1, <3>2 DEF Users
      <4> QED BY <3>2, <4>1 DEF GivesNoGid
    <3>3. CASE table[n].username # NoName
      <4>1. table[n] \in Users
        BY <3>1, <3>3 DEF Users
      <4> QED BY <2>0, <3>3, <4>1, AutoIdOfUser
    <3> QED BY <3>2, <3>3
  <2>2. PICK n \in 1..Len(table) : /\ table[n].username # NoName
                                   /\ table[n].gid \notin Automatic /\ table[n].gid = gid[g]
    BY <2>1 DEF GroupInv, SharedGiven
  <2>3. Served(n)
    BY <2>2 DEF Done, Served
  <2>4. table[n].gid \in Int /\ table[n].gid >= -2
    BY <2>0, <2>3, Fields DEF Checked
  <2>5. table[n].gid >= 0
    BY <2>2, <2>4 DEF Automatic, AutoSystem, AutoUser
  <2>6. Named(gid, table[n].gid) \subseteq {table[n].group}
    BY <2>0, <2>3, <2>5 DEF Checked
  <2>7. {g, h} \subseteq Named(gid, table[n].gid)
    BY <2>0, <2>2 DEF TypeOK, Named
  <2> QED BY <2>6, <2>7
<1> QED BY <1>1, Invariance, GroupInvariance, UserInvariance, PTL

\* The users and groups of the skeleton keep their ids.
THEOREM Skeleton == Spec => []SkeletonKept
<1>1. GroupInv /\ UserInv => SkeletonKept
  BY DEF GroupInv, UserInv, SkeletonGids, SkeletonUsers, SkeletonKept, Done
<1> QED BY <1>1, GroupInvariance, UserInvariance, PTL
=============================================================================
