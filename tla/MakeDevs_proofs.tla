--------------------------- MODULE MakeDevs_proofs ---------------------------
(***************************************************************************)
(* Proofs about makedevs: whatever the tree and the table are, capabilities *)
(* go to the file they are for, nothing changes that no line is about, and  *)
(* a run that succeeds leaves exactly what the table says.  Every entry is  *)
(* shown to have the same kind of effect (Entry); the invariant is kept by  *)
(* every step of that kind.                                                 *)
(***************************************************************************)
EXTENDS MakeDevs, TLAPS

-----------------------------------------------------------------------------
\* Operators on trees.

\* chown and chmod change the owner and the permissions of one path.
LEMMA OwnedFacts ==
    ASSUME NEW t, IsTree(t), NEW p \in DOMAIN t, NEW uid \in Nat, NEW gid \in Nat,
           NEW mode \in Texts
    PROVE  LET u == Owned(t, p, uid, gid, mode)
           IN  /\ IsTree(u) /\ DOMAIN u = DOMAIN t
               /\ \A q \in DOMAIN t : q # p => u[q] = t[q]
               /\ u[p].kind = t[p].kind /\ u[p].to = t[p].to
               /\ u[p].rdev = t[p].rdev /\ u[p].caps = t[p].caps
               /\ u[p].uid = uid /\ u[p].gid = gid
               /\ u[p].mode = IF mode = Keep THEN t[p].mode ELSE mode
<1> DEFINE u == Owned(t, p, uid, gid, mode)
           r == [kind |-> t[p].kind, uid |-> uid, gid |-> gid,
                 mode |-> IF mode = Keep THEN t[p].mode ELSE mode,
                 rdev |-> t[p].rdev, to |-> t[p].to, caps |-> t[p].caps]
<1>1. t[p] \in NodeType /\ DOMAIN u = DOMAIN t
  BY DEF IsTree, Owned
<1>2. r \in NodeType
  BY <1>1 DEF NodeType
<1>3. u[p] = r
  BY <1>1 DEF Owned, NodeType, IsTree
<1>4. \A q \in DOMAIN t : q # p => u[q] = t[q]
  BY DEF Owned, IsTree
<1>5. u \in [DOMAIN t -> NodeType]
  BY <1>1, <1>2, <1>3, <1>4 DEF Owned, IsTree
<1> QED
  BY <1>1, <1>3, <1>4, <1>5 DEF IsTree

\* Nodes are added where there are none, and nothing else changes.
LEMMA AddedFacts ==
    ASSUME NEW t, IsTree(t), NEW new, IsTree(new)
    PROVE  LET u == Added(t, new)
           IN  /\ IsTree(u) /\ DOMAIN u = DOMAIN t \union DOMAIN new
               /\ \A q \in DOMAIN t : u[q] = t[q]
               /\ \A q \in DOMAIN new \ DOMAIN t : u[q] = new[q]
BY DEF Added, IsTree

LEMMA NodeFacts ==
    ASSUME NEW kind \in {"dir", "c", "b", "p"}, NEW uid \in Nat, NEW gid \in Nat,
           NEW mode \in Texts, NEW rdev \in Seq(Nat)
    PROVE  Node(kind, uid, gid, mode, rdev) \in NodeType
BY DEF Node, NodeType

\* The directories that are made are new.
LEMMA MakeDirectoryFacts ==
    ASSUME NEW t, IsTree(t), NEW p, NEW mode \in Texts
    PROVE  LET u == MakeDirectory(t, p, mode)
           IN  /\ IsTree(u) /\ DOMAIN t \subseteq DOMAIN u
               /\ \A q \in DOMAIN t : u[q] = t[q]
               /\ \A q \in DOMAIN u \ DOMAIN t : u[q].kind = "dir" /\ u[q].caps = {}
<1> DEFINE new == {SubSeq(p, 1, n) : n \in 0..Len(p)} \ DOMAIN t
           perms(q) == IF q # p THEN "777" ELSE IF mode = Keep THEN "7777" ELSE mode
           dirs == [q \in new |-> Node("dir", 0, 0, perms(q), <<>>)]
<1>1. ASSUME NEW q PROVE perms(q) \in Texts
  BY TextAssumption DEF Keep
<1>2. \A q \in new : dirs[q] \in NodeType /\ dirs[q].kind = "dir" /\ dirs[q].caps = {}
  <2> TAKE q \in new
  <2> DEFINE mq == perms(q)
  <2>1. mq \in Texts
    BY <1>1
  <2>2. dirs[q] = Node("dir", 0, 0, mq, <<>>)
    OBVIOUS
  <2> HIDE DEF mq, dirs, new
  <2>3. <<>> \in Seq(Nat) /\ 0 \in Nat
    OBVIOUS
  <2>4. Node("dir", 0, 0, mq, <<>>) \in NodeType
    BY <2>1, <2>3, NodeFacts
  <2> QED
    BY <2>2, <2>4 DEF Node
<1>3. IsTree(dirs)
  <2> HIDE DEF perms, new
  <2> QED  BY <1>2 DEF IsTree
<1>4. MakeDirectory(t, p, mode) = t \/ MakeDirectory(t, p, mode) = Added(t, dirs)
  BY DEF MakeDirectory
<1>5. DOMAIN dirs = new
  OBVIOUS
<1> HIDE DEF dirs, new
<1>6. CASE MakeDirectory(t, p, mode) = t
  BY <1>6
<1>7. CASE MakeDirectory(t, p, mode) = Added(t, dirs)
  <2> DEFINE u == Added(t, dirs)
  <2>1. /\ IsTree(u) /\ DOMAIN u = DOMAIN t \union DOMAIN dirs
        /\ \A q \in DOMAIN t : u[q] = t[q]
        /\ \A q \in DOMAIN dirs \ DOMAIN t : u[q] = dirs[q]
    BY <1>3, AddedFacts
  <2> HIDE DEF u
  <2>2. MakeDirectory(t, p, mode) = u
    BY <1>7 DEF u
  <2>3. \A q \in DOMAIN u \ DOMAIN t : u[q].kind = "dir" /\ u[q].caps = {}
    BY <1>2, <1>5, <2>1
  <2> QED
    BY <2>1, <2>2, <2>3
<1> QED
  BY <1>4, <1>6, <1>7

\* A walk stays below where it begins; if it does not fail it goes everywhere.
LEMMA WalksFacts ==
    ASSUME NEW t, NEW p, NEW mode, NEW seen \in Walks(t, p, mode)
    PROVE  /\ seen \subseteq Below(t, p)
           /\ mode = Keep \/ seen \intersect Dangling(t) = {} => seen = Below(t, p)
<1> DEFINE stop == IF mode = Keep THEN {} ELSE Below(t, p) \intersect Dangling(t)
<1>1. CASE stop = {}
  BY <1>1 DEF Walks
<1>2. CASE stop # {}
  <2>1. seen \in SUBSET Below(t, p)
        /\ \E last \in stop : seen \intersect stop = {last}
    BY <1>2 DEF Walks
  <2> QED
    BY <1>2, <2>1
<1> QED
  BY <1>1, <1>2

\* chown and chmod of every path seen.
LEMMA RecursiveFacts ==
    ASSUME NEW t, IsTree(t), NEW seen, NEW uid \in Nat, NEW gid \in Nat, NEW mode \in Texts
    PROVE  LET u == Recursive(t, seen, uid, gid, mode)
           IN  /\ IsTree(u) /\ DOMAIN u = DOMAIN t
               /\ \A q \in DOMAIN t :
                    /\ q \notin seen => u[q] = t[q]
                    /\ u[q].kind = t[q].kind /\ u[q].to = t[q].to
                    /\ u[q].rdev = t[q].rdev /\ u[q].caps = t[q].caps
                    /\ q \in seen =>
                        /\ u[q].uid = uid /\ u[q].gid = gid
                        /\ u[q].mode = IF t[q].kind = "link" \/ mode = Keep THEN t[q].mode ELSE mode
<1> DEFINE u == Recursive(t, seen, uid, gid, mode)
           m(q) == IF t[q].kind = "link" THEN Keep ELSE mode
<1>1. DOMAIN u = DOMAIN t
  BY DEF Recursive
<1>2. \A q \in DOMAIN t : q \notin seen => u[q] = t[q]
  BY DEF Recursive
<1>3. ASSUME NEW q PROVE m(q) \in Texts
  BY TextAssumption DEF Keep
<1>4. \A q \in DOMAIN t : q \in seen => u[q] = Owned(t, q, uid, gid, m(q))[q]
  BY DEF Recursive
<1> HIDE DEF u
<1>5. ASSUME NEW q \in DOMAIN t, q \in seen
      PROVE  /\ u[q] \in NodeType
             /\ u[q].kind = t[q].kind /\ u[q].to = t[q].to
             /\ u[q].rdev = t[q].rdev /\ u[q].caps = t[q].caps
             /\ u[q].uid = uid /\ u[q].gid = gid
             /\ u[q].mode = IF t[q].kind = "link" \/ mode = Keep THEN t[q].mode ELSE mode
  <2> DEFINE mq == m(q)
             o == Owned(t, q, uid, gid, mq)
  <2>0. mq \in Texts
    BY <1>3
  <2>1. /\ IsTree(o) /\ DOMAIN o = DOMAIN t
        /\ o[q].kind = t[q].kind /\ o[q].to = t[q].to
        /\ o[q].rdev = t[q].rdev /\ o[q].caps = t[q].caps
        /\ o[q].uid = uid /\ o[q].gid = gid
        /\ o[q].mode = IF mq = Keep THEN t[q].mode ELSE mq
    <3>1. ASSUME NEW x \in Texts
          PROVE  LET w == Owned(t, q, uid, gid, x)
                 IN  /\ IsTree(w) /\ DOMAIN w = DOMAIN t
                     /\ w[q].kind = t[q].kind /\ w[q].to = t[q].to
                     /\ w[q].rdev = t[q].rdev /\ w[q].caps = t[q].caps
                     /\ w[q].uid = uid /\ w[q].gid = gid
                     /\ w[q].mode = IF x = Keep THEN t[q].mode ELSE x
      BY <1>5, OwnedFacts
    <3> HIDE DEF mq
    <3> QED
      BY <2>0, <3>1
  <2>2. u[q] = o[q]
    BY <1>4, <1>5
  <2> HIDE DEF o
  <2>3. u[q] \in NodeType
    BY <2>1, <2>2 DEF IsTree
  <2> QED
    BY <2>1, <2>2, <2>3
<1>6. u \in [DOMAIN t -> NodeType]
  <2>1. \A q \in DOMAIN t : u[q] \in NodeType
    BY <1>2, <1>5 DEF IsTree
  <2>2. u = [q \in DOMAIN t |-> u[q]]
    BY DEF u, Recursive
  <2> QED
    BY <2>1, <2>2
<1> QED
  BY <1>1, <1>2, <1>5, <1>6 DEF IsTree, u

-----------------------------------------------------------------------------
\* Lines, paths and what a line is about.

LEMMA LineFacts ==
    ASSUME TypeOK
    PROVE  /\ DOMAIN table = 1 .. Len(table) /\ Len(table) \in Nat
           /\ \A i \in DOMAIN table : table[i] \in LineType
BY TableAssumption DEF TypeOK

\* The fields of a line, with their defaults.
LEMMA FieldFacts ==
    ASSUME NEW l \in LineType
    PROVE  /\ Mode(l) \in Texts
           /\ Major(l) \in Nat /\ Minor(l) \in Nat /\ Start(l) \in Nat
           /\ Increment(l) \in Nat /\ Count(l) \in Nat
BY TextAssumption
   DEF LineType, Mode, Major, Minor, Start, Increment, Count, Field

\* Owner and group are found, and are those of the line if it names them.
LEMMA OwnerFacts ==
    ASSUME TypeOK, NEW types, AtEntry(types)
    PROVE  /\ Uid \in Nat /\ Gid \in Nat /\ Held \in [user : Texts, group : Texts]
           /\ Line.got >= 5 => Uid = GetUgId(Line.user, Passwd) /\ Gid = GetUgId(Line.group, Group)
<1>1. linenum \in DOMAIN table /\ Line \in LineType
  BY LineFacts DEF AtEntry, AtLine, TypeOK, Line
<1>2. Held \in [user : Texts, group : Texts]
  BY <1>1 DEF Held, Field, TypeOK, LineType
<1>3. Line.got >= 5 => Held.user = Line.user /\ Held.group = Line.group
  BY <1>1 DEF Held, Field, LineType
<1>4. ASSUME NEW names, names \in [DOMAIN names -> Nat], NEW text, Known(text, names)
      PROVE  GetUgId(text, names) \in Nat
  BY <1>4, IdAssumption DEF Known, GetUgId
<1>5. Uid \in Nat
  BY <1>4, IdAssumption DEF Uid, AtEntry
<1>6. Gid \in Nat
  BY <1>4, IdAssumption DEF Gid, AtEntry
<1> QED
  BY <1>2, <1>3, <1>5, <1>6 DEF Uid, Gid

\* Links and files are those of the skeleton.
LEMMA FollowFacts ==
    ASSUME TypeOK, Grown, NEW p
    PROVE  /\ Follow(tree, p) = Follow(skeleton, p)
           /\ IsA("file", tree, p) <=> IsA("file", skeleton, p)
<1>1. Follow(tree, p) = Follow(skeleton, p)
  BY DEF Grown, Follow
<1>2. \A q : (q \in DOMAIN tree /\ tree[q].kind = "file")
             <=> (q \in DOMAIN skeleton /\ skeleton[q].kind = "file")
  BY DEF Grown
<1> QED
  BY <1>1, <1>2 DEF IsA

\* What a line is about, type by type.
LEMMA AboutFacts ==
    ASSUME NEW i
    PROVE  /\ i \in Xattrs =>
                About(i) = {table[j].name : j \in {j \in 1 .. i - 1 : Precedes(j, i)}}
           /\ i \in Entries({"d"}) => i \in Acting \ Making /\ About(i) = {Path(i)}
           /\ i \in Entries({"f", "F"}) =>
                /\ i \in Acting \ Making
                /\ About(i) = {q \in {Path(i)} : IsA("file", skeleton, table[i].name)}
           /\ i \in Entries({"r"}) =>
                /\ i \in Acting \ Making
                /\ About(i) = {q \in Mentioned(i) : IsPrefix(table[i].name, q)}
           /\ i \in Making => i \in Acting /\ About(i) = MadeBy(i)
           /\ i \in Acting =>
                \/ i \in Entries({"d"}) \/ i \in Entries({"f", "F"})
                \/ i \in Entries({"r"}) \/ i \in Making
           /\ i \in Acting => i \notin Xattrs /\ i \in DOMAIN table
BY DEF About, Entries, Acting, Making, Xattrs

\* What an earlier line is about is accounted for.
LEMMA AboutMentioned ==
    ASSUME TypeOK, NEW n \in Int, NEW i \in Before(n, Acting)
    PROVE  About(i) \subseteq Mentioned(n)
<1>1. i \in Acting /\ i < n /\ i \in Int
  BY LineFacts, AboutFacts DEF Before
<1>2. Mentioned(i) \subseteq Mentioned(n)
  <2>1. ASSUME NEW lines, lines \subseteq DOMAIN table PROVE Before(i, lines) \subseteq Before(n, lines)
    BY <1>1, <2>1, LineFacts DEF Before
  <2>2. Entries({"d"}) \subseteq DOMAIN table /\ Making \subseteq DOMAIN table
    BY DEF Entries, Making
  <2>3. Before(i, Entries({"d"})) \subseteq Before(n, Entries({"d"}))
        /\ Before(i, Making) \subseteq Before(n, Making)
    BY <2>1, <2>2
  <2> QED
    BY <2>3 DEF Mentioned
<1>3. CASE i \in Entries({"d"})
  BY <1>1, <1>3, AboutFacts DEF Mentioned, Before
<1>4. CASE i \in Entries({"f", "F"})
  <2>1. About(i) \subseteq DOMAIN skeleton
    BY <1>4, AboutFacts DEF IsA, Path
  <2> QED
    BY <2>1 DEF Mentioned
<1>5. CASE i \in Entries({"r"})
  BY <1>2, <1>5, AboutFacts
<1>6. CASE i \in Making
  BY <1>1, <1>6, AboutFacts DEF Mentioned, Before
<1> QED
  BY <1>1, <1>3, <1>4, <1>5, <1>6, AboutFacts

\* As long as no line has failed, all that is accounted for is there.
LEMMA MentionedThere ==
    ASSUME TypeOK, Grown, AboutThere, ret = 0
    PROVE  Mentioned(linenum) \subseteq DOMAIN tree
<1>1. DOMAIN skeleton \subseteq DOMAIN tree
  BY DEF Grown
<1>2. ASSUME NEW j \in Before(linenum, Entries({"d"})) PROVE Path(j) \in DOMAIN tree
  BY AboutFacts DEF AboutThere, Before
<1>3. ASSUME NEW j \in Before(linenum, Making) PROVE MadeBy(j) \subseteq DOMAIN tree
  BY AboutFacts DEF AboutThere, Before
<1> QED
  BY <1>1, <1>2, <1>3 DEF Mentioned

\* The nodes of a line, numbered as the code does.
LEMMA NodesOfFacts ==
    ASSUME TypeOK, NEW i \in Making
    PROVE  LET l == table[i]
           IN  /\ NodesOf(i) = {<<Called(l, n), Rdev(l, n)[1], Rdev(l, n)[2]>> : n \in Numbers(l)}
               /\ MadeBy(i) = {Called(l, n) : n \in Numbers(l)}
               /\ \A m, n \in Numbers(l) : m # n => Called(l, m) # Called(l, n)
               /\ \A n \in Numbers(l) : Rdev(l, n) \in Seq(Nat)
<1> DEFINE l == table[i]
<1>1. i \in DOMAIN table /\ l \in LineType /\ l.got \in Nat
  BY LineFacts DEF Making, Entries, LineType
<1>2. /\ Major(l) \in Nat /\ Minor(l) \in Nat /\ Start(l) \in Nat
      /\ Increment(l) \in Nat /\ Count(l) \in Nat
  BY <1>1, FieldFacts
<1>3. /\ Says(i, 6, l.major) = Major(l) /\ Says(i, 7, l.minor) = Minor(l)
      /\ Says(i, 8, l.start) = Start(l) /\ Says(i, 9, l.increment) = Increment(l)
      /\ Says(i, 10, l.count) = Count(l)
  BY DEF Says, Major, Minor, Start, Increment, Count, Field
<1>4. Count(l) > 1 => Major(l) = l.major
  BY <1>1 DEF Count, Major, Field
<1> DEFINE minor(k) == (Minor(l) + k * Increment(l)) % Width
<1>5. NodesOf(i) = IF Count(l) <= 1 THEN {<<l.name, Major(l), minor(0)>>}
                   ELSE {<<Numbered(l.name, Start(l) + k), l.major, minor(k)>> : k \in 0 .. Count(l) - 1}
  BY <1>3 DEF NodesOf
<1>6. ASSUME NEW n PROVE Rdev(l, n)[1] = Major(l) /\ Rdev(l, n)[2] = minor(n - Start(l))
  BY DEF Rdev
<1>7. \A n \in Numbers(l) : n \in Nat /\ n - Start(l) \in Nat
  BY <1>2 DEF Numbers
<1>8. \A n \in Numbers(l) : Rdev(l, n) \in Seq(Nat)
  <2> TAKE n \in Numbers(l)
  <2>1. (n - Start(l)) * Increment(l) \in Nat
    BY <1>2, <1>7
  <2>2. minor(n - Start(l)) \in Nat
    BY <1>2, <2>1, NumberAssumption
  <2> QED
    BY <1>2, <2>2 DEF Rdev
<1> HIDE DEF minor, l
<1>9. NodesOf(i) = {<<Called(l, n), Rdev(l, n)[1], Rdev(l, n)[2]>> : n \in Numbers(l)}
  <2>1. CASE Count(l) <= 1
    <3>1. Numbers(l) = {Start(l)}
      BY <1>2, <2>1 DEF Numbers
    <3>2. Called(l, Start(l)) = l.name /\ Start(l) - Start(l) = 0
      BY <1>2, <2>1 DEF Called
    <3>3. <<Called(l, Start(l)), Rdev(l, Start(l))[1], Rdev(l, Start(l))[2]>>
          = <<l.name, Major(l), minor(0)>>
      BY <1>6, <3>2
    <3> QED
      BY <1>5, <2>1, <3>1, <3>3
  <2>2. CASE Count(l) > 1
    <3>1. Numbers(l) = Start(l) .. Start(l) + (Count(l) - 1)
      BY <1>2, <2>2 DEF Numbers
    <3>2. \A n : Called(l, n) = Numbered(l.name, n)
      BY <2>2 DEF Called
    <3>3. NodesOf(i) = {<<Numbered(l.name, Start(l) + k), l.major, minor(k)>> : k \in 0 .. Count(l) - 1}
      BY <1>2, <1>5, <2>2
    <3>4. ASSUME NEW n \in Numbers(l)
          PROVE  \E k \in 0 .. Count(l) - 1 :
                    <<Called(l, n), Rdev(l, n)[1], Rdev(l, n)[2]>>
                    = <<Numbered(l.name, Start(l) + k), l.major, minor(k)>>
      <4>1. n - Start(l) \in 0 .. Count(l) - 1 /\ Start(l) + (n - Start(l)) = n
        BY <1>2, <3>1
      <4>2. /\ Called(l, n) = Numbered(l.name, Start(l) + (n - Start(l)))
            /\ Rdev(l, n)[1] = l.major /\ Rdev(l, n)[2] = minor(n - Start(l))
        BY <1>4, <1>6, <2>2, <3>2, <4>1
      <4> QED
        BY <4>1, <4>2
    <3>5. ASSUME NEW k \in 0 .. Count(l) - 1
          PROVE  \E n \in Numbers(l) :
                    <<Numbered(l.name, Start(l) + k), l.major, minor(k)>>
                    = <<Called(l, n), Rdev(l, n)[1], Rdev(l, n)[2]>>
      <4>1. Start(l) + k \in Numbers(l) /\ (Start(l) + k) - Start(l) = k
        BY <1>2, <3>1
      <4>2. /\ Called(l, Start(l) + k) = Numbered(l.name, Start(l) + k)
            /\ Rdev(l, Start(l) + k)[1] = l.major
            /\ Rdev(l, Start(l) + k)[2] = minor(k)
        BY <1>4, <1>6, <2>2, <3>2, <4>1
      <4> QED
        BY <4>1, <4>2
    <3> QED
      BY <3>3, <3>4, <3>5
  <2> QED
    BY <1>2, <2>1, <2>2
<1>10. MadeBy(i) = {Called(l, n) : n \in Numbers(l)}
  <2> DEFINE node(n) == <<Called(l, n), Rdev(l, n)[1], Rdev(l, n)[2]>>
  <2>1. \A n : node(n)[1] = Called(l, n)
    OBVIOUS
  <2>2. MadeBy(i) = {x[1] : x \in {node(n) : n \in Numbers(l)}}
    BY <1>9 DEF MadeBy
  <2> HIDE DEF node
  <2> QED
    BY <2>1, <2>2
<1>11. ASSUME NEW m \in Numbers(l), NEW n \in Numbers(l), m # n PROVE Called(l, m) # Called(l, n)
  <2>1. CASE Count(l) <= 1
    BY <1>2, <1>11, <2>1 DEF Numbers
  <2>2. CASE Count(l) > 1
    BY <1>1, <1>11, <2>2, NumberedAssumption DEF Called, l, TypeOK
  <2> QED
    BY <1>2, <2>1, <2>2
<1> QED
  BY <1>8, <1>9, <1>10, <1>11 DEF l

-----------------------------------------------------------------------------
\* Every entry has an effect of the same kind.

\* The variables other than the tree.
Frame ==
    /\ linenum \in DOMAIN table /\ Given(linenum)
    /\ linenum' = linenum + 1 /\ UNCHANGED given
    /\ phase = "running" /\ phase' = "running"
    /\ fullName' = table[linenum].name
    /\ ret' \in {ret, 1}
    /\ held' \in [user : Texts, group : Texts]

\* What stays, whatever the line is, and what is new.
Growth ==
    /\ IsTree(tree')
    /\ \A p \in DOMAIN tree :
        /\ p \in DOMAIN tree'
        /\ tree'[p].kind = tree[p].kind /\ tree'[p].to = tree[p].to
        /\ tree'[p].rdev = tree[p].rdev /\ tree'[p].caps = tree[p].caps
        /\ p \in DOMAIN skeleton => tree'[p] = tree[p] \/ p \in About(linenum)
    /\ \A p \in DOMAIN tree' \ DOMAIN tree :
        tree'[p].kind \in {"dir", "c", "b", "p"} /\ tree'[p].caps = {}

\* What holds of the paths the line is about, and what it leaves alone.
Fulfilled ==
    LET l == table[linenum]
    IN  /\ linenum \in Acting
        /\ About(linenum) \subseteq DOMAIN tree'
        /\ \A p \in About(linenum) :
            /\ l.got >= 5 => /\ tree'[p].uid = GetUgId(l.user, Passwd)
                             /\ tree'[p].gid = GetUgId(l.group, Group)
            /\ tree'[p].kind # "link" =>
                IF linenum \in Moding THEN tree'[p].mode = Mode(l)
                ELSE p \in DOMAIN tree => tree'[p].mode = tree[p].mode
        /\ \A p \in DOMAIN tree \ About(linenum) : tree'[p] = tree[p] \/ p \notin Mentioned(linenum)
        /\ linenum \in Making => Made' = Made \union NodesOf(linenum)
        /\ linenum \notin Making => \A p \in DOMAIN tree' \ DOMAIN tree : tree'[p].kind = "dir"

Entry == Frame /\ Growth /\ (ret' = 0 => Fulfilled)

\* All entries but for the tree.
LEMMA FrameFacts ==
    ASSUME TypeOK, NEW types, AtEntry(types), NEW t, NEW ok, Applied(t, ok)
    PROVE  /\ Frame /\ tree' = t /\ (ret' = 0 => ok /\ ret = 0)
           /\ linenum \in Entries(types)
           /\ table[linenum] \in LineType /\ Line = table[linenum]
           /\ Mode(Line) \in Texts /\ Uid \in Nat /\ Gid \in Nat
           /\ linenum \in Acting => (linenum \in Moding <=> Mode(Line) # Keep)
<1>1. linenum \in DOMAIN table /\ Line \in LineType /\ Line = table[linenum]
  BY LineFacts DEF AtEntry, AtLine, TypeOK, Line
<1>2. Line.kind = "entry" /\ Line.type \in types /\ ~TooLarge(Line) /\ phase = "running"
  BY DEF AtEntry, AtLine
<1>3. held' = Held /\ Held \in [user : Texts, group : Texts] /\ Uid \in Nat /\ Gid \in Nat
  BY OwnerFacts DEF Applied
<1>4. /\ linenum' = linenum + 1 /\ UNCHANGED given /\ phase' = phase
      /\ fullName' = Line.name /\ ret' = (IF ok THEN ret ELSE 1) /\ tree' = t
  BY DEF Applied, NextLine
<1>5. Frame
  BY <1>1, <1>2, <1>3, <1>4 DEF Frame, Given
<1>6. ret' = 0 => ok /\ ret = 0
  BY <1>4
<1>7. linenum \in Acting => (linenum \in Moding <=> Mode(Line) # Keep)
  <2>1. Line.got \in Nat
    BY <1>1 DEF LineType
  <2>2. Mode(Line) # Keep <=> Line.mode # Keep \/ Line.got < 3
    BY <2>1 DEF Mode, Field, Keep
  <2> QED
    BY <1>1, <2>2 DEF Moding
<1> QED
  BY <1>1, <1>2, <1>3, <1>4, <1>5, <1>6, <1>7, FieldFacts DEF Entries

\* type d.
LEMMA DirectoryEntry == ASSUME TreeInv, Directory PROVE Entry
<1> DEFINE n  == linenum
           t  == MakeDirectory(tree, Line.name, Mode(Line))
           p  == Follow(t, Line.name)
           ok == p \in DOMAIN t
           u  == IF ok THEN Owned(t, p, Uid, Gid, Mode(Line)) ELSE t
<1>1. AtEntry({"d"}) /\ Applied(u, ok) /\ TypeOK /\ Grown /\ AboutThere
  BY DEF Directory, TreeInv
<1> HIDE DEF u, ok
<1>2. /\ Frame /\ tree' = u /\ (ret' = 0 => ok /\ ret = 0)
      /\ n \in Entries({"d"}) /\ Line = table[n]
      /\ Mode(Line) \in Texts /\ Uid \in Nat /\ Gid \in Nat
      /\ n \in Acting => (n \in Moding <=> Mode(Line) # Keep)
  BY <1>1, FrameFacts
<1>3. n \in Acting \ Making /\ About(n) = {Path(n)}
  BY <1>2, AboutFacts
<1>4. /\ IsTree(t) /\ DOMAIN tree \subseteq DOMAIN t
      /\ \A q \in DOMAIN tree : t[q] = tree[q]
      /\ \A q \in DOMAIN t \ DOMAIN tree : t[q].kind = "dir" /\ t[q].caps = {}
  BY <1>1, <1>2, MakeDirectoryFacts DEF TypeOK
<1> HIDE DEF t
<1>5. p = Path(n)
  <2>1. p = Follow(tree, Line.name)
    BY <1>4 DEF Follow
  <2> QED
    BY <1>1, <1>2, <2>1, FollowFacts DEF Path
<1> HIDE DEF p
<1>6. /\ ok => /\ IsTree(u) /\ DOMAIN u = DOMAIN t
               /\ \A q \in DOMAIN t : q # p => u[q] = t[q]
               /\ u[p].kind = t[p].kind /\ u[p].to = t[p].to
               /\ u[p].rdev = t[p].rdev /\ u[p].caps = t[p].caps
               /\ u[p].uid = Uid /\ u[p].gid = Gid
               /\ u[p].mode = (IF Mode(Line) = Keep THEN t[p].mode ELSE Mode(Line))
      /\ ~ok => u = t
  BY <1>2, <1>4, OwnedFacts DEF u, ok
<1>7. /\ IsTree(u) /\ DOMAIN u = DOMAIN t
      /\ \A q \in DOMAIN t : /\ q # p => u[q] = t[q]
                             /\ u[q].kind = t[q].kind /\ u[q].to = t[q].to
                             /\ u[q].rdev = t[q].rdev /\ u[q].caps = t[q].caps
  BY <1>4, <1>6
<1>8. Growth
  BY <1>2, <1>3, <1>4, <1>5, <1>7 DEF Growth
<1>9. ASSUME ret' = 0 PROVE Fulfilled
  <2>1. ok /\ p \in DOMAIN u
    BY <1>2, <1>7, <1>9 DEF ok
  <2>2. /\ Line.got >= 5 => Uid = GetUgId(Line.user, Passwd) /\ Gid = GetUgId(Line.group, Group)
    BY <1>1, OwnerFacts
  <2>3. p \in DOMAIN tree => t[p] = tree[p]
    BY <1>4
  <2>4. \A q \in DOMAIN tree \ About(n) : u[q] = tree[q]
    BY <1>3, <1>4, <1>5, <1>7
  <2>5. \A q \in DOMAIN u \ DOMAIN tree : u[q].kind = "dir"
    BY <1>4, <1>7
  <2> QED
    BY <1>2, <1>3, <1>5, <1>6, <2>1, <2>2, <2>3, <2>4, <2>5 DEF Fulfilled
<1> QED
  BY <1>2, <1>8, <1>9 DEF Entry

\* types f and F, for a file that exists.
LEMMA FileEntry == ASSUME TreeInv, File PROVE Entry
<1> DEFINE n == linenum
           p == Follow(tree, Line.name)
           u == Owned(tree, p, Uid, Gid, Mode(Line))
<1>1. AtEntry({"f", "F"}) /\ Applied(u, TRUE) /\ TypeOK /\ Grown /\ IsA("file", tree, Line.name)
  BY DEF File, TreeInv
<1> HIDE DEF u
<1>2. /\ Frame /\ tree' = u
      /\ n \in Entries({"f", "F"}) /\ Line = table[n]
      /\ Mode(Line) \in Texts /\ Uid \in Nat /\ Gid \in Nat
      /\ n \in Acting => (n \in Moding <=> Mode(Line) # Keep)
  BY <1>1, FrameFacts
<1>3. p \in DOMAIN tree /\ p = Path(n) /\ IsA("file", skeleton, table[n].name)
  BY <1>1, <1>2, FollowFacts DEF IsA, Path
<1>4. n \in Acting \ Making /\ About(n) = {p}
  BY <1>2, <1>3, AboutFacts
<1> HIDE DEF p
<1>5. /\ IsTree(u) /\ DOMAIN u = DOMAIN tree
      /\ \A q \in DOMAIN tree : q # p => u[q] = tree[q]
      /\ u[p].kind = tree[p].kind /\ u[p].to = tree[p].to
      /\ u[p].rdev = tree[p].rdev /\ u[p].caps = tree[p].caps
      /\ u[p].uid = Uid /\ u[p].gid = Gid
      /\ u[p].mode = IF Mode(Line) = Keep THEN tree[p].mode ELSE Mode(Line)
  <2>1. IsTree(tree)
    BY <1>1 DEF TypeOK
  <2>2. ASSUME NEW x \in Texts
        PROVE  LET w == Owned(tree, p, Uid, Gid, x)
               IN  /\ IsTree(w) /\ DOMAIN w = DOMAIN tree
                   /\ \A q \in DOMAIN tree : q # p => w[q] = tree[q]
                   /\ w[p].kind = tree[p].kind /\ w[p].to = tree[p].to
                   /\ w[p].rdev = tree[p].rdev /\ w[p].caps = tree[p].caps
                   /\ w[p].uid = Uid /\ w[p].gid = Gid
                   /\ w[p].mode = IF x = Keep THEN tree[p].mode ELSE x
    <3>1. p \in DOMAIN tree /\ Uid \in Nat /\ Gid \in Nat
      BY <1>2, <1>3
    <3> QED
      BY <2>1, <3>1, OwnedFacts
  <2>3. Mode(Line) \in Texts
    BY <1>2
  <2> QED
    BY <2>2, <2>3 DEF u
<1>6. Growth
  BY <1>2, <1>4, <1>5 DEF Growth
<1>7. Fulfilled
  <2>1. Line.got >= 5 => Uid = GetUgId(Line.user, Passwd) /\ Gid = GetUgId(Line.group, Group)
    BY <1>1, OwnerFacts
  <2> QED
    BY <1>2, <1>3, <1>4, <1>5, <2>1 DEF Fulfilled
<1> QED
  BY <1>2, <1>6, <1>7 DEF Entry

\* types f and F without a file, and any other type.
LEMMA NoFileEntry == ASSUME TreeInv, NoFile \/ Unsupported PROVE Entry
<1> DEFINE n == linenum
<1>1. PICK types, ok : AtEntry(types) /\ Applied(tree, ok)
  BY DEF NoFile, Unsupported
<1>2. TypeOK /\ Grown
  BY DEF TreeInv
<1>3. Frame /\ tree' = tree /\ n \in Entries(types)
  BY <1>1, <1>2, FrameFacts
<1>4. Growth
  BY <1>2, <1>3 DEF Growth, TypeOK
<1>5. ASSUME ret' = 0 PROVE Fulfilled
  <2>1. CASE NoFile
    <3>1. AtEntry({"f", "F"}) /\ Applied(tree, Line.type = "F") /\ ~IsA("file", tree, Line.name)
      BY <2>1 DEF NoFile
    <3>2. n \in Entries({"f", "F"}) /\ Line = table[n]
      BY <1>2, <3>1, FrameFacts
    <3>3. n \in Acting \ Making /\ About(n) = {}
      BY <1>2, <3>1, <3>2, FollowFacts, AboutFacts
    <3> QED
      BY <1>3, <3>3 DEF Fulfilled
  <2>2. CASE Unsupported
    <3>1. AtEntry({"x"}) /\ Applied(tree, FALSE)
      BY <2>2 DEF Unsupported
    <3> QED
      BY <1>2, <1>5, <3>1, FrameFacts
  <2> QED
    BY <2>1, <2>2
<1> QED
  BY <1>3, <1>4, <1>5 DEF Entry

\* type r.
LEMMA RecursivelyEntry == ASSUME TreeInv, Recursively PROVE Entry
<1> DEFINE n == linenum
<1>1. AtEntry({"r"}) /\ TypeOK /\ Grown /\ AboutThere
  BY DEF Recursively, TreeInv
<1>2. \E t, ok : Applied(t, ok)
  BY DEF Recursively
<1>3. /\ Frame /\ n \in Entries({"r"}) /\ Line = table[n]
      /\ Mode(Line) \in Texts /\ Uid \in Nat /\ Gid \in Nat
      /\ n \in Acting => (n \in Moding <=> Mode(Line) # Keep)
  BY <1>1, <1>2, FrameFacts
<1>4. n \in Acting \ Making /\ About(n) = {q \in Mentioned(n) : IsPrefix(Line.name, q)}
  BY <1>3, AboutFacts
<1>5. CASE Line.name \notin DOMAIN tree
  <2>1. Applied(tree, FALSE)
    BY <1>5 DEF Recursively
  <2>2. tree' = tree /\ ret' # 0
    BY <1>1, <2>1, FrameFacts
  <2>3. Growth
    BY <1>1, <2>2 DEF Growth, TypeOK
  <2> QED
    BY <1>3, <2>2, <2>3 DEF Entry
<1>6. CASE Line.name \in DOMAIN tree
  <2>1. PICK seen \in Walks(tree, Line.name, Mode(Line)) :
            Applied(Recursive(tree, seen, Uid, Gid, Mode(Line)),
                    Mode(Line) = Keep \/ seen \intersect Dangling(tree) = {})
    BY <1>6 DEF Recursively
  <2> DEFINE u == Recursive(tree, seen, Uid, Gid, Mode(Line))
  <2>2. tree' = u /\ (ret' = 0 => /\ ret = 0
                                  /\ Mode(Line) = Keep \/ seen \intersect Dangling(tree) = {})
    BY <1>1, <2>1, FrameFacts
  <2>3. /\ seen \subseteq Below(tree, Line.name)
        /\ ret' = 0 => seen = Below(tree, Line.name)
    BY <2>2, WalksFacts
  <2>4. /\ IsTree(u) /\ DOMAIN u = DOMAIN tree
        /\ \A q \in DOMAIN tree :
             /\ q \notin seen => u[q] = tree[q]
             /\ u[q].kind = tree[q].kind /\ u[q].to = tree[q].to
             /\ u[q].rdev = tree[q].rdev /\ u[q].caps = tree[q].caps
             /\ q \in seen =>
                 /\ u[q].uid = Uid /\ u[q].gid = Gid
                 /\ u[q].mode = IF tree[q].kind = "link" \/ Mode(Line) = Keep THEN tree[q].mode
                                ELSE Mode(Line)
    BY <1>1, <1>3, RecursiveFacts DEF TypeOK
  <2> HIDE DEF u
  <2>5. \A q \in seen : q \in DOMAIN tree /\ (q \in Mentioned(n) => q \in About(n))
    BY <1>4, <2>3 DEF Below
  <2>6. Growth
    <3>1. \A q \in DOMAIN skeleton : u[q] = tree[q] \/ q \in About(n)
      BY <1>1, <2>4, <2>5 DEF Mentioned, Grown
    <3> QED
      BY <2>2, <2>4, <3>1 DEF Growth
  <2>7. ASSUME ret' = 0 PROVE Fulfilled
    <3>1. About(n) \subseteq DOMAIN tree
      BY <1>1, <1>4, <2>2, <2>7, MentionedThere
    <3>2. About(n) \subseteq seen
      BY <1>4, <2>3, <2>7, <3>1 DEF Below
    <3>3. Line.got >= 5 => Uid = GetUgId(Line.user, Passwd) /\ Gid = GetUgId(Line.group, Group)
      BY <1>1, OwnerFacts
    <3>4. \A q \in DOMAIN tree \ About(n) : u[q] = tree[q] \/ q \notin Mentioned(n)
      BY <2>4, <2>5
    <3> QED
      BY <1>3, <1>4, <2>2, <2>4, <3>1, <3>2, <3>3, <3>4 DEF Fulfilled
  <2> QED
    BY <1>3, <2>6, <2>7 DEF Entry
<1> QED
  BY <1>5, <1>6

\* types c, b and p.
LEMMA DevicesEntry == ASSUME TreeInv, Devices PROVE Entry
<1> DEFINE n == linenum
           ok == {k \in Numbers(Line) : /\ Called(Line, k) \notin DOMAIN tree
                                        /\ IsA("dir", tree, Front(Line.name))
                                        /\ Mode(Line) # Keep}
           at(p) == CHOOSE k \in ok : Called(Line, k) = p
           new == [p \in {Called(Line, k) : k \in ok} |->
                      Node(Line.type, Uid, Gid, Mode(Line), Rdev(Line, at(p)))]
           u == Added(tree, new)
<1>1. AtEntry({"c", "b", "p"}) /\ TypeOK /\ Applied(u, ok = Numbers(Line))
  BY DEF Devices, TreeInv
<1>2. /\ Frame /\ tree' = u /\ (ret' = 0 => ok = Numbers(Line))
      /\ n \in Making /\ Line = table[n]
      /\ Mode(Line) \in Texts /\ Uid \in Nat /\ Gid \in Nat
      /\ n \in Acting => (n \in Moding <=> Mode(Line) # Keep)
  <2> HIDE DEF u, ok
  <2> QED
    BY <1>1, FrameFacts DEF Making
<1>3. n \in Acting /\ About(n) = MadeBy(n)
  BY <1>2, AboutFacts
<1>4. /\ NodesOf(n) = {<<Called(Line, k), Rdev(Line, k)[1], Rdev(Line, k)[2]>> : k \in Numbers(Line)}
      /\ MadeBy(n) = {Called(Line, k) : k \in Numbers(Line)}
      /\ \A j, k \in Numbers(Line) : j # k => Called(Line, j) # Called(Line, k)
      /\ \A k \in Numbers(Line) : Rdev(Line, k) \in Seq(Nat)
  BY <1>1, <1>2, NodesOfFacts
<1>5. Line.type \in {"c", "b", "p"}
  BY <1>2 DEF Making, Entries
<1>6. \A k \in ok : /\ k \in Numbers(Line) /\ Called(Line, k) \notin DOMAIN tree
                    /\ Mode(Line) # Keep
  OBVIOUS
<1> HIDE DEF ok
<1>7. ASSUME NEW k \in ok
      PROVE  /\ Called(Line, k) \in DOMAIN new
             /\ new[Called(Line, k)] = Node(Line.type, Uid, Gid, Mode(Line), Rdev(Line, k))
  <2>1. at(Called(Line, k)) = k
    BY <1>4, <1>6
  <2> HIDE DEF at
  <2> QED
    BY <2>1
<1>8. DOMAIN new = {Called(Line, k) : k \in ok}
  OBVIOUS
<1> HIDE DEF new
<1>9. ASSUME NEW k \in ok
      PROVE  /\ new[Called(Line, k)] \in NodeType
             /\ new[Called(Line, k)].kind = Line.type /\ new[Called(Line, k)].caps = {}
             /\ new[Called(Line, k)].uid = Uid /\ new[Called(Line, k)].gid = Gid
             /\ new[Called(Line, k)].mode = Mode(Line)
             /\ new[Called(Line, k)].rdev = Rdev(Line, k)
  <2>1. Rdev(Line, k) \in Seq(Nat) /\ Line.type \in {"dir", "c", "b", "p"}
    BY <1>4, <1>5, <1>6
  <2>2. Node(Line.type, Uid, Gid, Mode(Line), Rdev(Line, k)) \in NodeType
    BY <1>2, <2>1, NodeFacts
  <2> QED
    BY <1>7, <2>2 DEF Node
<1>10. IsTree(new)
  <2>1. \A p \in DOMAIN new : new[p] \in NodeType
    BY <1>8, <1>9
  <2>2. new = [p \in DOMAIN new |-> new[p]]
    BY DEF new
  <2> QED
    BY <2>1, <2>2 DEF IsTree
<1>11. /\ IsTree(u) /\ DOMAIN u = DOMAIN tree \union DOMAIN new
       /\ \A q \in DOMAIN tree : u[q] = tree[q]
       /\ \A q \in DOMAIN new \ DOMAIN tree : u[q] = new[q]
  <2>1. IsTree(tree)
    BY <1>1 DEF TypeOK
  <2> QED
    BY <1>10, <2>1, AddedFacts
<1> HIDE DEF u
<1>12. \A k \in ok : /\ Called(Line, k) \in DOMAIN u \ DOMAIN tree
                     /\ u[Called(Line, k)] = new[Called(Line, k)]
  BY <1>6, <1>8, <1>11
<1>13. \A p \in DOMAIN u \ DOMAIN tree : \E k \in ok : p = Called(Line, k)
  BY <1>8, <1>11
<1>14. Growth
  <2>1. \A p \in DOMAIN u \ DOMAIN tree : u[p].kind \in {"dir", "c", "b", "p"} /\ u[p].caps = {}
    BY <1>5, <1>9, <1>12, <1>13
  <2> QED
    BY <1>2, <1>11, <2>1 DEF Growth
<1>15. ASSUME ret' = 0 PROVE Fulfilled
  <2>1. ok = Numbers(Line)
    BY <1>2, <1>15
  <2>2. About(n) = DOMAIN u \ DOMAIN tree
    BY <1>3, <1>4, <1>12, <1>13, <2>1
  <2>3. \A p \in About(n) : u[p].uid = Uid /\ u[p].gid = Gid /\ u[p].mode = Mode(Line) /\ Mode(Line) # Keep
    BY <1>6, <1>9, <1>12, <1>13, <2>2
  <2>4. Line.got >= 5 => Uid = GetUgId(Line.user, Passwd) /\ Gid = GetUgId(Line.group, Group)
    BY <1>1, OwnerFacts
  <2>5. Made' = Made \union NodesOf(n)
    <3> DEFINE entry(t, p) == <<p, t[p].rdev[1], t[p].rdev[2]>>
               node(k) == <<Called(Line, k), Rdev(Line, k)[1], Rdev(Line, k)[2]>>
               old == {p \in DOMAIN tree \ DOMAIN skeleton : tree[p].kind # "dir"}
               all == {p \in DOMAIN u \ DOMAIN skeleton : u[p].kind # "dir"}
    <3>1. skeleton' = skeleton /\ DOMAIN skeleton \subseteq DOMAIN tree
      BY <1>2 DEF Frame, given, TreeInv, Grown
    <3>2. Made = {entry(tree, p) : p \in old} /\ Made' = {entry(u, p) : p \in all}
      BY <1>2, <3>1 DEF Made
    <3>3. NodesOf(n) = {node(k) : k \in Numbers(Line)}
      BY <1>4
    <3>4. \A p \in old : p \in all /\ entry(u, p) = entry(tree, p)
      BY <1>11
    <3>5. \A k \in Numbers(Line) : Called(Line, k) \in all /\ entry(u, Called(Line, k)) = node(k)
      BY <1>5, <1>9, <1>12, <2>1, <3>1
    <3>6. \A p \in all : p \in old \/ \E k \in Numbers(Line) : p = Called(Line, k)
      BY <1>11, <1>13, <2>1
    <3> HIDE DEF entry, node, old, all
    <3> QED
      BY <3>2, <3>3, <3>4, <3>5, <3>6
  <2>6. \A p \in DOMAIN tree \ About(n) : u[p] = tree[p]
    BY <1>11
  <2> QED
    BY <1>2, <1>3, <2>2, <2>3, <2>4, <2>5, <2>6 DEF Fulfilled
<1> QED
  BY <1>2, <1>14, <1>15 DEF Entry

\* Every step but the reading of an entry leaves the tree as it is, or adds a
\* capability.
Read ==
    /\ linenum \in DOMAIN table /\ linenum' = linenum + 1 /\ UNCHANGED given
    /\ phase = "running" /\ phase' = "running"
    /\ held' \in [user : Texts, group : Texts] /\ fullName' = fullName

\* A line that is none.
Passed ==
    /\ Read /\ UNCHANGED tree /\ ~Given(linenum) /\ linenum \notin Xattrs
    /\ \/ ret' = ret /\ linenum \notin Acting
       \/ ret' = 1

\* An xattr line.
Capable ==
    /\ Read /\ ret' = ret /\ ~Given(linenum)
    /\ linenum \in Xattrs /\ linenum \notin Acting
    /\ fullName # NoName /\ fullName \in DOMAIN tree /\ tree[fullName].kind = "file"
    /\ tree' = [tree EXCEPT ![fullName].caps = @ \union {table[linenum].cap}]

\* The program ends.
Ending ==
    /\ UNCHANGED <<given, linenum, tree, fullName, held>>
    /\ \/ phase' = "died" /\ ret' = 1
       \/ phase' = "done" /\ ret' = ret /\ linenum = Len(table) + 1

LEMMA Steps ==
    ASSUME TreeInv, [Next]_vars
    PROVE  Entry \/ Passed \/ Capable \/ Ending \/ UNCHANGED vars
<1>1. TypeOK
  BY DEF TreeInv
<1>2. ASSUME NEW kind, AtLine(kind)
      PROVE  /\ linenum \in DOMAIN table /\ phase = "running"
             /\ Line = table[linenum] /\ Line.kind = kind /\ Line \in LineType
  BY <1>1, <1>2, LineFacts DEF AtLine, TypeOK, Line
<1>3. ASSUME NEW kind, AtLine(kind) PROVE Held \in [user : Texts, group : Texts]
  BY <1>1, <1>2, <1>3 DEF Held, Field, TypeOK, LineType
<1>4. ASSUME Skip PROVE Passed
  <2>1. AtLine("comment")
    BY <1>4 DEF Skip
  <2> QED
    BY <1>2, <1>3, <1>4, <2>1 DEF Skip, Passed, Read, NextLine, Given, Xattrs, Acting, Entries
<1>5. ASSUME Invalid PROVE Passed
  <2>1. CASE AtLine("invalid")
    BY <1>2, <1>3, <1>5, <2>1 DEF Invalid, Passed, Read, NextLine, Given, Xattrs
  <2>2. CASE AtLine("entry") /\ TooLarge(Line)
    BY <1>2, <1>3, <1>5, <2>2 DEF Invalid, Passed, Read, NextLine, Given, Xattrs
  <2> QED
    BY <1>5, <2>1, <2>2 DEF Invalid
<1>6. ASSUME SetXattr PROVE Capable
  <2>1. AtLine("xattr") /\ Settable
    BY <1>6 DEF SetXattr
  <2>2. linenum \in DOMAIN table /\ Line = table[linenum] /\ Line.kind = "xattr" /\ phase = "running"
    BY <1>2, <2>1
  <2>3. Read /\ ret' = ret
    BY <1>1, <1>6, <2>2 DEF SetXattr, Read, NextLine, TypeOK
  <2> QED
    BY <1>6, <2>1, <2>2, <2>3 DEF SetXattr, Settable, Capable, Given, Xattrs, Acting, Entries
<1>7. ASSUME UnknownOwner \/ NoXattr \/ EndOfTable PROVE Ending
  BY <1>1, <1>7, LineFacts DEF UnknownOwner, NoXattr, EndOfTable, Die, Ending, TypeOK
<1> QED
  BY <1>4, <1>5, <1>6, <1>7, DirectoryEntry, FileEntry, NoFileEntry, RecursivelyEntry, DevicesEntry
     DEF Next

-----------------------------------------------------------------------------
\* The invariant.

\* What the lines say does not change.
LEMMA Same ==
    ASSUME UNCHANGED given
    PROVE  /\ table' = table /\ skeleton' = skeleton
           /\ Acting' = Acting /\ Moding' = Moding /\ Making' = Making /\ Xattrs' = Xattrs
           /\ \A j : Given(j)' = Given(j)
           /\ \A i, j : Precedes(j, i)' = Precedes(j, i)
           /\ \A i : NodesOf(i)' = NodesOf(i) /\ About(i)' = About(i)
<1>1. table' = table /\ skeleton' = skeleton
  BY DEF given
<1>2. ASSUME NEW types PROVE Entries(types)' = Entries(types)
  BY <1>1 DEF Entries
<1>3. Acting' = Acting /\ Making' = Making
  BY <1>2 DEF Acting, Making
<1>4. Moding' = Moding /\ Xattrs' = Xattrs
  BY <1>1, <1>3 DEF Moding, Xattrs
<1>5. \A j : Given(j)' = Given(j)
  BY <1>1 DEF Given
<1>6. \A i, j : Precedes(j, i)' = Precedes(j, i)
  BY <1>5 DEF Precedes
<1>7. ASSUME NEW i PROVE NodesOf(i)' = NodesOf(i)
  BY <1>1 DEF NodesOf, Says
<1>8. ASSUME NEW i PROVE MadeBy(i)' = MadeBy(i)
  BY <1>7 DEF MadeBy
<1>9. ASSUME NEW i PROVE Path(i)' = Path(i)
  BY <1>1 DEF Path
<1>10. ASSUME NEW i PROVE Mentioned(i)' = Mentioned(i)
  BY <1>1, <1>2, <1>3, <1>8, <1>9 DEF Mentioned
<1>11. ASSUME NEW i PROVE About(i)' = About(i)
  BY <1>1, <1>2, <1>3, <1>4, <1>6, <1>8, <1>9, <1>10 DEF About
<1> QED
  BY <1>1, <1>3, <1>4, <1>5, <1>6, <1>7, <1>11

LEMMA BeforeNext ==
    ASSUME TypeOK, linenum \in DOMAIN table, NEW lines, lines \subseteq DOMAIN table
    PROVE  Before(linenum + 1, lines) = Before(linenum, lines) \union ({linenum} \intersect lines)
BY LineFacts DEF Before

\* With one more line, the line that decides is that line or the one before.
LEMMA DecidesNext ==
    ASSUME TypeOK, linenum \in DOMAIN table, NEW lines, lines \subseteq DOMAIN table,
           NEW i, NEW p, Decides(i, Before(linenum + 1, lines), p)
    PROVE  \/ i = linenum /\ linenum \in lines /\ p \in About(linenum)
           \/ /\ Decides(i, Before(linenum, lines), p)
              /\ linenum \in lines => p \notin About(linenum)
<1>1. Before(linenum + 1, lines) = Before(linenum, lines) \union ({linenum} \intersect lines)
  BY BeforeNext
<1>2. \A j \in Before(linenum, lines) : j \in Int /\ j < linenum
  BY LineFacts DEF Before
<1> QED
  BY <1>1, <1>2, LineFacts DEF Decides

\* The last valid entry before an xattr line is the one it is about.
LEMMA AboutNamed ==
    ASSUME TypeOK, LastNamed, linenum \in Xattrs, fullName # NoName
    PROVE  About(linenum) = {fullName}
<1>1. PICK j \in DOMAIN table : Precedes(j, linenum) /\ fullName = table[j].name
  BY DEF LastNamed
<1>2. linenum \in DOMAIN table /\ linenum \in Int
  BY LineFacts DEF Xattrs
<1>3. ASSUME NEW k, Precedes(k, linenum) PROVE k = j
  BY <1>1, <1>2, <1>3 DEF Precedes
<1>4. About(linenum) = {table[k].name : k \in {k \in 1 .. linenum - 1 : Precedes(k, linenum)}}
  BY AboutFacts
<1>5. j \in 1 .. linenum - 1
  BY <1>1 DEF Precedes
<1> QED
  BY <1>1, <1>3, <1>4, <1>5

\* A line that is no valid entry is passed over.
LEMMA PrecedesNext ==
    ASSUME TypeOK, linenum \in DOMAIN table, ~Given(linenum), NEW j, Precedes(j, linenum)
    PROVE  Precedes(j, linenum + 1)
<1>1. linenum \in Nat
  BY DEF TypeOK
<1> QED
  BY <1>1 DEF Precedes

LEMMA InitInv == Init => TreeInv
<1> SUFFICES ASSUME Init PROVE TreeInv
  OBVIOUS
<1>1. TypeOK
  <2>1. table \in Seq(LineType) /\ IsTree(skeleton)
    BY TableAssumption, SkeletonAssumption DEF Init
  <2>2. Len(table) \in Nat
    BY <2>1
  <2>3. held \in [user : Texts, group : Texts]
    BY TextAssumption DEF Init
  <2>4. tree = skeleton /\ linenum = 1 /\ ret = 0 /\ phase = "running" /\ skeleton \in Skeletons /\ table \in Tables
    BY DEF Init
  <2> QED
    BY <2>1, <2>2, <2>3, <2>4 DEF TypeOK
<1>2. \A n \in DOMAIN table : ~(n < linenum)
  <2>1. linenum = 1
    BY DEF Init
  <2>2. \A n \in DOMAIN table : n \in Int /\ n >= 1
    BY <1>1, LineFacts
  <2> QED
    BY <2>1, <2>2
<1>3. ASSUME NEW lines, lines \subseteq DOMAIN table PROVE Before(linenum, lines) = {}
  BY <1>2, <1>3 DEF Before
<1>4. /\ Acting \subseteq DOMAIN table /\ Moding \subseteq DOMAIN table
      /\ Making \subseteq DOMAIN table /\ Xattrs \subseteq DOMAIN table
  BY DEF Acting, Moding, Making, Xattrs, Entries
<1>5. Grown
  BY DEF Init, Grown
<1>6. LastNamed
  BY <1>2 DEF Init, LastNamed
<1>7. XattrsOnFiles /\ AboutThere
  BY <1>3, <1>4 DEF XattrsOnFiles, AboutThere
<1>8. CapsOnTheirFile
  <2>1. Before(linenum, Xattrs) = {}
    BY <1>3, <1>4
  <2>2. IsTree(tree)
    BY <1>1 DEF TypeOK
  <2> QED
    BY <2>1, <2>2 DEF CapsOnTheirFile, Init, IsTree, NodeType
<1>9. ChangedByLine
  BY DEF Init, ChangedByLine
<1>10. LinesHold
  <2>1. Before(linenum, Acting) = {} /\ Before(linenum, Moding) = {}
    BY <1>3, <1>4
  <2> QED
    BY <2>1 DEF LinesHold, HoldsAt, Decides
<1>11. NodesSoFar
  <2>1. Before(linenum, Making) = {}
    BY <1>3, <1>4
  <2> QED
    BY <2>1 DEF NodesSoFar, Made, Init
<1>12. Ended
  BY DEF Init, Ended
<1> QED
  BY <1>1, <1>5, <1>6, <1>7, <1>8, <1>9, <1>10, <1>11, <1>12 DEF TreeInv

\* A step that ends the program.
LEMMA EndingInv == ASSUME TreeInv, Ending \/ UNCHANGED vars PROVE TreeInv'
<1>1. UNCHANGED <<given, linenum, tree, fullName, held>> /\ (ret' = 0 => ret = 0)
  BY DEF Ending, vars, given
<1>2. /\ table' = table /\ skeleton' = skeleton
      /\ Acting' = Acting /\ Moding' = Moding /\ Making' = Making /\ Xattrs' = Xattrs
      /\ \A j : Given(j)' = Given(j)
      /\ \A i, j : Precedes(j, i)' = Precedes(j, i)
      /\ \A i : NodesOf(i)' = NodesOf(i) /\ About(i)' = About(i)
  BY <1>1, Same
<1>3. TypeOK' /\ Ended'
  BY <1>1, <1>2 DEF TreeInv, TypeOK, Ended, Ending, vars
<1>4. Grown' /\ LastNamed'
  BY <1>1, <1>2 DEF TreeInv, Grown, LastNamed
<1>5. XattrsOnFiles' /\ ChangedByLine'
  BY <1>1, <1>2 DEF TreeInv, XattrsOnFiles, ChangedByLine
<1>6. CapsOnTheirFile'
  <2> SUFFICES ASSUME NEW p \in DOMAIN tree
               PROVE  tree[p].caps = (IF p \in DOMAIN skeleton THEN skeleton[p].caps ELSE {})
                          \union {table[i].cap : i \in {i \in Before(linenum, Xattrs) : p \in About(i)'}}
    BY <1>1, <1>2 DEF CapsOnTheirFile
  <2>1. {i \in Before(linenum, Xattrs) : p \in About(i)'} = {i \in Before(linenum, Xattrs) : p \in About(i)}
    BY <1>2
  <2> QED
    BY <2>1 DEF TreeInv, CapsOnTheirFile
<1>7. AboutThere'
  BY <1>1, <1>2 DEF TreeInv, AboutThere
<1>8. LinesHold'
  BY <1>1, <1>2 DEF TreeInv, LinesHold, HoldsAt, Decides
<1>9. NodesSoFar'
  <2>1. Made' = Made
    BY <1>1, <1>2 DEF Made
  <2>2. ASSUME NEW i PROVE NodesOf(i)' = NodesOf(i)
    BY <1>2
  <2>3. Before(linenum, Making)' = Before(linenum, Making)
    BY <1>1, <1>2 DEF Before
  <2>4. (UNION {NodesOf(i) : i \in Before(linenum, Making)})'
        = UNION {NodesOf(i) : i \in Before(linenum, Making)}
    BY <2>2, <2>3
  <2> QED
    BY <1>1, <2>1, <2>4 DEF TreeInv, NodesSoFar
<1> QED
  BY <1>3, <1>4, <1>5, <1>6, <1>7, <1>8, <1>9 DEF TreeInv

\* A line without effect, and an xattr line.
LEMMA PassedInv == ASSUME TreeInv, Passed PROVE TreeInv'
<1> DEFINE n == linenum
<1>1. /\ Read /\ UNCHANGED tree /\ UNCHANGED given /\ n \in DOMAIN table /\ n \in Nat
      /\ linenum' = n + 1 /\ fullName' = fullName /\ phase = "running" /\ phase' = "running"
      /\ (ret' = 0 => ret = 0 /\ n \notin Acting) /\ n \notin Xattrs /\ ~Given(n)
      /\ held' \in [user : Texts, group : Texts]
      /\ ret' \in {0, 1} /\ n <= Len(table) /\ TypeOK
  BY LineFacts DEF TreeInv, TypeOK, Passed, Read
<1>2. /\ table' = table /\ skeleton' = skeleton
      /\ Acting' = Acting /\ Moding' = Moding /\ Making' = Making /\ Xattrs' = Xattrs
      /\ \A j : Given(j)' = Given(j)
      /\ \A i, j : Precedes(j, i)' = Precedes(j, i)
      /\ \A i : NodesOf(i)' = NodesOf(i) /\ About(i)' = About(i)
  BY <1>1, Same
<1>3. ASSUME NEW lines, lines \subseteq DOMAIN table, n \notin lines
      PROVE  Before(n + 1, lines) = Before(n, lines)
  BY <1>1, <1>3, BeforeNext
<1>4. /\ Acting \subseteq DOMAIN table /\ Moding \subseteq Acting
      /\ Making \subseteq Acting /\ Xattrs \subseteq DOMAIN table
  BY DEF Acting, Moding, Making, Xattrs, Entries
<1>5. TypeOK'
  BY <1>1, <1>2 DEF TypeOK
<1>6. Ended'
  BY <1>1 DEF Ended
<1>7. Grown'
  BY <1>1, <1>2 DEF TreeInv, Grown
<1>8. LastNamed'
  BY <1>1, <1>2, LineFacts, PrecedesNext DEF TreeInv, LastNamed
<1>9. XattrsOnFiles'
  BY <1>1, <1>2, <1>3, <1>4 DEF TreeInv, XattrsOnFiles, Before
<1>10. ChangedByLine'
  BY <1>1, <1>2, LineFacts DEF TreeInv, ChangedByLine, Before
<1>11. CapsOnTheirFile'
  <2> SUFFICES ASSUME NEW p \in DOMAIN tree
               PROVE  tree[p].caps = (IF p \in DOMAIN skeleton THEN skeleton[p].caps ELSE {})
                          \union {table[i].cap : i \in {i \in Before(n + 1, Xattrs) : p \in About(i)'}}
    BY <1>1, <1>2 DEF CapsOnTheirFile, Before
  <2>1. {i \in Before(n + 1, Xattrs) : p \in About(i)'} = {i \in Before(n, Xattrs) : p \in About(i)}
    BY <1>1, <1>2, <1>3, <1>4
  <2> QED
    BY <2>1 DEF TreeInv, CapsOnTheirFile
<1>12. ASSUME ret' = 0
       PROVE  Before(linenum, Acting)' = Before(n, Acting) /\ Before(linenum, Moding)' = Before(n, Moding)
              /\ Before(linenum, Making)' = Before(n, Making)
  <2>1. n \notin Acting /\ n \notin Moding /\ n \notin Making
    BY <1>1, <1>4, <1>12
  <2> QED
    BY <1>1, <1>2, <1>3, <1>4, <2>1 DEF Before
<1>13. AboutThere'
  BY <1>1, <1>2, <1>12 DEF TreeInv, AboutThere
<1>14. LinesHold'
  BY <1>1, <1>2, <1>12 DEF TreeInv, LinesHold, HoldsAt, Decides
<1>15. NodesSoFar'
  <2>1. Made' = Made
    BY <1>1, <1>2 DEF Made
  <2>2. ASSUME NEW i PROVE NodesOf(i)' = NodesOf(i)
    BY <1>2
  <2>3. ASSUME ret' = 0
        PROVE  (UNION {NodesOf(i) : i \in Before(linenum, Making)})'
               = UNION {NodesOf(i) : i \in Before(linenum, Making)}
    BY <1>12, <2>2, <2>3
  <2> QED
    BY <1>1, <2>1, <2>3 DEF TreeInv, NodesSoFar
<1> QED
  BY <1>5, <1>6, <1>7, <1>8, <1>9, <1>10, <1>11, <1>13, <1>14, <1>15 DEF TreeInv

LEMMA CapableInv == ASSUME TreeInv, Capable PROVE TreeInv'
<1> DEFINE n == linenum
           f == fullName
           cap == table[n].cap
<1>1. /\ Read /\ UNCHANGED given /\ n \in DOMAIN table /\ n \in Nat
      /\ linenum' = n + 1 /\ fullName' = fullName /\ phase = "running" /\ phase' = "running"
      /\ ret' = ret /\ n \notin Acting /\ n \in Xattrs /\ ~Given(n)
      /\ held' \in [user : Texts, group : Texts]
      /\ f # NoName /\ f \in DOMAIN tree /\ tree[f].kind = "file"
      /\ ret' \in {0, 1} /\ n <= Len(table) /\ TypeOK
  BY LineFacts DEF TreeInv, TypeOK, Capable, Read
<1>2. /\ table' = table /\ skeleton' = skeleton
      /\ Acting' = Acting /\ Moding' = Moding /\ Making' = Making /\ Xattrs' = Xattrs
      /\ \A j : Given(j)' = Given(j)
      /\ \A i, j : Precedes(j, i)' = Precedes(j, i)
      /\ \A i : NodesOf(i)' = NodesOf(i) /\ About(i)' = About(i)
  BY <1>1, Same
<1>3. ASSUME NEW lines, lines \subseteq DOMAIN table
      PROVE  Before(n + 1, lines) = Before(n, lines) \union ({n} \intersect lines)
  BY <1>1, <1>3, BeforeNext
<1>4. /\ Acting \subseteq DOMAIN table /\ Moding \subseteq Acting
      /\ Making \subseteq Acting /\ Xattrs \subseteq DOMAIN table
  BY DEF Acting, Moding, Making, Xattrs, Entries
<1>5. /\ IsTree(tree') /\ DOMAIN tree' = DOMAIN tree
      /\ \A p \in DOMAIN tree : /\ p # f => tree'[p] = tree[p]
                                /\ tree'[p].kind = tree[p].kind /\ tree'[p].to = tree[p].to
                                /\ tree'[p].rdev = tree[p].rdev /\ tree'[p].mode = tree[p].mode
                                /\ tree'[p].uid = tree[p].uid /\ tree'[p].gid = tree[p].gid
      /\ tree'[f].caps = tree[f].caps \union {cap}
  <2>1. tree' = [tree EXCEPT ![f].caps = @ \union {cap}] /\ IsTree(tree)
    BY DEF Capable, TreeInv, TypeOK
  <2>2. cap \in STRING
    BY <1>1, LineFacts DEF LineType
  <2>3. tree[f] \in NodeType
    BY <1>1, <2>1 DEF IsTree
  <2>4. tree'[f] = [tree[f] EXCEPT !.caps = @ \union {cap}] /\ DOMAIN tree' = DOMAIN tree
    BY <1>1, <2>1 DEF IsTree
  <2> HIDE DEF cap
  <2>5. tree'[f] \in NodeType
    BY <2>2, <2>3, <2>4 DEF NodeType
  <2>6. /\ tree'[f].kind = tree[f].kind /\ tree'[f].to = tree[f].to
        /\ tree'[f].rdev = tree[f].rdev /\ tree'[f].mode = tree[f].mode
        /\ tree'[f].uid = tree[f].uid /\ tree'[f].gid = tree[f].gid
        /\ tree'[f].caps = tree[f].caps \union {cap}
    BY <2>3, <2>4 DEF NodeType
  <2>7. \A p \in DOMAIN tree : p # f => tree'[p] = tree[p]
    BY <2>1 DEF IsTree
  <2>8. tree' = [p \in DOMAIN tree |-> tree'[p]]
    BY <2>1
  <2>9. IsTree(tree')
    BY <2>1, <2>4, <2>5, <2>7, <2>8 DEF IsTree
  <2> QED
    BY <2>4, <2>6, <2>7, <2>9
<1>6. About(n) = {f} /\ f \in DOMAIN skeleton
  BY <1>1, AboutNamed DEF TreeInv, Grown
<1> HIDE DEF cap
<1>7. TypeOK'
  BY <1>1, <1>2, <1>5 DEF TypeOK
<1>8. Ended'
  BY <1>1 DEF Ended
<1>9. Grown'
  BY <1>1, <1>2, <1>5 DEF TreeInv, Grown
<1>10. LastNamed'
  BY <1>1, <1>2, LineFacts, PrecedesNext DEF TreeInv, LastNamed
<1>11. Before(linenum, Xattrs)' = Before(n, Xattrs) \union {n}
  BY <1>1, <1>2, <1>3, <1>4 DEF Before
<1>12. XattrsOnFiles'
  BY <1>2, <1>6, <1>11 DEF TreeInv, XattrsOnFiles
<1>13. ChangedByLine'
  <2>1. Before(linenum, DOMAIN table)' = Before(n, DOMAIN table) \union {n}
    BY <1>1, <1>2, <1>3 DEF Before
  <2> QED
    BY <1>2, <1>5, <1>6, <2>1 DEF TreeInv, ChangedByLine, Grown
<1>14. CapsOnTheirFile'
  <2> SUFFICES ASSUME NEW p \in DOMAIN tree
               PROVE  tree'[p].caps = (IF p \in DOMAIN skeleton THEN skeleton[p].caps ELSE {})
                          \union {table[i].cap : i \in {i \in Before(n, Xattrs) \union {n} : p \in About(i)'}}
    BY <1>1, <1>2, <1>5, <1>11 DEF CapsOnTheirFile
  <2>1. {i \in Before(n, Xattrs) \union {n} : p \in About(i)'}
        = {i \in Before(n, Xattrs) : p \in About(i)} \union (IF p = f THEN {n} ELSE {})
    BY <1>2, <1>6
  <2>2. tree[p].caps = (IF p \in DOMAIN skeleton THEN skeleton[p].caps ELSE {})
                          \union {table[i].cap : i \in {i \in Before(n, Xattrs) : p \in About(i)}}
    BY DEF TreeInv, CapsOnTheirFile
  <2>3. CASE p = f
    BY <1>5, <2>1, <2>2, <2>3 DEF cap
  <2>4. CASE p # f
    BY <1>5, <2>1, <2>2, <2>4
  <2> QED
    BY <2>3, <2>4
<1>15. Before(linenum, Acting)' = Before(n, Acting) /\ Before(linenum, Moding)' = Before(n, Moding)
       /\ Before(linenum, Making)' = Before(n, Making)
  <2>1. n \notin Acting /\ n \notin Moding /\ n \notin Making
    BY <1>1, <1>4
  <2> QED
    BY <1>1, <1>2, <1>3, <1>4, <2>1 DEF Before
<1>16. AboutThere'
  BY <1>1, <1>2, <1>5, <1>15 DEF TreeInv, AboutThere
<1>17. LinesHold'
  BY <1>1, <1>2, <1>5, <1>15 DEF TreeInv, LinesHold, HoldsAt, Decides
<1>18. NodesSoFar'
  <2>1. Made' = Made
    <3>1. {p \in DOMAIN tree' \ DOMAIN skeleton' : tree'[p].kind # "dir"}
          = {p \in DOMAIN tree \ DOMAIN skeleton : tree[p].kind # "dir"}
      BY <1>2, <1>5
    <3> QED
      BY <1>5, <3>1 DEF Made
  <2>2. ASSUME NEW i PROVE NodesOf(i)' = NodesOf(i)
    BY <1>2
  <2>3. (UNION {NodesOf(i) : i \in Before(linenum, Making)})'
        = UNION {NodesOf(i) : i \in Before(linenum, Making)}
    BY <1>15, <2>2
  <2> QED
    BY <1>1, <2>1, <2>3 DEF TreeInv, NodesSoFar
<1> QED
  BY <1>7, <1>8, <1>9, <1>10, <1>12, <1>13, <1>14, <1>16, <1>17, <1>18 DEF TreeInv

\* A valid entry. What earlier lines are about is accounted for at this line,
\* and is in the tree: the entry leaves it alone or is about it itself.
LEMMA EntryInv == ASSUME TreeInv, Entry PROVE TreeInv'
<1> DEFINE n == linenum
           l == table[n]
<1>1. /\ Frame /\ Growth /\ (ret' = 0 => ret = 0 /\ Fulfilled)
      /\ UNCHANGED given /\ n \in DOMAIN table /\ n \in Nat
      /\ linenum' = n + 1 /\ fullName' = l.name /\ phase' = "running"
      /\ Given(n) /\ n \notin Xattrs /\ held' \in [user : Texts, group : Texts]
      /\ ret' \in {0, 1} /\ n <= Len(table) /\ TypeOK
  BY LineFacts DEF TreeInv, TypeOK, Entry, Frame, Given, Xattrs
<1>2. /\ table' = table /\ skeleton' = skeleton
      /\ Acting' = Acting /\ Moding' = Moding /\ Making' = Making /\ Xattrs' = Xattrs
      /\ \A j : Given(j)' = Given(j)
      /\ \A i, j : Precedes(j, i)' = Precedes(j, i)
      /\ \A i : NodesOf(i)' = NodesOf(i) /\ About(i)' = About(i)
  BY <1>1, Same
<1>3. ASSUME NEW lines, lines \subseteq DOMAIN table
      PROVE  Before(n + 1, lines) = Before(n, lines) \union ({n} \intersect lines)
  BY <1>1, <1>3, BeforeNext
<1>4. /\ Acting \subseteq DOMAIN table /\ Moding \subseteq Acting
      /\ Making \subseteq Acting /\ Xattrs \subseteq DOMAIN table
  BY DEF Acting, Moding, Making, Xattrs, Entries
<1>5. TypeOK'
  BY <1>1, <1>2 DEF TypeOK, Growth
<1>6. Ended'
  BY <1>1 DEF Ended
<1>7. Grown'
  BY <1>1, <1>2 DEF TreeInv, Grown, Growth
<1>8. LastNamed'
  <2>1. Precedes(n, n + 1)
    BY <1>1 DEF Precedes
  <2> QED
    BY <1>1, <1>2, <2>1 DEF LastNamed
<1>9. Before(linenum, Xattrs)' = Before(n, Xattrs)
  BY <1>1, <1>2, <1>3, <1>4 DEF Before
<1>10. XattrsOnFiles'
  BY <1>2, <1>9 DEF TreeInv, XattrsOnFiles
<1>11. ChangedByLine'
  <2>1. Before(linenum, DOMAIN table)' = Before(n, DOMAIN table) \union {n}
    BY <1>1, <1>2, <1>3 DEF Before
  <2>2. ASSUME NEW p \in DOMAIN skeleton PROVE tree'[p] = tree[p] \/ p \in About(n)
    BY <1>1 DEF Growth, TreeInv, Grown
  <2> QED
    BY <1>2, <2>1, <2>2 DEF TreeInv, ChangedByLine
<1>12. CapsOnTheirFile'
  <2> SUFFICES ASSUME NEW p \in DOMAIN tree'
               PROVE  tree'[p].caps = (IF p \in DOMAIN skeleton THEN skeleton[p].caps ELSE {})
                          \union {table[i].cap : i \in {i \in Before(n, Xattrs) : p \in About(i)'}}
    BY <1>1, <1>2, <1>9 DEF CapsOnTheirFile
  <2>1. {i \in Before(n, Xattrs) : p \in About(i)'} = {i \in Before(n, Xattrs) : p \in About(i)}
    BY <1>2
  <2>2. CASE p \in DOMAIN tree
    <3>1. tree'[p].caps = tree[p].caps
      BY <1>1, <2>2 DEF Growth
    <3> QED
      BY <2>1, <2>2, <3>1 DEF TreeInv, CapsOnTheirFile
  <2>3. CASE p \notin DOMAIN tree
    <3>1. tree'[p].caps = {} /\ p \notin DOMAIN skeleton
      BY <1>1, <2>3 DEF Growth, TreeInv, Grown
    <3>2. {i \in Before(n, Xattrs) : p \in About(i)} = {}
      BY <3>1 DEF TreeInv, XattrsOnFiles
    <3> QED
      BY <2>1, <3>1, <3>2
  <2> QED
    BY <2>2, <2>3
<1>13. ASSUME NEW lines, lines \subseteq DOMAIN table, lines' = lines
       PROVE  Before(linenum, lines)' = Before(n + 1, lines)
  BY <1>1, <1>13 DEF Before
<1>14. AboutThere'
  <2> SUFFICES ASSUME ret' = 0, NEW i \in Before(n + 1, Acting)
               PROVE  About(i) \subseteq DOMAIN tree'
    BY <1>1, <1>2 DEF AboutThere, Before
  <2>1. CASE i = n
    BY <1>1, <2>1 DEF Fulfilled
  <2>2. CASE i \in Before(n, Acting)
    BY <1>1, <2>2 DEF TreeInv, AboutThere, Growth
  <2> QED
    BY <1>3, <1>4, <2>1, <2>2
<1>15. LinesHold'
  <2> SUFFICES ASSUME ret' = 0, NEW p \in DOMAIN tree', NEW i \in DOMAIN table
               PROVE  /\ Decides(i, Before(n + 1, Acting), p) /\ table[i].got >= 5 =>
                            /\ tree'[p].uid = GetUgId(table[i].user, Passwd)
                            /\ tree'[p].gid = GetUgId(table[i].group, Group)
                      /\ Decides(i, Before(n + 1, Moding), p) /\ tree'[p].kind # "link" =>
                            tree'[p].mode = Mode(table[i])
    <3>1. \A i \in DOMAIN table : Mode(table[i]) = IF table[i].got >= 3 THEN table[i].mode ELSE "755"
      BY DEF Mode, Field
    <3> QED
      BY <1>1, <1>2, <3>1 DEF LinesHold, HoldsAt, Decides, Before
  <2>1. Fulfilled /\ ret = 0
    BY <1>1
  <2>2. n \in Acting
    BY <2>1 DEF Fulfilled
  \* An earlier line that decided about p: p is there and accounted for.
  <2>3. ASSUME NEW lines, lines \subseteq Acting, Decides(i, Before(n, lines), p)
        PROVE  p \in DOMAIN tree /\ p \in Mentioned(n)
    <3>1. i \in Before(n, Acting) /\ p \in About(i)
      BY <2>3 DEF Decides, Before
    <3> QED
      BY <1>1, <2>1, <3>1, AboutMentioned DEF TreeInv, AboutThere
  <2>4. ASSUME p \in DOMAIN tree
        PROVE  /\ tree[p].kind = tree'[p].kind
               /\ Decides(i, Before(n, Acting), p) /\ table[i].got >= 5 =>
                    /\ tree[p].uid = GetUgId(table[i].user, Passwd)
                    /\ tree[p].gid = GetUgId(table[i].group, Group)
               /\ Decides(i, Before(n, Moding), p) /\ tree[p].kind # "link" =>
                    tree[p].mode = Mode(table[i])
    BY <1>1, <2>1, <2>4 DEF TreeInv, LinesHold, HoldsAt, Mode, Field, Growth
  <2>5. ASSUME p \in DOMAIN tree, p \in Mentioned(n), p \notin About(n) PROVE tree'[p] = tree[p]
    BY <2>1, <2>5 DEF Fulfilled
  <2>6. ASSUME Decides(i, Before(n + 1, Acting), p), table[i].got >= 5
        PROVE  /\ tree'[p].uid = GetUgId(table[i].user, Passwd)
               /\ tree'[p].gid = GetUgId(table[i].group, Group)
    <3>1. CASE i = n /\ p \in About(n)
      BY <2>1, <2>6, <3>1 DEF Fulfilled
    <3>2. CASE Decides(i, Before(n, Acting), p) /\ p \notin About(n)
      BY <2>3, <2>4, <2>5, <2>6, <3>2
    <3> QED
      BY <1>1, <1>4, <2>2, <2>6, <3>1, <3>2, DecidesNext
  <2>7. ASSUME Decides(i, Before(n + 1, Moding), p), tree'[p].kind # "link"
        PROVE  tree'[p].mode = Mode(table[i])
    <3>1. CASE i = n /\ n \in Moding /\ p \in About(n)
      BY <2>1, <2>7, <3>1 DEF Fulfilled
    <3>2. CASE Decides(i, Before(n, Moding), p) /\ (n \in Moding => p \notin About(n))
      <4>1. p \in DOMAIN tree /\ p \in Mentioned(n)
        BY <1>4, <2>3, <3>2
      <4>2. tree[p].mode = Mode(table[i])
        BY <2>4, <2>7, <3>2, <4>1
      <4>3. CASE p \in About(n)
        BY <2>1, <2>7, <3>2, <4>1, <4>2, <4>3 DEF Fulfilled
      <4>4. CASE p \notin About(n)
        BY <2>5, <4>1, <4>2, <4>4
      <4> QED
        BY <4>3, <4>4
    <3> QED
      BY <1>1, <1>4, <2>7, <3>1, <3>2, DecidesNext
  <2> QED
    BY <2>6, <2>7
<1>16. NodesSoFar'
  <2> SUFFICES ASSUME ret' = 0 PROVE Made' = UNION {NodesOf(i) : i \in Before(n + 1, Making)}
    <3>1. ASSUME NEW i PROVE NodesOf(i)' = NodesOf(i)
      BY <1>2
    <3>2. Before(linenum, Making)' = Before(n + 1, Making)
      BY <1>1, <1>2 DEF Before
    <3>3. (UNION {NodesOf(i) : i \in Before(linenum, Making)})'
          = UNION {NodesOf(i) : i \in Before(n + 1, Making)}
      BY <3>1, <3>2
    <3> QED
      BY <3>3 DEF NodesSoFar
  <2>1. Fulfilled /\ Made = UNION {NodesOf(i) : i \in Before(n, Making)}
    BY <1>1 DEF TreeInv, NodesSoFar
  <2>2. CASE n \in Making
    <3>1. Before(n + 1, Making) = Before(n, Making) \union {n}
      BY <1>3, <1>4, <2>2
    <3>2. Made' = Made \union NodesOf(n)
      BY <2>1, <2>2 DEF Fulfilled
    <3> QED
      BY <2>1, <3>1, <3>2
  <2>3. CASE n \notin Making
    <3>1. Before(n + 1, Making) = Before(n, Making)
      BY <1>3, <1>4, <2>3
    <3>2. {p \in DOMAIN tree' \ DOMAIN skeleton' : tree'[p].kind # "dir"}
          = {p \in DOMAIN tree \ DOMAIN skeleton : tree[p].kind # "dir"}
      BY <1>1, <1>2, <2>1, <2>3 DEF Growth, Fulfilled
    <3>3. \A p \in DOMAIN tree : tree'[p].rdev = tree[p].rdev
      BY <1>1 DEF Growth
    <3>4. Made' = Made
      BY <3>2, <3>3 DEF Made
    <3> QED
      BY <2>1, <3>1, <3>4
  <2> QED
    BY <2>2, <2>3
<1> QED
  BY <1>5, <1>6, <1>7, <1>8, <1>10, <1>11, <1>12, <1>14, <1>15, <1>16 DEF TreeInv

\* The inductive invariant: types, what the tree has in common with the
\* skeleton, and what the lines read so far have made of it.
THEOREM TreeInvariance == Spec => []TreeInv
<1>1. Init => TreeInv
  BY InitInv
<1>2. TreeInv /\ [Next]_vars => TreeInv'
  BY Steps, EntryInv, PassedInv, CapableInv, EndingInv
<1> QED
  BY <1>1, <1>2, PTL DEF Spec

-----------------------------------------------------------------------------
\* If makedevs succeeds, owners and permissions are those of the last line
\* about each path, whatever else the table does to the paths around it.
THEOREM LastLineDecides == Spec => []TableHolds
<1>1. TreeInv => TableHolds
  BY DEF TreeInv, TableHolds, Succeeded, LinesHold, Ended
<1> QED
  BY <1>1, TreeInvariance, PTL

\* A capability goes to the file named by the last valid entry before its
\* line, and to no other file.
THEOREM Capabilities == Spec => []CapsOnTheirFile
<1>1. TreeInv => CapsOnTheirFile
  BY DEF TreeInv
<1> QED
  BY <1>1, TreeInvariance, PTL

\* If makedevs succeeds, the nodes are those the lines stand for by the usage
\* text, with their numbers, and no others.
THEOREM Nodes == Spec => []NodesMade
<1>1. TreeInv => NodesMade
  <2> SUFFICES ASSUME TreeInv, Succeeded PROVE Made = UNION {NodesOf(i) : i \in Making}
    BY DEF NodesMade
  <2>1. Before(linenum, Making) = Making
    <3>1. linenum = Len(table) + 1 /\ TypeOK
      BY DEF TreeInv, Ended, Succeeded
    <3> QED
      BY <3>1, LineFacts DEF Before, Making, Entries
  <2> QED
    BY <2>1 DEF TreeInv, NodesSoFar, Succeeded
<1> QED
  BY <1>1, TreeInvariance, PTL

\* However makedevs ends, what no line is about is as it was.
THEOREM Untouched == Spec => []OthersKept
<1>1. TreeInv => OthersKept
  BY DEF TreeInv, ChangedByLine, OthersKept, Before
<1> QED
  BY <1>1, TreeInvariance, PTL
=============================================================================
