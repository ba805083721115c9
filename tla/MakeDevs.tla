------------------------------ MODULE MakeDevs ------------------------------
(***************************************************************************)
(* package/makedevs/makedevs.c: inside fakeroot, after mkusers has written *)
(* etc/passwd and etc/group, it applies the device table to the root       *)
(* filesystem: owners and permissions of files and directories, device     *)
(* nodes, capabilities.  One action reads one line; a line that fails is   *)
(* reported by the exit code (ret) in the end, a few faults end the        *)
(* program at once.                                                        *)
(*                                                                         *)
(* A path is the sequence of its names below the root directory, and the   *)
(* tree maps the paths that exist to their nodes.  A symbolic link is      *)
(* relative, stands at the end of a path only and does not lead to another *)
(* link.  Permissions are texts ("755"), compared only.                    *)
(***************************************************************************)
EXTENDS Integers, Sequences, SequencesExt, TLC

CONSTANTS
    Skeletons,      \* the trees makedevs may start from
    Tables,         \* the device tables
    Texts,          \* what permissions, users and groups are written as
    Passwd, Group,  \* etc/passwd and etc/group of the target: ids of names
    Number,         \* the texts strtoul takes for a number, with its value
    Caps,           \* the texts cap_from_text understands
    Supported,      \* is EXTENDED_ATTRIBUTES defined?
    Limit,          \* 0xfffff
    Width           \* 2^32, of an unsigned int

Keep == "-1"        \* the mode that stands for none
NoName == <<"">>    \* full_name is a null pointer

ASSUME NumberAssumption == Limit \in Nat /\ Width \in Nat \ {0} /\ Limit < Width
ASSUME NameAssumption == "" \notin DOMAIN Number
ASSUME TextAssumption == {"", "garbage", Keep, "755", "777", "7777"} \subseteq Texts

VARIABLES
    skeleton, table,  \* what makedevs was given
    linenum,          \* the line it reads next
    tree,
    fullName,         \* full_name: of the last entry
    held,             \* what the arrays user and group hold
    ret, phase        \* exit code; running, done, died

vars == <<skeleton, table, linenum, tree, fullName, held, ret, phase>>
given == <<skeleton, table>>

\* The arrays are not initialised: what they hold at first is a name of no one,
\* or nothing.
Init ==
    /\ skeleton \in Skeletons /\ table \in Tables
    /\ tree = skeleton
    /\ linenum = 1 /\ fullName = NoName
    /\ held \in [user : {"", "garbage"}, group : {"", "garbage"}]
    /\ ret = 0 /\ phase = "running"

-----------------------------------------------------------------------------
\* The tree.

\* stat, chown and chmod follow a link, lstat, lchown and nftw do not.
Follow(t, p) == IF p \in DOMAIN t /\ t[p].kind = "link" THEN t[p].to ELSE p
IsA(kind, t, p) == Follow(t, p) \in DOMAIN t /\ t[Follow(t, p)].kind = kind
Below(t, p) == {q \in DOMAIN t : IsPrefix(p, q)}
Dangling(t) == {p \in DOMAIN t : t[p].kind = "link" /\ t[p].to \notin DOMAIN t}

Node(kind, uid, gid, mode, rdev) ==
    [kind |-> kind, uid |-> uid, gid |-> gid, mode |-> mode, rdev |-> rdev,
     to |-> <<>>, caps |-> {}]

\* Nodes that are made where there are none.
Added(t, new) == [p \in DOMAIN t \union DOMAIN new |-> IF p \in DOMAIN t THEN t[p] ELSE new[p]]

\* chown and chmod.
Owned(t, p, uid, gid, mode) ==
    [t EXCEPT ![p].uid = uid, ![p].gid = gid,
              ![p].mode = IF mode = Keep THEN @ ELSE mode]

\* bb_make_directory: missing parents too, with all permissions. The mode is a
\* long by then: one that was -1 is not recognised any more and sets every bit.
\* It fails where a file or a dangling link is in the way.
MakeDirectory(t, p, mode) ==
    LET ways == {SubSeq(p, 1, n) : n \in 0..Len(p)}
        new  == ways \ DOMAIN t
        perms(q) == IF q # p THEN "777" ELSE IF mode = Keep THEN "7777" ELSE mode
    IN  IF \E q \in ways \ new : ~IsA("dir", t, q) THEN t
        ELSE Added(t, [q \in new |-> Node("dir", 0, 0, perms(q), <<>>)])

\* The paths nftw calls bb_recursive for, parents first and in any order
\* otherwise. A dangling link is where chmod fails and the walk ends.
Walks(t, p, mode) ==
    LET all  == Below(t, p)
        stop == IF mode = Keep THEN {} ELSE all \intersect Dangling(t)
    IN  IF stop = {} THEN {all}
        ELSE {seen \in SUBSET all : \E last \in stop :
                 /\ seen \intersect stop = {last}
                 /\ \A q \in seen : q = p \/ Front(q) \in seen
                 /\ \A q \in seen : IsPrefix(q, last) \/ Below(t, q) \subseteq seen}

\* Mutant: chmod follows every link.
RecursiveThroughLinks(t, seen, uid, gid, mode) ==
    [q \in DOMAIN t |->
        LET at == {r \in seen : Follow(t, r) = q}
        IN  IF at = {} THEN t[q]
            ELSE IF t[q].kind = "link" THEN t[q] ELSE Owned(t, q, uid, gid, mode)[q]]

\* bb_recursive for each of them. The test of access() is the wrong way around:
\* it spares a link that leads somewhere, whose target chmod would change, and
\* lets chmod fail for one that does not.
Recursive(t, seen, uid, gid, mode) ==
    [q \in DOMAIN t |->
        IF q \notin seen THEN t[q]
        ELSE Owned(t, q, uid, gid, IF t[q].kind = "link" THEN Keep ELSE mode)[q]]

-----------------------------------------------------------------------------
\* The fields of a line. sscanf stops at the first it cannot read; the others
\* are as they were.

Line == table[linenum]
Field(l, n, value, default) == IF l.got >= n THEN value ELSE default

Mode(l)      == Field(l, 3, l.mode, "755")
Major(l)     == Field(l, 6, l.major, 0)
Minor(l)     == Field(l, 7, l.minor, 0)
Start(l)     == Field(l, 8, l.start, 0)
Increment(l) == Field(l, 9, l.increment, 0)
Count(l)     == Field(l, 10, l.count, 0)
\* Mutant: one field more is expected before the group counts.
HeldTooFew ==
    [user |-> Field(Line, 4, Line.user, held.user), group |-> Field(Line, 6, Line.group, held.group)]

Held ==
    [user |-> Field(Line, 4, Line.user, held.user), group |-> Field(Line, 5, Line.group, held.group)]

TooLarge(l) == \E n \in {Major(l), Minor(l), Start(l), Increment(l), Count(l)} : n > Limit

\* get_ug_id, my_getpwnam, my_getgrnam.
Known(text, names) == text = "" \/ text \in DOMAIN Number \union DOMAIN names
GetUgId(text, names) ==
    IF text = "" THEN 0     \* getuid(), getgid() inside fakeroot
    ELSE IF text \in DOMAIN Number THEN Number[text] ELSE names[text]

Uid == GetUgId(Held.user, Passwd)
Gid == GetUgId(Held.group, Group)

-----------------------------------------------------------------------------
\* The loop of main.

AtLine(kind) == phase = "running" /\ linenum <= Len(table) /\ Line.kind = kind

\* An entry with an owner and a group that exist.
AtEntry(types) ==
    /\ AtLine("entry") /\ Line.type \in types /\ ~TooLarge(Line)
    /\ Known(Held.group, Group) /\ Known(Held.user, Passwd)

NextLine == linenum' = linenum + 1 /\ phase' = phase /\ UNCHANGED given
\* The rest of an entry.
Applied(t, ok) ==
    /\ tree' = t /\ ret' = IF ok THEN ret ELSE 1
    /\ fullName' = Line.name /\ held' = Held
    /\ NextLine

Die == phase' = "died" /\ ret' = 1 /\ UNCHANGED <<given, linenum, tree, fullName, held>>

\* A comment may well have a user and a group.
Skip ==
    /\ AtLine("comment")
    /\ held' = Held /\ NextLine /\ UNCHANGED <<tree, fullName, ret>>

Invalid ==
    /\ AtLine("invalid") \/ (AtLine("entry") /\ TooLarge(Line))
    /\ ret' = 1 /\ held' = Held
    /\ NextLine /\ UNCHANGED <<tree, fullName>>

UnknownOwner ==
    /\ AtLine("entry") /\ ~TooLarge(Line)
    /\ ~Known(Held.group, Group) \/ ~Known(Held.user, Passwd)
    /\ Die

\* type d. That the directory could not be made is not an error of its own.
Directory ==
    /\ AtEntry({"d"})
    /\ LET t  == MakeDirectory(tree, Line.name, Mode(Line))
           p  == Follow(t, Line.name)
           ok == p \in DOMAIN t
       IN  Applied(IF ok THEN Owned(t, p, Uid, Gid, Mode(Line)) ELSE t, ok)

\* types f and F.
File ==
    /\ AtEntry({"f", "F"}) /\ IsA("file", tree, Line.name)
    /\ Applied(Owned(tree, Follow(tree, Line.name), Uid, Gid, Mode(Line)), TRUE)

\* Mutant: full_name is only set for a file that exists.
NoFileNotNamed ==
    /\ AtEntry({"f", "F"}) /\ ~IsA("file", tree, Line.name)
    /\ ret' = (IF Line.type = "F" THEN ret ELSE 1) /\ held' = Held
    /\ NextLine /\ UNCHANGED <<tree, fullName>>

NoFile ==
    /\ AtEntry({"f", "F"}) /\ ~IsA("file", tree, Line.name)
    /\ Applied(tree, Line.type = "F")

\* type r.
Recursively ==
    /\ AtEntry({"r"})
    /\ IF Line.name \notin DOMAIN tree THEN Applied(tree, FALSE)
       ELSE \E seen \in Walks(tree, Line.name, Mode(Line)) :
                Applied(Recursive(tree, seen, Uid, Gid, Mode(Line)),
                        Mode(Line) = Keep \/ seen \intersect Dangling(tree) = {})

\* Mutant: count is not decremented.
NumbersToCount(l) == Start(l) .. Start(l) + Count(l)

\* types c, b and p: the numbers of the nodes, and what they are called.
Numbers(l) == Start(l) .. Start(l) + (IF Count(l) = 0 THEN 0 ELSE Count(l) - 1)
Numbered(p, n) == [p EXCEPT ![Len(p)] = @ \o ToString(n)]
Called(l, n) == IF Count(l) > 1 THEN Numbered(l.name, n) ELSE l.name
Rdev(l, n) == <<Major(l), (Minor(l) + (n - Start(l)) * Increment(l)) % Width>>

Devices ==
    /\ AtEntry({"c", "b", "p"})
    /\ LET ok == {n \in Numbers(Line) : /\ Called(Line, n) \notin DOMAIN tree
                                        /\ IsA("dir", tree, Front(Line.name))
                                        /\ Mode(Line) # Keep}
           at(p) == CHOOSE n \in ok : Called(Line, n) = p
       IN  Applied(Added(tree, [p \in {Called(Line, n) : n \in ok} |->
                                    Node(Line.type, Uid, Gid, Mode(Line), Rdev(Line, at(p)))]),
                   ok = Numbers(Line))

Unsupported == AtEntry({"x"}) /\ Applied(tree, FALSE)

\* bb_set_xattr: libcap takes regular files only.
Settable ==
    /\ Supported /\ Line.cap \in Caps /\ fullName # NoName
    /\ fullName \in DOMAIN tree /\ tree[fullName].kind = "file"

SetXattr ==
    /\ AtLine("xattr") /\ Settable
    /\ tree' = [tree EXCEPT ![fullName].caps = @ \union {Line.cap}]
    /\ NextLine /\ UNCHANGED <<fullName, held, ret>>

NoXattr == AtLine("xattr") /\ ~Settable /\ Die

EndOfTable ==
    /\ phase = "running" /\ linenum > Len(table)
    /\ phase' = "done" /\ UNCHANGED <<given, linenum, tree, fullName, held, ret>>

Next ==
    \/ Skip \/ Invalid \/ UnknownOwner \/ Directory \/ File \/ NoFile
    \/ Recursively \/ Devices \/ Unsupported \/ SetXattr \/ NoXattr \/ EndOfTable

Spec == Init /\ [][Next]_vars

-----------------------------------------------------------------------------
\* What a table means, line by line, when makedevs succeeds.

Succeeded == phase = "done" /\ ret = 0

Entries(types) == {i \in DOMAIN table : table[i].kind = "entry" /\ table[i].type \in types}
Acting == Entries({"d", "f", "F", "r", "c", "b", "p"})
Moding == {i \in Acting : table[i].mode # Keep \/ table[i].got < 3}
Making == Entries({"c", "b", "p"})
Xattrs == {i \in DOMAIN table : table[i].kind = "xattr"}
Before(n, lines) == {i \in lines : i < n}

\* A field of a line.
Says(i, n, value) == IF table[i].got >= n THEN value ELSE 0

\* The usage text (makedevs.c:415-436): with a count there are that many nodes,
\* numbered from start on one by one, and their minor numbers go up by inc.  The
\* manual (makedev-syntax.txt:37-39) has the numbers go up by inc, until count.
NodesOf(i) ==
    LET l     == table[i]
        count == Says(i, 10, l.count)
        start == Says(i, 8, l.start)
        minor(k) == (Says(i, 7, l.minor) + k * Says(i, 9, l.increment)) % Width
    IN  IF count <= 1 THEN {<<l.name, Says(i, 6, l.major), minor(0)>>}
        ELSE {<<Numbered(l.name, start + k), l.major, minor(k)>> : k \in 0 .. count - 1}

MadeBy(i) == {x[1] : x \in NodesOf(i)}

\* The entry an xattr line is about: the last one before it that is valid.
Given(j) == table[j].kind = "entry" /\ ~TooLarge(table[j])
Precedes(j, i) == j \in 1 .. i - 1 /\ Given(j) /\ \A k \in j + 1 .. i - 1 : ~Given(k)

\* The path of a d line. Links are those of the skeleton.
Path(i) == Follow(skeleton, table[i].name)
\* The paths there are at line i that the lines before it account for.
Mentioned(i) ==
    DOMAIN skeleton \union {Path(j) : j \in Before(i, Entries({"d"}))}
                    \union UNION {MadeBy(j) : j \in Before(i, Making)}

\* The paths a line is about: all that were below a directory, for type r.
About(i) ==
    IF i \in Xattrs THEN {table[j].name : j \in {j \in 1 .. i - 1 : Precedes(j, i)}}
    ELSE IF i \in Entries({"d"}) THEN {Path(i)}
    ELSE IF i \in Entries({"f", "F"}) THEN {q \in {Path(i)} : IsA("file", skeleton, table[i].name)}
    ELSE IF i \in Entries({"r"}) THEN {q \in Mentioned(i) : IsPrefix(table[i].name, q)}
    ELSE IF i \in Making THEN MadeBy(i) ELSE {}

\* The last of some lines that is about path p decides.
Decides(i, lines, p) ==
    i \in lines /\ p \in About(i) /\ \A j \in lines : j > i => p \notin About(j)

\* What the lines before line n say of path p is so.
HoldsAt(p, n) ==
    \A i \in DOMAIN table :
        LET l == table[i]
        IN  /\ Decides(i, Before(n, Acting), p) /\ l.got >= 5 =>
                    /\ tree[p].uid = GetUgId(l.user, Passwd)
                    /\ tree[p].gid = GetUgId(l.group, Group)
            /\ Decides(i, Before(n, Moding), p) /\ tree[p].kind # "link" =>
                    tree[p].mode = IF l.got >= 3 THEN l.mode ELSE "755"

\* The owner and the permissions of whatever is in the tree are those of the
\* last line about it, if makedevs succeeds (main; bb_recursive): no later line
\* about something else, no line for all of a directory and no field of the
\* line before has changed them.
TableHolds == Succeeded => \A p \in DOMAIN tree : HoldsAt(p, Len(table) + 1)

\* At any time, and however makedevs ends, a file has the capabilities of the
\* xattr lines read that follow the entry for it, and no other file has
\* (makedev-syntax.txt: a capability is added to "the previous file").
CapsOnTheirFile ==
    \A p \in DOMAIN tree :
        tree[p].caps = (IF p \in DOMAIN skeleton THEN skeleton[p].caps ELSE {}) \union
            {table[i].cap : i \in {i \in Before(linenum, Xattrs) : p \in About(i)}}

Made == {<<p, tree[p].rdev[1], tree[p].rdev[2]>> :
            p \in {p \in DOMAIN tree \ DOMAIN skeleton : tree[p].kind # "dir"}}

\* If makedevs succeeds, the device nodes and fifos are those of the skeleton
\* and exactly the ones the lines stand for by the usage text, each with its
\* device numbers. By the loop of the manual there would be others.
NodesMade == Succeeded => Made = UNION {NodesOf(i) : i \in Making}

\* However makedevs ends, what no line is about keeps its owner, permissions
\* and capabilities (nftw without FTW_PHYS would walk out of the directory).
OthersKept ==
    \A p \in DOMAIN skeleton :
        (\A i \in DOMAIN table : p \notin About(i)) => tree[p] = skeleton[p]

-----------------------------------------------------------------------------
\* What the lines read so far have made of the tree: why the properties hold.

LineType ==
    [kind : {"entry", "comment", "invalid", "xattr"}, name : Seq(STRING), type : STRING,
     mode : Texts, user : Texts, group : Texts, major : Nat, minor : Nat, start : Nat,
     increment : Nat, count : Nat, got : Nat, cap : STRING]
NodeType ==
    [kind : {"dir", "file", "link", "c", "b", "p"}, uid : Nat, gid : Nat, mode : Texts,
     rdev : Seq(Nat), to : Seq(STRING), caps : SUBSET STRING]
IsTree(t) == t \in [DOMAIN t -> NodeType]

ASSUME TableAssumption == Tables \subseteq Seq(LineType)
ASSUME SkeletonAssumption == \A s \in Skeletons : IsTree(s)
ASSUME IdAssumption ==
    /\ Passwd \in [DOMAIN Passwd -> Nat] /\ Group \in [DOMAIN Group -> Nat]
    /\ Number \in [DOMAIN Number -> Nat]
\* sprintf gives different numbers different texts.
ASSUME NumberedAssumption ==
    \A t \in Tables : \A i \in DOMAIN t : \A m, n \in Numbers(t[i]) :
        m # n => Numbered(t[i].name, m) # Numbered(t[i].name, n)

\* What the variables hold, in every state.
TypeOK ==
    /\ skeleton \in Skeletons /\ table \in Tables
    /\ IsTree(tree) /\ linenum \in 1 .. Len(table) + 1
    /\ held \in [user : Texts, group : Texts]
    /\ ret \in {0, 1} /\ phase \in {"running", "done", "died"}

\* Nothing is removed or replaced, and what is new is a directory or a node.
Grown ==
    /\ \A p \in DOMAIN skeleton :
        /\ p \in DOMAIN tree
        /\ tree[p].kind = skeleton[p].kind /\ tree[p].to = skeleton[p].to
        /\ tree[p].rdev = skeleton[p].rdev
    /\ \A p \in DOMAIN tree \ DOMAIN skeleton : tree[p].kind \in {"dir", "c", "b", "p"}

\* full_name is the name of the last valid entry.
LastNamed ==
    \/ \E j \in DOMAIN table : Precedes(j, linenum) /\ fullName = table[j].name
    \/ fullName = NoName /\ \A j \in DOMAIN table : j < linenum => ~Given(j)

\* A capability went to a file, and files are not made.
XattrsOnFiles == \A i \in Before(linenum, Xattrs) : About(i) \subseteq DOMAIN skeleton

ChangedByLine ==
    \A p \in DOMAIN skeleton :
        tree[p] = skeleton[p] \/ \E i \in Before(linenum, DOMAIN table) : p \in About(i)

\* A line that did not fail left what it is about in the tree.
AboutThere == ret = 0 => \A i \in Before(linenum, Acting) : About(i) \subseteq DOMAIN tree

LinesHold == ret = 0 => \A p \in DOMAIN tree : HoldsAt(p, linenum)

NodesSoFar == ret = 0 => Made = UNION {NodesOf(i) : i \in Before(linenum, Making)}

Ended == (phase = "done" => linenum = Len(table) + 1) /\ (phase = "died" => ret = 1)

TreeInv ==
    /\ TypeOK /\ Grown /\ LastNamed /\ XattrsOnFiles /\ CapsOnTheirFile
    /\ ChangedByLine /\ AboutThere /\ LinesHold /\ NodesSoFar /\ Ended
=============================================================================
