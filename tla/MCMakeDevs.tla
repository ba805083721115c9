----------------------------- MODULE MCMakeDevs -----------------------------
\* Instances of MakeDevs for TLC: a root filesystem with two directories, a
\* device node, files and links (to a file, to a directory outside of the
\* link's own, and to nothing), and tables of at most MaxLines lines.
EXTENDS MakeDevs

CONSTANT MaxLines   \* bound: the lines of a table

Link(to) == [Node("link", 0, 0, "777", <<>>) EXCEPT !.to = to]
Base ==
    [p \in {<<>>, <<"dev">>, <<"srv">>} |-> Node("dir", 0, 0, "755", <<>>)]
    @@ (<<"dev", "tty1">> :> Node("c", 0, 0, "600", <<0, 0>>))
    @@ (<<"app">> :> Node("file", 0, 0, "644", <<>>))
    @@ (<<"link">> :> Link(<<"app">>))
    @@ (<<"srv", "file">> :> Node("file", 0, 0, "600", <<>>))
    @@ (<<"srv", "link">> :> Link(<<"dev">>))

SomeSkeletons == {Base, Base @@ (<<"srv", "none">> :> Link(<<"none">>))}

SomeIds == ("root" :> 0) @@ ("www" :> 2)
SomeNumbers == ("0" :> 0) @@ ("1" :> 1)

Blank == [kind |-> "entry", name |-> <<>>, type |-> "f", mode |-> "640", user |-> "www",
          group |-> "1", major |-> 0, minor |-> 0, start |-> 0, increment |-> 0,
          count |-> 0, got |-> 5, cap |-> ""]
Entry(type, name, mode) == [Blank EXCEPT !.type = type, !.name = name, !.mode = mode]
Dev(name, minor, start, increment, count) ==
    [Blank EXCEPT !.type = "b", !.name = name, !.got = 10, !.major = 3, !.minor = minor,
                  !.start = start, !.increment = increment, !.count = count, !.user = "root"]
Xattr(cap) == [Blank EXCEPT !.kind = "xattr", !.cap = cap]

SomeLines ==
    { Entry("d", <<"srv">>, "750"), Entry("d", <<"new", "sub">>, Keep),
      Entry("d", <<"new">>, "700"), Entry("d", <<"app">>, "750"),
      Entry("d", <<"app", "sub">>, "750"),
      Entry("f", <<"app">>, "4755"), [Entry("f", <<"link">>, Keep) EXCEPT !.user = "root"],
      [Entry("f", <<"app">>, "600") EXCEPT !.got = 3],
      [Entry("f", <<"srv", "file">>, "600") EXCEPT !.got = 2],
      Entry("F", <<"none">>, "600"), [Entry("F", <<"srv", "file">>, "600") EXCEPT !.group = "root"],
      Entry("f", <<"none">>, "600"), [Entry("f", <<"app">>, "600") EXCEPT !.user = "nobody"],
      Entry("r", <<"srv">>, "755"), [Entry("r", <<"srv">>, Keep) EXCEPT !.user = "1"],
      Entry("r", <<>>, "711"), Entry("r", <<"none">>, "711"),
      Dev(<<"dev", "tty">>, 0, 1, 1, 2), Dev(<<"dev", "hda">>, 1, 1, 2, 2),
      [Dev(<<"dev", "hda">>, 0, 0, 0, 0) EXCEPT !.got = 9],
      Dev(<<"dev", "hdb">>, 3, 2, 3, 3), Dev(<<"dev", "hdc">>, 0, 1, 1, 1),
      Dev(<<"dev", "hdd">>, 4, 0, 0, 0),
      [Entry("p", <<"dev", "p">>, Keep) EXCEPT !.got = 5],
      Entry("x", <<"dev", "x">>, "600"), Entry("x", <<"app">>, "600"),
      Entry("d", <<"srv", "link">>, "750"), Entry("d", <<"srv", "none">>, "750"),
      [Blank EXCEPT !.kind = "comment", !.user = "www"], [Blank EXCEPT !.kind = "invalid", !.got = 1],
      Xattr("net_raw"), Xattr("sys_admin"), Xattr("bad") }

\* Of three lines, those that act on the same paths.
CoreLines == {l \in SomeLines :
    \/ l.kind = "xattr" /\ l.cap # "bad"
    \/ l.kind = "entry" /\ l.user # "nobody" /\ \/ l.type \in {"f", "F"}
                                                \/ l.type = "r" /\ l.name # <<"none">>
                                                \/ l.type = "d" /\ l.mode # Keep}

SomeTexts == {"", "garbage", "-1", "755", "777", "7777"} \union
    {l[field] : l \in SomeLines, field \in {"mode", "user", "group"}} \union
    {s[p].mode : s \in SomeSkeletons, p \in DOMAIN Base}

SomeTables == UNION {[1..n -> IF n <= 2 THEN SomeLines ELSE CoreLines] : n \in 0..MaxLines}
=============================================================================
