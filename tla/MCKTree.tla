------------------------------ MODULE MCKTree ------------------------------
(***************************************************************************)
(* Small configuration files: M is the modules option, P and Q are         *)
(* tristate and boolean options the others depend on.                      *)
(***************************************************************************)
EXTENDS KTree

MCConst == {"y", "m", "n"}
MCStrOrder == <<"m", "n", "y">>
MCNumber == [b \in {0, 10, 16} |-> <<>>]
MCSymbols == MCConst \cup {"M", "P", "Q", "A", "B", "C"}
MCToStr == [t \in {"int", "hex"} |-> <<>>]
MCValid == [t \in {"unknown", "bool", "tristate", "int", "hex", "string"} |-> {}]

Begin == << <<"mainmenu">>, <<"config", "M">>, <<"type", "bool">>,
            <<"prompt", NoExpr>>, <<"option", "modules">> >>
Depends(d) == IF d = NoExpr THEN <<>> ELSE << <<"depends", d>> >>
Config(s, t, cond, d) ==
    << <<"config", s>>, <<"type", t>>, <<"prompt", cond>> >> \o Depends(d)
Hidden(s, t, d) == << <<"config", s>>, <<"type", t>> >> \o Depends(d)
Base == Begin \o Config("P", "tristate", NoExpr, NoExpr)
If(e, inside) == << <<"if", e>> >> \o inside \o << <<"end">> >>
Menu(v, d, inside) ==
    << <<"menu">> >> \o (IF v = NoExpr THEN <<>> ELSE << <<"visible", v>> >>)
    \o Depends(d) \o << <<"block">> >> \o inside \o << <<"end">> >>

Tests(s) == {Sym(s), Not(Sym(s))} \cup
            {Comp(t, s, c) : t \in {"eq", "neq"}, c \in MCConst}
Pairs(S) == {<<t, a, b>> : t \in Logical, a \in S, b \in S}
Core == {Sym("P"), Not(Sym("P")), Comp("eq", "P", "m"), Comp("neq", "P", "n"),
         Sym("m"), Sym("Q")}

Few == {Sym("P"), Comp("neq", "P", "n"), Comp("neq", "P", "y"), Sym("Q")}

\* Conditions of up to four tests over P and Q, around and on an option.
Conditions ==
    {Base \o Config("Q", "bool", NoExpr, NoExpr) \o If(e1, Config("A", t, NoExpr, e2)) :
        t \in {"bool", "tristate"}, e1 \in Few, e2 \in Pairs(Core)}
    \cup
    {Base \o Config("Q", "bool", NoExpr, NoExpr) \o If(e1, Config("A", "bool", NoExpr, e2)) :
        e1 \in Pairs(Few), e2 \in {<<"or", a, Sym("Q")>> : a \in Few}}
    \cup
    {Base \o Config("Q", "bool", NoExpr, NoExpr) \o Config("A", t, e, NoExpr) :
        t \in {"tristate"}, e \in Pairs(Tests("P") \cup Tests("Q"))
            \cup {Not(e2) : e2 \in Pairs(Tests("P") \cup Tests("Q"))}}

\* An option A, and options B and C after it that may go into its submenu.
Needs == {NoExpr, Not(Sym("P")), Comp("eq", "P", "n"), Comp("neq", "P", "n")}
On(s) == {Sym(s), Comp("neq", s, "n"), Not(Sym(s)), <<"or", Sym(s), Sym("P")>>,
          <<"and", <<"or", Sym(s), Sym("P")>>, Not(Sym("P"))>>,
          <<"and", <<"or", Sym(s), Sym("m")>>, Comp("eq", "P", "n")>>}
Around(w, inside) ==
    CASE w = "if" -> If(Sym("P"), inside)
      [] w = "menu" -> Menu(NoExpr, Sym("P"), inside)
      [] w = "hiddenmenu" -> Menu(Comp("neq", "P", "n"), NoExpr, inside)
      [] w = "none" -> inside
Submenus ==
    {Base \o Around(w1, Config("A", ta, NoExpr, da) \o
                Around(w2, Config("B", tb, cb, db)
                           \o (IF hc THEN Hidden("C", "bool", dc)
                               ELSE Config("C", "bool", NoExpr, dc)))) :
        ta \in {"tristate"}, tb \in {"tristate"}, cb \in {NoExpr},
        da \in Needs \ {NoExpr}, db \in {NoExpr} \cup On("A"), dc \in On("A") \cup {Sym("B")},
        hc \in BOOLEAN, w1 \in {"none", "menu"}, w2 \in {"none", "if", "hiddenmenu"}}

\* A choice C between A and B.
ChoiceFiles ==
    {Base \o << <<"choice", "C">>, <<"prompt", cc>> >>
        \o (IF tc = "unknown" THEN <<>> ELSE << <<"type", tc>> >>)
        \o (IF opt THEN << <<"optional">> >> ELSE <<>>) \o << <<"default", Sym("B"), NoExpr>> >>
        \o << <<"block">> >>
        \o Config("A", ta, NoExpr, NoExpr) \o Around(w, Config("B", tb, NoExpr, db))
        \o << <<"end">> >> :
        tc \in {"unknown", "bool", "tristate"}, opt \in BOOLEAN, cc \in {NoExpr, Sym("P")},
        ta \in {"bool", "tristate"}, tb \in {"bool", "tristate", "unknown"},
        db \in {NoExpr, Sym("P"), Sym("A"), Sym("m")}, w \in {"none", "if"}}

\* A and B select or imply Q.
Selects ==
    {Base \o Config("Q", tq, NoExpr, NoExpr)
        \o Around(w, Config("A", ta, NoExpr, d) \o << <<how, "Q", c>> >>)
        \o Config("B", "tristate", NoExpr, NoExpr) \o << <<"select", "Q", c2>> >> :
        tq \in {"bool", "tristate"}, ta \in {"bool", "tristate"}, w \in {"none", "if", "menu"},
        d \in Needs, how \in {"select", "imply"}, c \in Needs \cup {Sym("m")},
        c2 \in {NoExpr, Comp("neq", "A", "n")}}

\* Three options in a row or in a choice that name each other.
Links(a, b) == {<<"depends", Sym(b)>>, <<"select", b, NoExpr>>, <<"default", Sym(b), NoExpr>>,
                <<"default", Sym("y"), Sym(b)>>, <<"imply", b, NoExpr>>}
Loops ==
    {Begin \o Config("A", "bool", NoExpr, NoExpr) \o <<l1>>
        \o Config("B", "bool", NoExpr, NoExpr) \o <<l2>>
        \o Config("P", "bool", NoExpr, NoExpr) \o <<l3>> :
        l1 \in Links("A", "B"), l2 \in Links("B", "A") \cup Links("B", "P"), l3 \in Links("P", "A")}
    \cup
    {Begin \o << <<"choice", "C">>, <<"prompt", NoExpr>>, <<"type", "bool">>, <<"block">> >>
        \o Config("A", "bool", NoExpr, d1) \o Config("B", "bool", NoExpr, d2) \o << <<"end">> >>
        \o Config("P", "bool", NoExpr, d3) \o <<l>> :
        d1 \in {NoExpr, Sym("P"), Sym("B")}, d2 \in {NoExpr, Sym("A"), Sym("P")},
        d3 \in {NoExpr, Sym("A"), Sym("C")}, l \in {<<"select", "M", NoExpr>>, <<"select", "A", NoExpr>>}}

MCPrograms == Loops \cup Conditions \cup Submenus \cup ChoiceFiles \cup Selects
=============================================================================
