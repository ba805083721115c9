------------------------------ MODULE MCKConf ------------------------------
(***************************************************************************)
(* Five small sets of Config.in files.                                     *)
(***************************************************************************)
EXTENDS KConf

MCConst == {"y", "m", "n"}
MCStrOrder == <<"", "1", "2", "3", "m", "n", "s", "t", "y">>
MCNumber == [b \in {0, 10, 16} |-> ("1" :> 1 @@ "2" :> 2 @@ "3" :> 3)]
MCToStr == [t \in {"int", "hex"} |-> <<"1", "2", "3">>]
MCValid == [t \in {"unknown", "bool", "tristate", "int", "hex", "string"} |->
              IF t \in {"int", "hex"} THEN {"1", "2", "3"} ELSE {}]
MCSymbols == MCConst \cup {"K", "1", "2", "3", "s", "t", "M", "A", "B", "C", "D"}

Start == << <<"mainmenu">>, <<"config", "M">>, <<"type", "bool">>,
            <<"prompt", NoExpr>>, <<"option", "modules">> >>
Config(s, t, rest) == << <<"config", s>>, <<"type", t>> >> \o rest
Prompt == << <<"prompt", NoExpr>> >>
Needs(e) == << <<"depends", e>> >>
Default(s, e) == << <<"default", Sym(s), e>> >>
Within(a, b, e) == << <<"range", <<"range", a, b>>, e>> >>
Block(head, inside) == head \o << <<"block">> >> \o inside \o << <<"end">> >>

\* B and C wait for A; C forces B.
Plain == Start \o Config("A", "tristate", Prompt)
    \o Config("B", "bool", Prompt \o Needs(Sym("A")) \o Default("y", NoExpr))
    \o Config("C", "tristate", Prompt \o << <<"select", "A", NoExpr>> >>)
    \o Config("D", "tristate", Prompt \o Default("m", NoExpr) \o << <<"imply", "C", NoExpr>> >>)

\* A choice of A, B and C; C needs M, and D is below B.
ChoiceBlock(t, rest) == << <<"choice", "K">>, <<"prompt", NoExpr>>, <<"type", t>> >> \o rest
Radio == Start \o Block(ChoiceBlock("bool", Default("B", NoExpr)),
            Config("A", "bool", Prompt) \o Config("B", "bool", Prompt)
            \o Config("D", "bool", Prompt \o Needs(Sym("B")))
            \o Config("C", "bool", Prompt \o Needs(Sym("M"))))

\* A choice that can be switched off, or have several modules.
Modules == Start \o Block(ChoiceBlock("tristate", << <<"optional">> >>),
            Config("A", "tristate", Prompt) \o Config("B", "tristate", Prompt))
    \o Config("C", "tristate", Prompt \o Default("A", NoExpr))

\* Numbers and strings.
Numbers == Start \o Config("A", "int", Prompt \o Within("1", "2", NoExpr) \o Default("1", NoExpr))
    \o Config("B", "int", Within("A", "3", Sym("M")) \o Default("1", Sym("M")) \o Default("A", NoExpr))
    \o Config("C", "string", Prompt \o Needs(Comp("eq", "A", "2")) \o Default("s", NoExpr))

\* Menus: the first is hidden with C, which is in the second.
Menus == Start
    \o Block(<< <<"menu">>, <<"visible", Sym("C")>> >>,
             Config("A", "bool", Prompt \o << <<"menuconfig">> >>)
             \o Config("B", "bool", Prompt \o Needs(Sym("A")) \o << <<"select", "D", NoExpr>> >>))
    \o Block(<< <<"menu">> >>, Config("C", "bool", Prompt) \o Config("D", "bool", Prompt \o Default("C", NoExpr)))

MCTrees == {MenuFinalize(Fold(Parse, MenuInit, p)) : p \in {Plain, Radio, Modules, Numbers, Menus}}

MCTexts(tree, s) ==
    CASE tree.sym[s].type = "tristate" -> {"n", "m", "y"}
      [] tree.sym[s].type = "bool" -> {"n", "y"}
      [] tree.sym[s].type = "int" -> {"2", "3"}
      [] OTHER -> {"t"}
Named(tree) == {s \in DOMAIN tree.sym \ DOMAIN ConstTri : Declared(tree, s) /\ ~tree.sym[s].choice}

\* One line, some of which some are wrong, a line for every option.
MCEdits(tree) ==
    {<< <<"M", "y">>, <<"A", "3">>, <<"B", "1">>, <<"D", "y">> >>,
     SetToSeq({<<s, "y">> : s \in Named(tree)})}
MCSeeds(tree) == {<< <<"A", "m">> >>}

\* What is new becomes y where M and A do and m elsewhere, or n.
MCDice(tree) ==
    {[s \in DOMAIN tree.sym |-> IF tree.sym[s].choice THEN "A" ELSE IF s \in {"M", "A"} THEN v ELSE w] :
        <<v, w>> \in {<<2, 1>>, <<0, 0>>}}

\* In one of the sets an update of auto.conf is stopped after the first stamp, the
\* third, or the header.
MCStops(tree) == IF "range" \in {p.type : p \in ToSet(tree.prop)} THEN {1, 3} ELSE {}

MCModes == Made \cup Asking \cup Free
=============================================================================
