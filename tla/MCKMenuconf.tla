---------------------------- MODULE MCKMenuconf ----------------------------
(***************************************************************************)
(* Sessions of a few keys on four small trees.                             *)
(***************************************************************************)
EXTENDS KMenuconf

MCConst == {"y", "m", "n"}
MCStrOrder == <<"", "1", "2", "3", "m", "n", "y">>
MCNumber == [b \in {0, 10, 16} |-> ("1" :> 1 @@ "2" :> 2 @@ "3" :> 3)]
MCToStr == [t \in {"int", "hex"} |-> <<"1", "2", "3">>]
MCValid == [t \in {"unknown", "bool", "tristate", "int", "hex", "string"} |->
              IF t \in {"int", "hex"} THEN {"1", "2", "3"} ELSE {}]
MCSymbols == MCConst \cup {"K", "1", "2", "3", "M", "A", "B", "C", "D"}
MCAlphabet == <<"A", "B", "C", "D", "M">>

Start0 == << <<"mainmenu">>, <<"config", "M">>, <<"type", "bool">>,
            <<"prompt", NoExpr>>, <<"option", "modules">> >>
Config(s, t, rest) == << <<"config", s>>, <<"type", t>> >> \o rest
Prompt == << <<"prompt", NoExpr>> >>
Needs(e) == << <<"depends", e>> >>
Default(s, e) == << <<"default", Sym(s), e>> >>
Block(head, inside) == head \o << <<"block">> >> \o inside \o << <<"end">> >>

\* A menu that is hidden with C; A opens a menu of its own.
Menus == Start0
    \o Block(<< <<"menu">>, <<"visible", Sym("C")>> >>,
             Config("A", "bool", Prompt \o << <<"menuconfig">> >>)
             \o Config("B", "bool", Prompt \o Needs(Sym("A")) \o << <<"select", "D", NoExpr>> >>))
    \o Block(<< <<"menu">> >>, Config("C", "bool", Prompt) \o Config("D", "bool", Prompt \o Default("C", NoExpr)))

\* A choice with a submenu below one of its values.
ChoiceBlock(t, rest) == << <<"choice", "K">>, <<"prompt", NoExpr>>, <<"type", t>> >> \o rest
Radios == Start0 \o Block(ChoiceBlock("tristate", <<>>),
            Config("A", "tristate", Prompt) \o Config("B", "tristate", Prompt)
            \o Config("D", "bool", Prompt \o Needs(Sym("B"))))
          \o Config("C", "tristate", Prompt \o Default("A", NoExpr))

\* A is hidden unless M, but y with B below it; C is a number.
Numbers == Start0
    \o Config("A", "bool", << <<"prompt", Sym("M")>> >> \o Default("y", NoExpr))
    \o Config("B", "tristate", Prompt \o Needs(Sym("A")))
    \o Config("C", "int", Prompt \o << <<"range", <<"range", "1", "2">>, Sym("B")>> >> \o Default("1", NoExpr))

\* A menu without any entry.
Nothing == << <<"mainmenu">> >> \o Config("M", "bool", << <<"option", "modules">> >>)
    \o Config("A", "bool", << <<"prompt", Sym("M")>> >>)

Tree(parsed) == MenuFinalize(Fold(Parse, MenuInit, parsed))
MCTrees == {Tree(p) : p \in {Menus, Radios, Numbers, Nothing}}
Few == << <<"M", "y">>, <<"A", "n">>, <<"C", "y">> >>
MCFiles(tree) == {(".config" :> Few @@ "b" :> Missing), (".config" :> Missing @@ "b" :> Few)}
MCSingles(tree) == {FALSE} \cup {\E m \in 2..Len(tree.menu) : tree.menu[m].sym = NoSym}
MCTexts(tree, s) == {"2", "3"}
MCSearches(tree) == {[all |-> {"A", "B", "C"} , exact |-> {"B"}]}
=============================================================================
