------------------------------- MODULE KTree -------------------------------
(***************************************************************************)
(* From the configuration files to the tree the front ends walk:           *)
(* conf_parse (zconf.y) reads a program, a sequence of statements, and     *)
(* menu_finalize rewrites what it built.  What the files say is kept       *)
(* beside what became of it, and the properties compare the two for every  *)
(* value the symbols can have.                                             *)
(***************************************************************************)
EXTENDS KSymbol

CONSTANT Programs    \* the configuration files

VARIABLES
    files,   \* the statements that are still to be parsed
    decl,    \* the tree as it was parsed
    k,       \* the tree
    ready    \* menu_finalize is done
vars == <<files, decl, k, ready>>

Init == files \in Programs /\ decl = MenuInit /\ k = MenuInit /\ ready = FALSE

ParseFiles ==
    /\ files # <<>>
    /\ decl' = Fold(Parse, MenuInit, files)
    /\ k' = decl'
    /\ files' = <<>>
    /\ UNCHANGED ready

Finalize ==
    /\ files = <<>> /\ ~ready
    /\ k' = MenuFinalize(k)
    /\ ready' = TRUE
    /\ UNCHANGED <<files, decl>>

Next == ParseFiles \/ Finalize
Spec == Init /\ [][Next]_vars

Names == {s \in Symbols : k.sym[s].type # "unknown"} \cup DOMAIN ConstTri
Warned == \E m \in DOMAIN k.menu : k.menu[m].sym # NoSym /\ SymWarned(k, k.menu[m].sym)

-----------------------------------------------------------------------------
(***************************************************************************)
(* The values the symbols can have.  Without modules there is no m, and    *)
(* the m of a condition is n: m is worth moduleTri there.                  *)
(***************************************************************************)
Variable == Names \ DOMAIN ConstTri
Tris == {f @@ ConstTri : f \in {g \in [Variable -> Tristate] :
            \A s \in Variable : g[s] = 1 => k.sym[s].type = "tristate" /\ g[k.modules] # 0}}
Valuation(f) == [s \in Names |-> [tri |-> f[s], str |-> TriName[f[s] + 1]]]
Value(e, f) == ExprCalcValue(e, Valuation(f), Typed(k))
Said(e, f) == ExprCalcValue(e, [Valuation(f) EXCEPT !["m"].tri = Lower(1, f[k.modules])],
                            Typed(k))

\* What the files require of what is in the node m, and of the property p.
RECURSIVE SaidAround(_, _, _)
SaidAround(m, s, f) ==
    LET u == decl.menu[m].parent
        c == decl.menu[u].sym
        mixed == k.sym[c].type = "tristate" /\ k.sym[s].type # "tristate" /\ k.sym[s].chval
        here == Said(decl.menu[m].dep, f)
    IN  IF u = 0 THEN here
        ELSE IF IsChoice(decl, c)
        THEN Lower(here, IF s # NoSym /\ mixed /\ f[c] = 1 THEN 0 ELSE f[c])
        ELSE Lower(here, Lower(SaidAround(u, s, f), Said(PromptVisible(decl, u), f)))

SaidOf(p, f) == Lower(Said(decl.prop[p].vis, f),
                      SaidAround(decl.prop[p].menu, decl.prop[p].sym, f))

\* To an option that is not tristate, m is as good as y (symbol.c:234).
Sharp(s, v) == IF s = NoSym \/ k.sym[s].type = "tristate" THEN v
               ELSE IF v = 0 THEN 0 ELSE 2

-----------------------------------------------------------------------------
(***************************************************************************)
(* Whatever menu_finalize does to a condition, it says what the files say: *)
(* the options own "depends on" and "if" and those of every menu, if and   *)
(* choice around it, for every value of the symbols.                       *)
(***************************************************************************)
ConditionsKept ==
    ready => \A p \in DOMAIN decl.prop, f \in Tris :
        LET s == decl.prop[p].sym
        IN  Sharp(s, Value(k.prop[p].vis, f)) = Sharp(s, SaidOf(p, f))

(***************************************************************************)
(* A symbol is forced on exactly when the files have someone who selects   *)
(* it, is on, and whose "if" and "depends on" hold, or when it is a choice *)
(* that cannot be switched off.                                            *)
(***************************************************************************)
SelectsNoted ==
    ready /\ ~Warned => \A s \in Names, f \in Tris :
        LET selects == {p \in DOMAIN decl.prop :
                            decl.prop[p].type = "select" /\ decl.prop[p].expr = Sym(s)}
            forced == \E p \in selects : f[decl.prop[p].sym] # 0 /\ SaidOf(p, f) # 0
            shown == \E p \in DOMAIN decl.prop :
                        /\ decl.prop[p].sym = s /\ decl.prop[p].type \in Texts
                        /\ SaidOf(p, f) # 0
            rev == k.sym[s].rev
        IN  (rev # NoExpr /\ Value(rev, f) # 0)
                <=> (forced \/ (IsChoice(k, s) /\ ~k.sym[s].optional /\ shown))

(***************************************************************************)
(* The same of both: what the files say of when something holds.           *)
(***************************************************************************)
MeaningKept == ConditionsKept /\ SelectsNoted

(***************************************************************************)
(* Moving entries into submenus and out of ifs loses none, doubles none    *)
(* and keeps them in the order of the files; every node knows its parent.  *)
(***************************************************************************)
RECURSIVE Walk(_)
Walk(m) == <<m>> \o Fold(LAMBDA acc, i : acc \o Walk(i), <<>>, k.menu[m].kids)
OrderKept ==
    /\ Walk(1) = [i \in DOMAIN k.menu |-> i]
    /\ \A m \in DOMAIN k.menu : \A i \in ToSet(k.menu[m].kids) : k.menu[i].parent = m

(***************************************************************************)
(* A condition that negates something that can be m.  expr_trans_compare   *)
(* reads "!FOO is not n" as "FOO is n", which says more when FOO is m.     *)
(***************************************************************************)
RECURSIVE NegatesM(_, _)
NegatesM(e, f) ==
    /\ e # NoExpr /\ e[1] \in Logical \cup {"not"}
    /\ \E i \in 2..Len(e) : \/ NegatesM(e[i], f)
                            \/ e[1] = "not" /\ Value(e[i], f) = 1

(***************************************************************************)
(* An entry is put into the submenu of an option only when it is never     *)
(* visible while the option is neither on nor offered itself (menu.c:463): *)
(* a front end descends into nothing else (menu_is_visible).               *)
(***************************************************************************)
Reachable(m, f) ==
    LET u == k.menu[m].parent
        s == k.menu[u].sym
    IN  s # NoSym /\ k.menu[m].prompt # 0 /\ Value(PromptVisible(k, m), f) # 0
            => f[s] # 0 \/ Value(PromptVisible(k, u), f) # 0
SubmenuReachable ==
    ready => \A m \in 2..Len(k.menu), f \in Tris :
        \/ \E i \in {m, k.menu[m].parent} : NegatesM(PromptVisible(k, i), f)
        \/ Reachable(m, f)

(***************************************************************************)
(* The values of a choice are the options directly in it, each once and in *)
(* the order of the files, and each is marked as a value of that choice    *)
(* and has a type.  (In an if, a value without a type gets none, and is    *)
(* warned about.)                                                          *)
(***************************************************************************)
ChoiceValuesKnown ==
    ready /\ ~Warned => \A m \in DOMAIN k.menu :
        LET c == k.menu[m].sym
            within == SelectSeq(k.menu[m].kids, LAMBDA i : k.menu[i].sym # NoSym)
        IN  IsChoice(k, c) =>
                /\ k.sym[c].members = [i \in DOMAIN within |-> k.menu[within[i]].sym]
                /\ \A s \in ToSet(k.sym[c].members) :
                        k.sym[s].chval /\ k.sym[s].type # "unknown"

(***************************************************************************)
(* The tree of menus that menu_finalize makes of the files.                *)
(***************************************************************************)
StructureKept == OrderKept /\ SubmenuReachable /\ ChoiceValuesKnown

(***************************************************************************)
(* "recursive dependency detected!" is printed only when there are symbols *)
(* none of which can be calculated before another of them, the values of a *)
(* choice being one with it; and it is printed for every such set that has *)
(* no choice in it.  (A choice is not marked while its values are checked, *)
(* so what needs it through one of them is found only from some starts.)   *)
(***************************************************************************)
NeedsToKnow(s) ==
    LET props == {p \in ToSet(k.sym[s].props) : k.prop[p].type \notin {"choice", "select"}}
    IN  ToSet(SymbolsIn(k.sym[s].rev)) \cup UNION {ToSet(SymbolsIn(k.prop[p].vis)) : p \in props}
        \cup UNION {ToSet(SymbolsIn(k.prop[p].expr)) :
                        p \in {q \in props : k.prop[q].type = "default" /\ ~k.sym[s].choice}}
Together(s) == IF k.sym[s].chval THEN ChoiceOf(k, s) ELSE s
WithValues(s) ==
    {Together(t) : t \in NeedsToKnow(s)}
    \cup UNION {{Together(t) : t \in NeedsToKnow(v) \ {s}} : v \in ToSet(k.sym[s].members)}
Cyclic(nodes, Edges(_)) == \E S \in SUBSET nodes \ {{}} : \A s \in S : Edges(s) \cap S # {}

RecursionFound ==
    ready => /\ Recursive(k) # {} => Cyclic({Together(s) : s \in Names}, WithValues)
             /\ Cyclic({s \in Names : ~k.sym[s].choice}, NeedsToKnow) => Recursive(k) # {}

-----------------------------------------------------------------------------
(***************************************************************************)
(* The grammar of conditions (zconf.y), for what is printed: || binds      *)
(* least, then &&, then !.                                                 *)
(***************************************************************************)
Depth(ws, i) == Len(SelectSeq(SubSeq(ws, 1, i), LAMBDA w : w = "("))
                - Len(SelectSeq(SubSeq(ws, 1, i), LAMBDA w : w = ")"))
LastTop(ws, w) ==
    LET at == {i \in DOMAIN ws : ws[i] = w /\ Depth(ws, i) = 0}
    IN  IF at = {} THEN 0 ELSE CHOOSE i \in at : \A j \in at : j <= i

RECURSIVE Read(_)
Read(ws) ==
    LET or == LastTop(ws, "||")
        and == LastTop(ws, "&&")
        split(t, i) == <<t, Read(SubSeq(ws, 1, i - 1)), Read(SubSeq(ws, i + 1, Len(ws)))>>
    IN  CASE or # 0 -> split("or", or)
          [] or = 0 /\ and # 0 -> split("and", and)
          [] or = 0 /\ and = 0 /\ ws[1] = "!" -> Not(Read(Tail(ws)))
          [] or = 0 /\ and = 0 /\ ws[1] = "(" -> Read(SubSeq(ws, 2, Len(ws) - 1))
          [] Len(ws) = 3 /\ ws[2] \in {RelationWord[r] : r \in Relation} ->
                Comp(CHOOSE r \in Relation : RelationWord[r] = ws[2], ws[1], ws[3])
          [] OTHER -> Sym(ws[1])

(***************************************************************************)
(* The "Depends on" of the help text reads back as the same condition: the *)
(* parentheses expr_compare_type asks for are enough.                      *)
(***************************************************************************)
PrintedReadsBack ==
    ready => \A e \in {k.prop[p].vis : p \in DOMAIN k.prop} :
        LET again == Read(ExprPrint(e, "none"))
        IN  \A f \in Tris : Value(again, f) = Value(e, f)
=============================================================================
