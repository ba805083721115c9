------------------------------- MODULE KMenu -------------------------------
(***************************************************************************)
(* The tree of menus and symbols that support/kconfig builds from the      *)
(* Config.in files: the calls of the parser (zconf.y) on menu.c, and       *)
(* menu_finalize, which hands the conditions of menus, ifs and choices     *)
(* down to what is inside them and makes the submenus.                     *)
(*                                                                         *)
(* k.menu[i]   a node, numbered in the order of the files (1 is the root): *)
(*             its symbol ("" for a menu, an if or a comment), its parent, *)
(*             the nodes of its list, its prompt (a property, or 0), its   *)
(*             "visible if" and its "depends on"                           *)
(* k.prop[p]   a property, with its type, its expression, its condition,   *)
(*             its node (0 when it has none) and its symbol                *)
(* k.sym[s]    a symbol: type, flags, its properties in order, and what    *)
(*             selects it (rev), implies it and encloses it (dir); for a   *)
(*             choice, its values (members)                                *)
(***************************************************************************)
EXTENDS KExpr, FiniteSets

CONSTANTS
    Symbols,   \* the names in the files, with y, m, n and other constants
    ValidFor   \* ValidFor[t] is the set of names that are values of type t

NoSym == ""
Typed(k) == [s \in DOMAIN k.sym |-> k.sym[s].type]
Texts == {"prompt", "menu", "comment"}     \* the properties with a text

MenuInit ==
    [menu |-> <<[sym |-> NoSym, parent |-> 0, kids |-> <<>>, prompt |-> 0,
                 vis |-> NoExpr, dep |-> NoExpr]>>,
     prop |-> <<>>,
     sym |-> [s \in Symbols |->
                [type |-> "unknown",
                 optional |-> FALSE, choice |-> FALSE, chval |-> FALSE,
                 auto |-> FALSE, allnoY |-> FALSE, props |-> <<>>,
                 members |-> <<>>, rev |-> NoExpr, implied |-> NoExpr,
                 dir |-> NoExpr]],
     modules |-> NoSym, cur |-> 1, top |-> 1]

RECURSIVE Ancestors(_, _)
Ancestors(k, m) ==
    IF k.menu[m].parent = 0 THEN <<>>
    ELSE <<k.menu[m].parent>> \o Ancestors(k, k.menu[m].parent)

(***************************************************************************)
(* A prompt gets the "visible if" of all the menus around it.              *)
(***************************************************************************)
MenuAddProp(k, type, expr, dep) ==
    LET n == Len(k.prop) + 1
        s == k.menu[k.cur].sym
        visible == IF type # "prompt" THEN dep
                   ELSE Fold(LAMBDA e, m : ExprAllocAnd(e, k.menu[m].vis),
                                 dep, Ancestors(k, k.cur))
        prop == [type |-> type, expr |-> expr, vis |-> visible,
                 menu |-> k.cur, sym |-> s]
    IN  [k EXCEPT !.prop = Append(@, prop),
                  !.sym = IF s = NoSym THEN @
                          ELSE [@ EXCEPT ![s].props = Append(@, n)],
                  !.menu[k.cur].prompt = IF type \in Texts THEN n ELSE @]

MenuAddSymbol(k, type, s, dep) == MenuAddProp(k, type, Sym(s), dep)

MenuAddEntry(k, s) ==
    LET n == Len(k.menu) + 1
        node == [sym |-> s, parent |-> k.top, kids |-> <<>>, prompt |-> 0,
                 vis |-> NoExpr, dep |-> NoExpr]
        added == [k EXCEPT !.menu = [Append(@, node) EXCEPT
                                        ![k.top].kids = Append(@, n)],
                           !.cur = n]
    IN  IF s = NoSym THEN added ELSE MenuAddSymbol(added, "symbol", s, NoExpr)

MenuAddMenu(k) == [k EXCEPT !.top = k.cur]
MenuEndMenu(k) == [k EXCEPT !.top = k.menu[k.top].parent]
MenuAddDep(k, e) == [k EXCEPT !.menu[k.cur].dep = ExprAllocAnd(@, e)]
MenuAddVisibility(k, e) == [k EXCEPT !.menu[k.cur].vis = ExprAllocAnd(@, e)]

\* Only the first type counts.
MenuSetType(k, type) ==
    [k EXCEPT !.sym[k.menu[k.cur].sym].type = IF @ = "unknown" THEN type ELSE @]

MenuAddOption(k, option) ==
    LET s == k.menu[k.cur].sym
    IN  CASE option = "modules" -> [k EXCEPT !.modules = s]
          [] option = "allnoconfig_y" -> [k EXCEPT !.sym[s].allnoY = TRUE]

(***************************************************************************)
(* One statement or option of a Config.in file.  An end closes what the    *)
(* last block opened.                                                      *)
(***************************************************************************)
Parse(k, st) ==
    CASE st[1] = "config" -> [MenuAddEntry(k, st[2]) EXCEPT !.sym[st[2]].optional = TRUE]
      [] st[1] = "menuconfig" -> [k EXCEPT !.prop[k.menu[k.cur].prompt].type = "menu"]
      [] st[1] = "choice" ->
            MenuAddProp(MenuAddEntry([k EXCEPT !.sym[st[2]].choice = TRUE,
                                               !.sym[st[2]].auto = TRUE], st[2]),
                        "choice", NoExpr, NoExpr)
      [] st[1] = "optional" -> [k EXCEPT !.sym[k.menu[k.cur].sym].optional = TRUE]
      [] st[1] = "if" -> MenuAddMenu(MenuAddDep(MenuAddEntry(k, NoSym), st[2]))
      [] st[1] = "menu" -> MenuAddProp(MenuAddEntry(k, NoSym), "menu", NoExpr, NoExpr)
      [] st[1] = "comment" -> MenuAddProp(MenuAddEntry(k, NoSym), "comment", NoExpr, NoExpr)
      [] st[1] = "mainmenu" -> MenuAddProp(k, "menu", NoExpr, NoExpr)
      [] st[1] = "block" -> MenuAddMenu(k)
      [] st[1] = "end" -> MenuEndMenu(k)
      [] st[1] = "type" -> MenuSetType(k, st[2])
      [] st[1] = "prompt" -> MenuAddProp(k, "prompt", NoExpr, st[2])
      [] st[1] \in {"default", "range"} -> MenuAddProp(k, st[1], st[2], st[3])
      [] st[1] \in {"select", "imply"} -> MenuAddSymbol(k, st[1], st[2], st[3])
      [] st[1] = "depends" -> MenuAddDep(k, st[2])
      [] st[1] = "visible" -> MenuAddVisibility(k, st[2])
      [] st[1] = "option" -> MenuAddOption(k, st[2])

-----------------------------------------------------------------------------
(***************************************************************************)
(* m without modules is n.                                                 *)
(***************************************************************************)
RECURSIVE RewriteM(_, _)
RewriteM(e, modules) ==
    CASE e = Sym("m") -> ExprAllocAnd(e, Sym(modules))
      [] e # NoExpr /\ e[1] = "not" -> Not(RewriteM(e[2], modules))
      [] e # NoExpr /\ e[1] \in Logical ->
            <<e[1], RewriteM(e[2], modules), RewriteM(e[3], modules)>>
      [] OTHER -> e

PromptVisible(k, m) ==
    IF k.menu[m].prompt = 0 THEN NoExpr ELSE k.prop[k.menu[m].prompt].vis

IsChoice(k, s) == s # NoSym /\ k.sym[s].choice

ChoiceTypes(k, p) ==
    LET c == k.menu[p].sym
        named == SelectSeq(k.menu[p].kids, LAMBDA m : k.menu[m].sym # NoSym)
        typed == SelectSeq(named, LAMBDA m : k.sym[k.menu[m].sym].type # "unknown")
        type == IF k.sym[c].type = "unknown" /\ typed # <<>>
                THEN k.sym[k.menu[typed[1]].sym].type ELSE k.sym[c].type
        all == {c} \cup {k.menu[named[i]].sym : i \in DOMAIN named}
    IN  [k EXCEPT !.sym = [s \in DOMAIN k.sym |->
            IF s \in all /\ k.sym[s].type = "unknown"
            THEN [k.sym[s] EXCEPT !.type = type] ELSE k.sym[s]]]

(***************************************************************************)
(* The condition of a node, with what encloses it, goes to the node and    *)
(* to each property the node's symbol got there; a select or an imply is   *)
(* noted at its target.                                                    *)
(***************************************************************************)
Simplified(k, outer, e) ==
    ExprEliminateDups(ExprAllocAnd(outer, ExprTransform(RewriteM(e, k.modules), Typed(k))),
                      Typed(k))

\* A mutant: a select counts whatever its condition.
NoteConditionBare(k, p, dep) ==
    LET prop == k.prop[p]
    IN  IF prop.type # "select" THEN [k EXCEPT !.prop[p].vis = dep]
        ELSE [k EXCEPT !.prop[p].vis = dep,
                       !.sym[prop.expr[2]].rev = ExprAllocOr(@, Sym(prop.sym))]

\* The property p has the condition dep.
NoteCondition(k, p, dep) ==
    LET prop == k.prop[p]
        at == IF prop.type = "select" THEN "rev" ELSE "implied"
        set == [k EXCEPT !.prop[p].vis = dep]
    IN  IF prop.type \notin {"select", "imply"} THEN set
        ELSE [set EXCEPT !.sym[prop.expr[2]][at] =
                    ExprAllocOr(@, ExprAllocAnd(Sym(prop.sym), dep))]

PropagateProp(k, p, base) ==
    LET s == k.prop[p].sym
        sharp(e) == IF s # NoSym /\ k.sym[s].type # "tristate" THEN ExprTransBool(e, Typed(k))
                    ELSE e
    IN  NoteCondition(k, p, sharp(Simplified(k, base, k.prop[p].vis)))

Propagate(k, m, parentdep) ==
    LET node == k.menu[m]
        props == IF node.sym # NoSym THEN k.sym[node.sym].props
                 ELSE IF node.prompt = 0 THEN <<>> ELSE <<node.prompt>>
        here == SelectSeq(props, LAMBDA p : k.prop[p].menu = m)
        given(base) == Fold(LAMBDA acc, p : PropagateProp(acc, p, base),
                            [k EXCEPT !.menu[m].dep = base], here)
    IN  given(Simplified(k, parentdep, node.dep))

PropagateAll(k, p) ==
    LET node == k.menu[p]
        parentdep == IF IsChoice(k, node.sym) THEN Sym(node.sym)
                     ELSE IF node.prompt # 0 THEN PromptVisible(k, p) ELSE node.dep
    IN  Fold(LAMBDA acc, m : Propagate(acc, m, parentdep), k, node.kids)

(***************************************************************************)
(* Does the node m belong into the submenu of the symbol s before it?      *)
(***************************************************************************)
NotNo(k, e) ==
    ExprEliminateDups(ExprTransform(ExprTransCompare(e, "neq", "n"), Typed(k)), Typed(k))

\* A mutant: whatever names the symbol belongs to it.
BelongsToAny(k, m, s, base) ==
    ExprContainsSymbol(IF k.menu[m].prompt # 0 THEN PromptVisible(k, m) ELSE k.menu[m].dep, s)

BelongsTo(k, m, s, base) ==
    LET dep == IF k.menu[m].prompt # 0 THEN PromptVisible(k, m) ELSE k.menu[m].dep
    IN  /\ ExprContainsSymbol(dep, s)
        /\ \/ ExprDependsSymbol(dep, s)
           \/ ExprIsYes(ExprEliminateEq(<<NotNo(k, dep), base>>)[2])

(***************************************************************************)
(* A value of the choice c.  A value that is not tristate in a choice that *)
(* is needs the choice to be y.                                            *)
(***************************************************************************)
ChoiceValue(k, c, m) ==
    LET s == k.menu[m].sym
        yes == Comp("eq", c, "y")
        dependent == k.sym[c].type = "tristate" /\ k.sym[s].type # "tristate"
        needs == IF ~dependent THEN k
                 ELSE [k EXCEPT !.menu[m].dep = ExprAllocAnd(yes, @),
                                !.prop = [p \in DOMAIN k.prop |->
                                    IF k.prop[p].sym = s /\ k.prop[p].menu = m
                                    THEN [k.prop[p] EXCEPT !.vis = ExprAllocAnd(yes, @)]
                                    ELSE k.prop[p]]]
        valued == MenuAddSymbol([needs EXCEPT !.cur = m], "choice", c, NoExpr)
    IN  [valued EXCEPT !.sym[s].chval = TRUE, !.sym[c].members = Append(@, s)]

(***************************************************************************)
(* What is inside an if, or under a symbol without a prompt, moves up.     *)
(***************************************************************************)
Flatten(k, p, i) ==
    LET m == k.menu[p].kids[i]
        up == k.menu[m].kids
    IN  [k EXCEPT !.menu = [j \in DOMAIN k.menu |->
            CASE j = p -> [k.menu[p] EXCEPT !.kids =
                                SubSeq(@, 1, i) \o up \o SubSeq(@, i + 1, Len(@))]
              [] j = m -> [k.menu[m] EXCEPT !.kids = <<>>]
              [] j \in ToSet(up) -> [k.menu[j] EXCEPT !.parent = p]
              [] OTHER -> k.menu[j]]]

RECURSIVE Gather(_, _, _)
Gather(k, p, i) ==
    IF i > Len(k.menu[p].kids) THEN k
    ELSE LET m == k.menu[p].kids[i]
             c == k.menu[p].sym
             s == k.menu[m].sym
             valued == IF IsChoice(k, c) /\ s # NoSym /\ ~k.sym[s].chval
                       THEN ChoiceValue(k, c, m) ELSE k
         IN  Gather(IF k.menu[m].kids # <<>> /\ k.menu[m].prompt = 0
                    THEN Flatten(valued, p, i) ELSE valued, p, i + 1)

(***************************************************************************)
(* menu_finalize of the node at position i of the list of the node u.      *)
(* Submenu takes the nodes that follow it, as long as they belong to it.   *)
(***************************************************************************)
RECURSIVE FinalizeAt(_, _, _), FinalizeKids(_, _, _), Submenu(_, _, _, _, _)

FinalizeKids(k, p, i) ==
    IF i > Len(k.menu[p].kids) THEN k
    ELSE FinalizeKids(FinalizeAt(k, p, i), p, i + 1)

Submenu(k, u, i, j, base) ==
    LET p == k.menu[u].kids[i]
        kids == k.menu[u].kids
    IN  IF j <= Len(kids) /\ BelongsTo(k, kids[j], k.menu[p].sym, base)
        THEN Submenu([FinalizeAt(k, u, j) EXCEPT !.menu[kids[j]].parent = p],
                     u, i, j + 1, base)
        ELSE [k EXCEPT !.menu[p].kids = SubSeq(kids, i + 1, j - 1),
                       !.menu[u].kids = SubSeq(kids, 1, i) \o SubSeq(kids, j, Len(kids))]

\* A choice that is not optional is at least m when it is visible.
ChoiceMode(k, p) ==
    LET s == k.menu[p].sym
    IN  IF s = NoSym \/ k.menu[p].prompt = 0 \/ k.sym[s].optional THEN k
        ELSE [k EXCEPT !.sym[s].rev =
                ExprAllocOr(@, ExprAllocAnd(PromptVisible(k, p), Sym("m")))]

FinalizeList(k, p) ==
    LET typed == IF IsChoice(k, k.menu[p].sym) THEN ChoiceTypes(k, p) ELSE k
    IN  FinalizeKids(PropagateAll(typed, p), p, 1)

FinalizeAt(k, u, i) ==
    LET p == k.menu[u].kids[i]
        s == k.menu[p].sym
        within(grown) == [grown EXCEPT !.sym[s].dir = ExprAllocOr(@, grown.menu[p].dep)]
        inner == IF k.menu[p].kids # <<>> THEN FinalizeList(k, p)
                 ELSE IF s # NoSym
                 THEN within(Submenu(k, u, i, i + 1, NotNo(k, PromptVisible(k, p))))
                 ELSE k
    IN  ChoiceMode(Gather(inner, p, 1), p)

MenuFinalize(k) ==
    LET mods == [k EXCEPT !.modules = IF @ = NoSym THEN "n" ELSE @]
    IN  IF k.menu[1].kids = <<>> THEN mods ELSE Gather(FinalizeList(mods, 1), 1, 1)

(***************************************************************************)
(* The configurations conf_parse warns about.                              *)
(***************************************************************************)
ValidateNumber(k, s, c) ==
    k.sym[c].type \in {"int", "hex"}
    \/ (k.sym[c].type = "unknown" /\ c \in ValidFor[k.sym[s].type])

SymWarned(k, s) ==
    LET type == k.sym[s].type
        badProp(p) ==
            CASE p.type = "default" /\ type \in {"int", "hex"} ->
                    p.expr[1] # "sym" \/ ~ValidateNumber(k, s, p.expr[2])
              [] p.type = "default" /\ type = "string" -> p.expr[1] # "sym"
              [] p.type = "default" /\ k.sym[s].choice ->
                    p.expr[2] \notin ToSet(k.sym[s].members)
              [] p.type \in {"select", "imply"} ->
                    \/ type \notin {"bool", "tristate"}
                    \/ k.sym[p.expr[2]].type \notin {"unknown", "bool", "tristate"}
              [] p.type = "range" ->
                    \/ type \notin {"int", "hex"}
                    \/ ~ValidateNumber(k, s, p.expr[2])
                    \/ ~ValidateNumber(k, s, p.expr[3])
              [] OTHER -> FALSE
    IN  type = "unknown" \/ \E i \in DOMAIN k.sym[s].props : badProp(k.prop[k.sym[s].props[i]])
=============================================================================
