----------------------------- MODULE KMenuconf -----------------------------
(***************************************************************************)
(* A session of menuconfig: support/kconfig/mconf.c, with the search       *)
(* (symbol.c) and the descriptions of symbols (menu.c) it shows.           *)
(*                                                                         *)
(* Each call of conf, conf_choice or search_conf is a frame of the stack;  *)
(* the top one draws its entries (build_conf), which calculates and marks  *)
(* symbols, then waits for a key, and is drawn again after what the key    *)
(* did.  The dialogs that read a line return what was typed or ESC.        *)
(***************************************************************************)
EXTENDS KConfData

CONSTANTS
    Trees,          \* the trees
    Names,          \* names of files; ".config" is one
    FilesOf(_),     \* the files there may be at the start
    SinglesOf(_),   \* whether MENUCONFIG_MODE is single_menu
    TextsOf(_, _),  \* the texts typed for the symbol s of the tree
    Searches(_),    \* what searches find: all the symbols, and those that match in whole
    Alphabet,       \* the names of the symbols in the order of strcmp
    MayFail,        \* what may fail: "open" or "rename" of a save, a "load" of no file
    MaxSteps,       \* a bound on the answers, saves and loads of a session
    MaxDepth        \* a bound on the dialogs that are open

VARIABLES
    k,        \* the tree
    st,       \* the symbols
    files,    \* what the files hold
    name,     \* filename, the file that was loaded or saved last
    stack,    \* the open dialogs, the top one first
    screen,   \* the entries the top one shows, once it is drawn
    ui,       \* show_all_options, single_menu_mode, what is unfolded in it, child_count > 0
    left,     \* the answers, saves and loads that are left
    phase,    \* of the session, and how it ended
    shown     \* the values, for the properties
vars == <<k, st, files, name, stack, screen, ui, left, phase, shown>>

(***************************************************************************)
(* A configuration: the values the options have once they are calculated;  *)
(* what a file does not mention is n, or empty.                            *)
(***************************************************************************)
Options(tree) == {s \in Symbols \ DOMAIN ConstTri : Declared(tree, s) /\ ~tree.sym[s].choice}
Empty == [s \in Symbols |->
    IF s \in Options(k) /\ k.sym[s].type \in {"bool", "tristate"} THEN "n" ELSE Unset]
Said(file) == Fold(LAMBDA c, line : [c EXCEPT ![line[1]] = line[2]], Empty,
                   IF file = Missing THEN <<>> ELSE file)
Values(tree, now) ==
    [s \in Symbols |-> IF s \in Options(tree) THEN StringValue(tree, SymCalc(tree, now, s), s) ELSE Unset]
Now(symbols) == st' = symbols /\ shown' = Values(k, st')

Blank == [drawn |-> FALSE, items |-> <<>>]
Frame(kind, m) == [kind |-> kind, menu |-> m, active |-> 0, found |-> <<>>]
Top == stack[1]
At(kind) == stack # <<>> /\ Top.kind = kind
On(kind) == At(kind) /\ screen.drawn
Push(f) == Len(stack) < MaxDepth /\ stack' = <<f>> \o stack /\ screen' = Blank
Again == screen' = Blank /\ UNCHANGED stack

\* A dialog returns to the one below, the main menu to handle_exit.
Below == IF Len(stack) = 1 THEN <<Frame("exit", 0)>> ELSE Tail(stack)
Back == stack' = Below /\ screen' = Blank
Spend == left > 0 /\ left' = left - 1

Init ==
    /\ k \in Trees
    /\ files \in FilesOf(k)
    /\ st = SymInit(k) /\ name = ".config" /\ stack = <<>> /\ screen = Blank
    /\ \E single \in SinglesOf(k) :
        ui = [all |-> FALSE, single |-> single, open |-> {}, counted |-> FALSE]
    /\ left = MaxSteps /\ phase = "before" /\ shown = Values(k, st)

\* main: conf_read(NULL), then conf(&rootmenu).
Start ==
    /\ phase = "before" /\ phase' = "open"
    /\ Now(ConfRead(k, st, files[".config"]))
    /\ stack' = <<Frame("menu", 1)>>
    /\ UNCHANGED <<k, files, name, screen, ui, left>>

-----------------------------------------------------------------------------
(***************************************************************************)
(* build_conf: the entries of the menu cur, with the tags that decide what *)
(* a key does: m a menu, t a tristate, s a text, : nothing.                *)
(***************************************************************************)
IsMenu(m) == k.menu[m].prompt # 0 /\ k.prop[k.menu[m].prompt].type = "menu"

RECURSIVE BuildConf(_, _, _, _)

Item(acc, tag, m, counts) ==
    [acc EXCEPT !.items = Append(@, [tag |-> tag, menu |-> m]), !.counted = @ \/ counts]

\* A mutant: the visible entry that is not.
IsDefMenuNot(value, s) == s # value

IsDefMenu(value, s) == s = value

\* The visible entry of a choice that is its value, 0 if there is none.
DefMenu(acc, m) ==
    LET value == acc.st.sym[k.menu[m].sym].val
        note(a, i, r) == [st |-> r.st, def |-> IF r.vis /\ IsDefMenu(value, k.menu[i].sym) THEN i ELSE a.def]
    IN  Fold(LAMBDA a, i : note(a, i, MenuIsVisible(k, a.st, i)), [st |-> acc.st, def |-> 0],
             k.menu[m].kids)

BuildConf(u, cur, acc, m) ==
    LET s == k.menu[m].sym
        kids == k.menu[m].kids
        \* What was drawn, the nodes to draw next, and whether menu_is_empty is asked.
        drawn(a, inside, asks) == [acc |-> a, inside |-> inside, asks |-> asks]
        plain(a) == IF m = cur \/ k.menu[m].prompt = 0 THEN drawn(a, kids, FALSE)
                    ELSE IF ~IsMenu(m) THEN drawn(Item(a, ":", m, TRUE), kids, FALSE)
                    ELSE drawn(Item(a, "m", m, TRUE), IF u.single /\ m \in u.open THEN kids ELSE <<>>,
                               ~u.single)
        chosen(a, d) ==
            LET tag == IF SymIsChangable(d.st, s) \/ d.def # 0 THEN "t" ELSE ":"
                inside == IF d.st.sym[s].tri # 2 THEN kids
                          ELSE IF d.def = 0 \/ k.menu[d.def].kids = <<>> THEN <<>>
                          ELSE <<d.def>>
            IN  drawn(Item([a EXCEPT !.st = d.st], tag, m, TRUE), inside, FALSE)
        symbol(a) ==
            LET fixed == k.sym[s].chval /\ a.st.sym[s].tri = 2
                tag == IF fixed THEN ":"
                       ELSE IF k.sym[s].type \in {"bool", "tristate"} THEN "t" ELSE "s"
                opens == IsMenu(m) /\ tag # "s"
            IN  IF m = cur THEN drawn(Item(a, ":", m, FALSE), kids, FALSE)
                ELSE drawn(Item(a, tag, m, TRUE), IF opens THEN <<>> ELSE kids, opens)
        draw(a) == IF s = NoSym THEN plain(a)
                   ELSE IF k.sym[s].choice THEN chosen(a, DefMenu(a, m))
                   ELSE symbol(a)
        children(ms, a) == Fold(LAMBDA b, i : BuildConf(u, cur, b, i), a, ms)
        rest(r) == children(r.inside, IF r.asks THEN [r.acc EXCEPT !.st = AnyVisible(k, @, kids).st]
                                      ELSE r.acc)
        seen(r) == IF IF u.all THEN k.menu[m].prompt # 0 ELSE r.vis
                   THEN rest(draw([acc EXCEPT !.st = r.st]))
                   ELSE [acc EXCEPT !.st = r.st]
    IN  seen(MenuIsVisible(k, acc.st, m))

(***************************************************************************)
(* conf: draw the menu.  One without entries is left at once, but only     *)
(* until there was an entry anywhere: child_count is never reset.          *)
(***************************************************************************)
DrawMenu ==
    LET drawn(r) ==
            /\ Now(r.st) /\ ui' = [ui EXCEPT !.counted = r.counted]
            /\ IF r.counted THEN screen' = [drawn |-> TRUE, items |-> r.items] /\ UNCHANGED stack
               ELSE Back
    IN  /\ At("menu") /\ ~screen.drawn
        /\ drawn(BuildConf(ui, Top.menu, [st |-> st, items |-> <<>>, counted |-> ui.counted],
                           Top.menu))
        /\ UNCHANGED <<k, files, name, left, phase>>

\* conf_choice: the radio list of the visible values; X is the current one.
DrawChoice ==
    LET c == k.menu[Top.menu].sym
        tag(i) == IF k.menu[i].sym = NoSym THEN ":"
                  ELSE IF k.menu[i].sym = st.sym[c].val THEN "X" ELSE " "
        add(acc, i, r) == IF r.vis THEN Item([acc EXCEPT !.st = r.st], tag(i), i, FALSE)
                          ELSE [acc EXCEPT !.st = r.st]
        drawn(r) == Now(r.st) /\ screen' = [drawn |-> TRUE, items |-> r.items]
    IN  /\ At("choice") /\ ~screen.drawn
        /\ drawn(Fold(LAMBDA acc, i : add(acc, i, MenuIsVisible(k, acc.st, i)),
                      [st |-> st, items |-> <<>>, counted |-> FALSE], k.menu[Top.menu].kids))
        /\ UNCHANGED <<k, files, name, stack, ui, left, phase>>

-----------------------------------------------------------------------------
(***************************************************************************)
(* get_prompt_str: where the prompt p is.  A search adds a key that jumps  *)
(* to it, or to the first visible menu above it; there is none for what is *)
(* in the main menu.                                                       *)
(***************************************************************************)
\* A mutant: to the entry, whether it is visible or not.
TargetAnyway(m, visible, above) == m

Target(m, visible, above) == IF visible THEN m ELSE above

PromptStr(acc, p, keys) ==
    LET m == k.prop[p].menu
        above == SelectSeq(Ancestors(k, m), LAMBDA u : u # 1)
        near == SubSeq(above, 1, Lower(8, Len(above)))
        look(a, u, r) == [st |-> r.st, at |-> IF a.at = 0 /\ r.vis THEN u ELSE a.at]
        jump(l, r) == Item([acc EXCEPT !.st = r.st], "j", Target(m, r.vis, l.at), FALSE)
        located(l) == IF keys /\ l.at # 0 THEN jump(l, MenuIsVisible(k, l.st, m))
                      ELSE [acc EXCEPT !.st = l.st]
    IN  located(Fold(LAMBDA a, u : look(a, u, MenuIsVisible(k, a.st, u)),
                     [st |-> acc.st, at |-> 0], near))

\* get_symbol_str: its prompts, and who selects and implies it.
SymbolStr(acc, s, keys) ==
    LET value(a, e) == [a EXCEPT !.st = ExprValue(k, @, e).st]
    IN  Fold(value, Fold(LAMBDA a, p : PromptStr(a, p, keys), acc, PropsOf(k, s, {"prompt", "menu"})),
             <<k.sym[s].rev, k.sym[s].implied>>)

\* search_conf: draw the symbols that were found.
DrawResults ==
    LET drawn(r) == Now(r.st) /\ screen' = [drawn |-> TRUE, items |-> r.items]
    IN  /\ At("results") /\ ~screen.drawn
        /\ drawn(Fold(LAMBDA acc, s : SymbolStr(acc, s, TRUE),
                      [st |-> st, items |-> <<>>, counted |-> FALSE], Top.found))
        /\ UNCHANGED <<k, files, name, stack, ui, left, phase>>

(***************************************************************************)
(* sym_re_search: what matches in whole comes first, then the alphabet.    *)
(***************************************************************************)
SymReSearch(found) ==
    SelectSeq(Alphabet, LAMBDA s : s \in found.exact)
    \o SelectSeq(Alphabet, LAMBDA s : s \in found.all \ found.exact)

Search ==
    /\ On("menu")
    /\ \E found \in Searches(k) :
        /\ Push([Frame("results", 0) EXCEPT !.found = SymReSearch(found)])
        /\ Now(Fold(LAMBDA acc, s : SymCalc(k, acc, s), st, SymReSearch(found)))
    /\ UNCHANGED <<k, files, name, ui, left, phase>>

Jump(i) ==
    /\ On("results")
    /\ Push([Frame("menu", k.menu[screen.items[i].menu].parent) EXCEPT !.active = screen.items[i].menu])
    /\ UNCHANGED <<k, st, shown, files, name, ui, left, phase>>

\* show_help, of an entry or of the text that is asked for
Help ==
    \E m \in IF At("text") THEN {Top.menu} ELSE {i.menu : i \in ToSet(screen.items)} :
        LET s == k.menu[m].sym
        IN  /\ On("menu") \/ On("choice") \/ At("text")
            /\ Now(IF s = NoSym THEN st
                   ELSE SymbolStr([st |-> st, items |-> <<>>, counted |-> FALSE], s, FALSE).st)
            /\ Again
            /\ UNCHANGED <<k, files, name, ui, left, phase>>

-----------------------------------------------------------------------------
(***************************************************************************)
(* The keys of conf on the entry i.                                        *)
(***************************************************************************)
Tag(i) == screen.items[i].tag
Entry(i) == screen.items[i].menu
SymAt(i) == k.menu[Entry(i)].sym

Enter(i) ==
    LET m == Entry(i)
        choose == Tag(i) = "t" /\ IsChoice(k, SymAt(i)) /\ st.sym[SymAt(i)].tri = 2
        inside == \/ Tag(i) = "m" /\ ~ui.single
                  \/ Tag(i) = "t" /\ ~choose /\ IsMenu(m)
    IN  /\ On("menu")
        /\ \/ Tag(i) = "m" /\ ui.single /\ Again
              /\ ui' = [ui EXCEPT !.open = IF m \in @ THEN @ \ {m} ELSE @ \cup {m}]
           \/ inside /\ Push(Frame("menu", m)) /\ UNCHANGED ui
           \/ choose /\ Push(Frame("choice", m)) /\ UNCHANGED ui
           \/ Tag(i) = "s" /\ Push(Frame("text", m)) /\ UNCHANGED ui
        /\ UNCHANGED <<k, st, shown, files, name, left, phase>>

\* y, n and m.  Where y is not possible, y means m.
Set(i, val) ==
    LET r == SymSetTristateValue(k, st, SymAt(i), val)
        lower == SymSetTristateValue(k, st, SymAt(i), 1)
    IN  /\ On("menu") /\ Tag(i) = "t" /\ Spend
        /\ Now(IF ~r.ok /\ val = 2 THEN lower.st ELSE r.st)
        /\ Again
        /\ UNCHANGED <<k, files, name, ui, phase>>

\* The space bar, which also opens a menu.
Space(i) ==
    /\ On("menu")
    /\ \/ /\ Tag(i) = "t" /\ Spend
          /\ Now(SymToggleTristateValue(k, st, SymAt(i)))
          /\ Again
       \/ Tag(i) = "m" /\ Push(Frame("menu", Entry(i))) /\ UNCHANGED <<st, shown, left>>
    /\ UNCHANGED <<k, files, name, ui, phase>>

ShowAll ==
    /\ On("menu") /\ ui' = [ui EXCEPT !.all = ~@] /\ Again
    /\ UNCHANGED <<k, st, shown, files, name, left, phase>>

\* conf_choice returns whatever sym_set_tristate_value says.
Pick(i) ==
    /\ On("choice") /\ SymAt(i) # NoSym /\ Spend
    /\ Now(SymSetTristateValue(k, st, SymAt(i), 2).st)
    /\ Back
    /\ UNCHANGED <<k, files, name, ui, phase>>

\* conf_string asks until a text is accepted.
Text(text) ==
    LET set(r) == r.ok /\ Now(r.st)
    IN  /\ At("text") /\ Spend
        /\ set(SymSetStringValue(k, st, k.menu[Top.menu].sym, text))
        /\ Back
        /\ UNCHANGED <<k, files, name, ui, phase>>

\* <Exit>, ESC, and the end of search_conf when no key jumps.
Leave ==
    /\ On("menu") \/ On("choice") \/ On("results") \/ \E d \in {"text", "save", "load"} : At(d)
    /\ Back
    /\ UNCHANGED <<k, st, shown, files, name, ui, left, phase>>

-----------------------------------------------------------------------------
(***************************************************************************)
(* conf_write of the file n.  It may fail before it wrote anything or when *)
(* the new file is put in its place: the old one is out of the way by then *)
(* (or could not be moved either), and the marks of what is to be written  *)
(* are used up.                                                            *)
(***************************************************************************)
ConfWrite(n, how) ==
    LET write(r) ==
            CASE how = "ok" -> /\ files' = [files EXCEPT ![n] = r.lines]
                               /\ Now([r.st EXCEPT !.changed = FALSE])
              [] how = "rename" -> Now(r.st) /\ files' \in {files, [files EXCEPT ![n] = Missing]}
              [] how = "open" -> UNCHANGED <<st, shown, files>>
    IN  write(ConfWriteLines(k, st))

Ask(dialog) ==
    /\ On("menu") /\ Push(Frame(dialog, 0))
    /\ UNCHANGED <<k, st, shown, files, name, ui, left, phase>>

\* conf_load, until a file is there; conf_read forgets what was changed even if none is.
Loaded(n, read) == [read EXCEPT !.changed = files[n] # Missing]

Load(n) ==
    /\ At("load") /\ Spend
    /\ Now(Loaded(n, ConfRead(k, st, files[n])))
    /\ IF files[n] # Missing THEN name' = n /\ Back
       ELSE "load" \in MayFail /\ UNCHANGED <<name, stack, screen>>
    /\ UNCHANGED <<k, files, ui, phase>>

\* Saved, or saved at the end: what is asked for then is no bound to end.
Write(n, how) ==
    /\ \/ At("save") /\ Spend /\ UNCHANGED phase
          /\ IF how = "ok" THEN name' = n /\ Back ELSE UNCHANGED <<name, stack, screen>>
       \/ /\ At("exit") \/ At("signal")
          /\ st.changed /\ n = name /\ UNCHANGED <<name, left>>
          /\ phase' = IF how = "ok" THEN "saved" ELSE "failed"
          /\ stack' = <<>> /\ screen' = Blank
    /\ ConfWrite(n, how)
    /\ UNCHANGED <<k, ui>>

(***************************************************************************)
(* handle_exit, after the main menu or from the handler of SIGINT: with a  *)
(* change to save it asks; ESC goes on with the session, but not when a    *)
(* signal began it.                                                        *)
(***************************************************************************)
Exit ==
    /\ At("exit") \/ At("signal")
    /\ phase' = IF st.changed THEN "given up" ELSE "saved"
    /\ stack' = <<>>
    /\ UNCHANGED <<k, st, shown, files, name, screen, ui, left>>

GoOn ==
    /\ At("exit") /\ st.changed
    /\ stack' = <<Frame("menu", 1)>>
    /\ UNCHANGED <<k, st, shown, files, name, screen, ui, left, phase>>

Interrupt ==
    /\ stack # <<>> /\ ~At("exit") /\ ~At("signal")
    /\ stack' = <<Frame("signal", 0)>> /\ screen' = Blank
    /\ UNCHANGED <<k, st, shown, files, name, ui, left, phase>>

\* The end of the session.
Over == stack = <<>> /\ phase # "before" /\ UNCHANGED vars

Keys(i) == Enter(i) \/ Space(i) \/ Jump(i) \/ Pick(i) \/ \E v \in Tristate : Set(i, v)
Next ==
    \/ Start \/ DrawMenu \/ DrawChoice \/ DrawResults
    \/ \E i \in DOMAIN screen.items : Keys(i)
    \/ At("text") /\ \E text \in TextsOf(k, k.menu[Top.menu].sym) : Text(text)
    \/ Help \/ ShowAll \/ Search \/ Leave \/ Ask("save") \/ Ask("load")
    \/ \E n \in Names : Load(n) \/ \E how \in {"ok"} \cup (MayFail \ {"load"}) : Write(n, how)
    \/ Exit \/ GoOn \/ Interrupt \/ Over
Spec == Init /\ [][Next]_vars

-----------------------------------------------------------------------------
(***************************************************************************)
(* The session keeps the promises of KSession: of what is shown, and of    *)
(* what the files say.                                                     *)
(***************************************************************************)
SessionOf == INSTANCE KSession WITH
    Configs <- [Symbols -> Symbols \cup {Unset}],
    file <- [n \in Names |-> [there |-> files[n] # Missing, config |-> Said(files[n])]],
    current <- name, dirty <- phase = "before" \/ st.changed
Session == SessionOf!Spec
(***************************************************************************)
(* A session that ends without a word about changes that were not saved    *)
(* leaves what it showed in the file it worked on.                         *)
(***************************************************************************)
NothingLost == SessionOf!NothingLost

(***************************************************************************)
(* Every visible entry of the configuration can be reached from the main   *)
(* menu by the keys of its screens.                                        *)
(***************************************************************************)
Plain == [all |-> FALSE, single |-> FALSE, open |-> {}, counted |-> FALSE]
Listing(m) == ToSet(BuildConf(Plain, m, [st |-> st, items |-> <<>>, counted |-> FALSE], m).items)
Radio(c) == {i \in ToSet(k.menu[c].kids) : MenuIsVisible(k, st, i).vis}
Opens(item) == item.tag = "m" \/ (item.tag = "t" /\ IsMenu(item.menu))
Offered ==
    LET seen(listing, S) == UNION {listing[m] : m \in S}
        opened(items) == {i.menu : i \in {j \in items : Opens(j)}}
        choices(items) == {i \in items : i.tag = "t" /\ IsChoice(k, k.menu[i.menu].sym)}
        entries(items) == {i.menu : i \in items} \cup UNION {Radio(i.menu) : i \in choices(items)}
        more(listing, S) == S \cup opened(seen(listing, S))
        menus(listing) == Fold(LAMBDA S, m : more(listing, S), {1}, k.menu)
        all(listing) == entries(seen(listing, menus(listing)))
    IN  all([m \in {n \in DOMAIN k.menu : IsMenu(n)} |-> Listing(m)])
EverythingOffered ==
    At("exit") =>
        \A m \in 2..Len(k.menu) : MenuIsVisible(k, st, m).vis => m \in Offered

(***************************************************************************)
(* The key a search shows leads to a screen that lists what was found, or  *)
(* the choice it is a value of.                                            *)
(***************************************************************************)
JumpLands ==
    LET lists(up, listed, m) == m \in listed \/ (IsChoice(k, k.menu[up].sym) /\ up \in listed)
    IN  On("results") =>
            \A i \in DOMAIN screen.items :
                LET up == k.menu[Entry(i)].parent
                IN  lists(up, {item.menu : item \in Listing(up)}, Entry(i))

(***************************************************************************)
(* What a radio list offers can be chosen: it becomes the choice's value.  *)
(***************************************************************************)
PickHolds ==
    On("choice") =>
        \A i \in DOMAIN screen.items :
            LET c == k.menu[Top.menu].sym
                picked == SymCalc(k, SymCalc(k, SymSetTristateValue(k, st, SymAt(i), 2).st, c), SymAt(i))
            IN  SymAt(i) # NoSym => picked.sym[c].val = SymAt(i) /\ picked.sym[SymAt(i)].tri = 2

(***************************************************************************)
(* The space bar changes the value of just the entries that are drawn as   *)
(* ones it can change.                                                     *)
(***************************************************************************)
SpaceWorks ==
    On("menu") =>
        \A i \in DOMAIN screen.items :
            LET s == SymAt(i)
                after == SymCalc(k, SymToggleTristateValue(k, st, s), s)
            IN  Tag(i) = "t" => (after.sym[s].tri # st.sym[s].tri <=> SymIsChangable(st, s))

(***************************************************************************)
(* The keys that change values do what the screen offers.                  *)
(***************************************************************************)
KeysWork == SpaceWorks /\ PickHolds
=============================================================================
