----------------------------- MODULE KConfData -----------------------------
(***************************************************************************)
(* The files of a configuration: support/kconfig/confdata.c, and the       *)
(* question whether a menu is visible (menu.c), which writing them asks.   *)
(*                                                                         *)
(* A file is a sequence of pairs of a symbol and the text of its value; a  *)
(* line "# FOO is not set" is the pair of FOO and n.  Missing is a file    *)
(* that is not there.  Operators that change what the symbols hold return  *)
(* it as st, with what else they compute.                                  *)
(***************************************************************************)
EXTENDS KSymbol

Missing == <<<<"no", "file">>>>
Declared(k, s) == k.sym[s].type # "unknown"

\* for_all_symbols: the declared ones, in the order of the files.
AllSymbols(k) ==
    Fold(LAMBDA acc, node : IF node.sym = NoSym \/ node.sym \in ToSet(acc) THEN acc
                                ELSE Append(acc, node.sym), <<>>, k.menu)

(***************************************************************************)
(* The value of one line.  A choice whose values are read remembers the    *)
(* last one that is y, and the highest of them.                            *)
(***************************************************************************)
ConfSetSymVal(k, s, text) ==
    IF k.sym[s].type \in {"bool", "tristate"}
    THEN text \in {"y", "n"} \/ (text = "m" /\ k.sym[s].type = "tristate")
    ELSE SymStringValid(k, s, text)

Assign(k, st, s, text, def) ==
    LET tri == IF k.sym[s].type \in {"bool", "tristate"} THEN ConstTri[text] ELSE 0
        val == IF k.sym[s].type \in {"bool", "tristate"} THEN Unset ELSE text
    IN  IF def = "user"
        THEN [st EXCEPT !.sym[s].user = TRUE, !.sym[s].dtri = tri, !.sym[s].dval = val]
        ELSE [st EXCEPT !.sym[s].auser = TRUE, !.sym[s].adtri = tri, !.sym[s].adval = val]

\* A mutant: the choice holds whichever value is read last.
ChosenLast(was, s, tri) == s

\* The value the choice holds after the line of s, which is tri.
Chosen(was, s, tri) == IF tri = 2 THEN s ELSE was

\* The user's values only: nothing asks for the automatic value of a choice.
NoteChoice(k, r, s) ==
    LET c == ChoiceOf(k, s)
        tri == r.st.sym[s].dtri
        was == r.st.sym[c].dtri
        clash == tri # 0 /\ was = 2
        changes == tri = 2 /\ was # 0
    IN  [st |-> [r.st EXCEPT !.sym[c].dtri = Upper(@, tri),
                             !.sym[c].dval = Chosen(@, s, tri),
                             !.sym[c].user = @ /\ ~(clash /\ tri = 1)],
         warned |-> r.warned \/ clash \/ changes]

ReadLine(k, r, line, def) ==
    LET s == line[1]
        set == IF def = "user" THEN r.st.sym[s].user ELSE r.st.sym[s].auser
        good == ConfSetSymVal(k, s, line[2])
        read == [st |-> IF good THEN Assign(k, r.st, s, line[2], def) ELSE r.st,
                 warned |-> r.warned \/ (def = "user" /\ (set \/ ~good))]
    IN  IF ~Declared(k, s)
        THEN [r EXCEPT !.st = IF def = "user" THEN [@ EXCEPT !.changed = TRUE]
                              ELSE [@ EXCEPT !.sym[s].auser = TRUE]]
        ELSE IF good /\ k.sym[s].chval /\ def = "user" THEN NoteChoice(k, read, s)
        ELSE read

Forget(k, st, def) ==
    [st EXCEPT !.sym = [s \in DOMAIN @ |->
        LET is == [@[s] EXCEPT !.valid = FALSE]
        IN  IF s \in DOMAIN ConstTri THEN @[s]
            ELSE IF def = "user"
            THEN [is EXCEPT !.user = k.sym[s].choice, !.dtri = 0, !.dval = Unset]
            ELSE [is EXCEPT !.auser = k.sym[s].choice, !.adtri = 0, !.adval = Unset]]]

ConfReadSimple(k, st, file, def) ==
    Fold(LAMBDA r, line : ReadLine(k, r, line, def),
             [st |-> Forget(k, st, def), warned |-> FALSE], file)

(***************************************************************************)
(* Reading .config: a value that is not what the file says, that the file  *)
(* lacks or that it has too many makes the configuration changed.          *)
(***************************************************************************)
Agrees(k, st, s) ==
    LET me == st.sym[s]
    IN  \/ k.sym[s].choice \/ k.sym[s].auto
        \/ ~me.user /\ ~me.write
        \/ /\ me.user /\ me.write
           /\ IF k.sym[s].type \in {"bool", "tristate"} THEN me.dtri = me.tri
              ELSE me.dval = me.val

CompareRead(k, r, s) ==
    LET compare(st) == [r EXCEPT !.st = st, !.unsaved = @ \/ ~Agrees(k, st, s)]
    IN  compare(SymCalc(k, r.st, s))

\* A value of a symbol that is not visible is forgotten, and one out of its range.
ResetRead(k, r, s) ==
    LET hidden == r.st.sym[s].vis = 0 /\ ~r.unsaved
        reset(bad) == [r EXCEPT !.st.sym[s].user = ~hidden /\ ~bad,
                                !.st.sym[s].valid = @ /\ ~bad,
                                !.unsaved = @ \/ bad]
    IN  IF ~r.st.sym[s].user \/ k.sym[s].chval THEN r
        ELSE reset(/\ k.sym[s].type \in {"int", "hex", "string"}
                   /\ ~SymStringWithinRange(k, r.st, s, r.st.sym[s].dval))

ConfRead(k, st, file) ==
    LET new == [st EXCEPT !.changed = FALSE]
        compared(r) == Fold(LAMBDA acc, s : CompareRead(k, acc, s), r, AllSymbols(k))
        reset(r) == Fold(LAMBDA acc, s : ResetRead(k, acc, s), r, AllSymbols(k))
        count(r) == [r.st EXCEPT !.changed = @ \/ r.warned \/ r.unsaved]
        read(r) == count(reset(compared([st |-> SymCalc(k, r.st, k.modules),
                                         warned |-> r.warned, unsaved |-> FALSE])))
    IN  IF file = Missing THEN SymCalc(k, [new EXCEPT !.changed = TRUE], k.modules)
        ELSE read(ConfReadSimple(k, new, file, "user"))

-----------------------------------------------------------------------------
(***************************************************************************)
(* menu_is_visible.  A symbol that is not offered itself but has a visible *)
(* entry below it counts as set by the user from then on.                  *)
(***************************************************************************)
RECURSIVE MenuIsVisible(_, _, _)

\* One of the nodes is visible; menu_is_empty when they are the entries of a menu.
AnyVisible(k, st, ms) ==
    Fold(LAMBDA acc, m : IF acc.vis THEN acc ELSE MenuIsVisible(k, acc.st, m),
         [st |-> st, vis |-> FALSE], ms)

MenuIsVisible(k, st, m) ==
    LET s == k.menu[m].sym
        value(after) == IF s = NoSym THEN after ELSE SymCalc(k, after, s)
        mark(r) == IF r.vis THEN [r EXCEPT !.st.sym[s].user = TRUE] ELSE r
        hidden(v) == /\ s # NoSym /\ k.sym[s].chval /\ k.sym[s].type = "tristate"
                     /\ v.tri = 1 /\ v.st.sym[ChoiceOf(k, s)].tri = 2
        prompt(v) == IF v.tri # 0 /\ ~hidden(v) THEN [st |-> v.st, vis |-> TRUE]
                     ELSE IF s = NoSym \/ v.st.sym[s].tri = 0 THEN [st |-> v.st, vis |-> FALSE]
                     ELSE mark(AnyVisible(k, v.st, k.menu[m].kids))
        menu(v) == IF v.tri = 0 THEN [st |-> v.st, vis |-> FALSE]
                   ELSE prompt(ExprValue(k, value(v.st), PromptVisible(k, m)))
    IN  IF k.menu[m].prompt = 0 THEN [st |-> st, vis |-> FALSE]
        ELSE menu(ExprValue(k, st, k.menu[m].vis))

RECURSIVE MenuOrder(_, _)
MenuOrder(k, m) == Fold(LAMBDA acc, i : acc \o <<i>> \o MenuOrder(k, i),
                            <<>>, k.menu[m].kids)

(***************************************************************************)
(* The lines of .config, and of a minimal configuration, in the order of   *)
(* the menus.  SYMBOL_WRITE is cleared on the way, so that a symbol with   *)
(* two entries is written once.                                            *)
(***************************************************************************)
WriteNode(k, r, m) ==
    LET s == k.menu[m].sym
        write(st) == IF ~st.sym[s].write THEN [r EXCEPT !.st = st]
                     ELSE [st |-> [st EXCEPT !.sym[s].write = FALSE],
                           lines |-> Append(r.lines, <<s, StringValue(k, st, s)>>)]
    IN  CASE s = NoSym -> [r EXCEPT !.st = MenuIsVisible(k, @, m).st]
          [] s # NoSym /\ k.sym[s].choice -> r
          [] OTHER -> write(SymCalc(k, r.st, s))

ConfWriteLines(k, st) ==
    Fold(LAMBDA r, m : WriteNode(k, r, m),
             [st |-> IF st.changed THEN st ELSE ClearAllValid(k, st), lines |-> <<>>],
             MenuOrder(k, 1))

\* A mutant: the value that is y counts as the default.
IsChoiceDefaultY(k, st, s, ds) ==
    ~k.sym[ChoiceOf(k, s)].optional /\ k.sym[s].type = "bool" /\ st.sym[s].tri = 2

IsChoiceDefault(k, st, s, ds) ==
    /\ k.sym[s].chval /\ ~k.sym[ChoiceOf(k, s)].optional
    /\ ds = s /\ k.sym[s].type = "bool" /\ st.sym[s].tri = 2

DefconfigNode(k, r, m) ==
    LET s == k.menu[m].sym
        text(st) == StringValue(k, st, s)
        keep(st) == [st |-> st, lines |-> Append(r.lines, <<s, text(st)>>)]
        choice(ch) == IF IsChoiceDefault(k, ch.st, s, ch.def) THEN [r EXCEPT !.st = ch.st]
                      ELSE keep(ch.st)
        own(def) == IF text(def.st) = def.str THEN [r EXCEPT !.st = def.st]
                    ELSE IF k.sym[s].chval THEN choice(SymChoiceDefault(k, def.st, ChoiceOf(k, s)))
                    ELSE keep(def.st)
        offered(st) == IF SymIsChangable(st, s) THEN own(SymGetStringDefault(k, st, s))
                       ELSE [r EXCEPT !.st = st]
        written(st) == IF st.sym[s].write THEN offered([st EXCEPT !.sym[s].write = FALSE])
                       ELSE [r EXCEPT !.st = st]
    IN  CASE s = NoSym -> [r EXCEPT !.st = MenuIsVisible(k, @, m).st]
          [] s # NoSym /\ k.sym[s].choice -> r
          [] OTHER -> written(SymCalc(k, r.st, s))

ConfWriteDefconfig(k, st) ==
    Fold(LAMBDA r, m : DefconfigNode(k, r, m),
             [st |-> ClearAllValid(k, st), lines |-> <<>>], MenuOrder(k, 1))

(***************************************************************************)
(* syncconfig: the symbols whose value differs from the one in auto.conf,  *)
(* and what auto.conf and the header are to hold.                          *)
(***************************************************************************)
AutoDiffers(k, st, s) ==
    LET me == st.sym[s]
        logical == k.sym[s].type \in {"bool", "tristate"}
        same == IF logical THEN me.tri = me.adtri ELSE StringValue(k, st, s) = me.adval
    IN  /\ ~k.sym[s].auto
        /\ CASE me.write /\ me.auser -> ~same
             [] me.write /\ ~me.auser -> ~(logical /\ me.tri = 0)
             [] OTHER -> me.auser

ConfSplitConfig(k, st, auto) ==
    LET read == IF auto = Missing THEN st ELSE ConfReadSimple(k, st, auto, "auto").st
        differ(calc) ==
            [st |-> calc, touch |-> SelectSeq(AllSymbols(k), LAMBDA s : AutoDiffers(k, calc, s))]
    IN  differ(Fold(LAMBDA acc, s : SymCalc(k, acc, s), read, <<k.modules>> \o AllSymbols(k)))

AutoconfLines(k, st) ==
    LET written == SelectSeq(AllSymbols(k), LAMBDA s : st.sym[s].write
                        /\ ~(k.sym[s].type \in {"bool", "tristate"} /\ st.sym[s].tri = 0))
    IN  [i \in DOMAIN written |-> <<written[i], StringValue(k, st, written[i])>>]

-----------------------------------------------------------------------------
(***************************************************************************)
(* The configurations made by a rule.  dice are the throws of randconfig:  *)
(* a tristate for every symbol, a value for every choice.                  *)
(***************************************************************************)
RandomizeChoiceValues(k, st, c, dice) ==
    LET pick(me, s) ==
            CASE s \in ToSet(k.sym[c].members) ->
                    [me EXCEPT !.user = TRUE, !.valid = FALSE, !.dtri = IF s = dice[c] THEN 2 ELSE 0]
              [] s = c -> [me EXCEPT !.user = TRUE, !.valid = FALSE, !.dval = dice[c]]
              [] OTHER -> me
    IN  IF st.sym[c].tri # 2 THEN [st |-> st, more |-> FALSE]
        ELSE [st |-> [st EXCEPT !.sym = [s \in DOMAIN @ |-> pick(@[s], s)]], more |-> TRUE]

NewValue(k, s, mode, dice) ==
    CASE mode = "yes" -> 2
      [] mode = "mod" -> 1
      [] mode = "no" -> IF k.sym[s].allnoY THEN 2 ELSE 0
      [] mode = "random" ->
            IF k.sym[s].choice THEN 2
            ELSE IF k.sym[s].type # "tristate" /\ dice[s] = 1 THEN 2 ELSE dice[s]

ConfSetAllNewSymbols(k, st, mode, dice) ==
    LET new == {s \in DOMAIN k.sym : /\ ~st.sym[s].user /\ ~st.sym[s].valid
                                     /\ SymGetType(k, st, s) \in {"bool", "tristate"}}
        give(me, s) == [me EXCEPT !.dtri = NewValue(k, s, mode, dice),
                                  !.user = ~(k.sym[s].choice /\ mode = "random")]
        given == IF mode = "default" THEN st
                 ELSE [st EXCEPT !.sym = [s \in DOMAIN @ |->
                        IF s \in new THEN give(@[s], s) ELSE @[s]]]
        mark(clear) ==
            IF mode = "random" THEN clear
            ELSE [clear EXCEPT !.sym = [s \in DOMAIN @ |->
                    [@[s] EXCEPT !.need = @ \/ (k.sym[s].choice /\ ~clear.sym[s].user)
                                           \/ k.sym[s].chval]]]
        settled(st1, c) ==
            IF mode = "random" THEN RandomizeChoiceValues(k, st1, c, dice)
            ELSE [st |-> SetAllChoiceValues(k, st1, c), more |-> TRUE]
        settle(r, c) == IF r.st.sym[c].user THEN r ELSE settled(SymCalc(k, r.st, c), c)
    IN  Fold(settle, [st |-> mark(ClearAllValid(k, given)), more |-> new # {}],
             SelectSeq(AllSymbols(k), LAMBDA s : k.sym[s].choice))
=============================================================================
