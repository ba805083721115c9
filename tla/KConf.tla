-------------------------------- MODULE KConf --------------------------------
(***************************************************************************)
(* The line-oriented front end, support/kconfig/conf.c: runs of "make      *)
(* oldconfig", "make foo_defconfig", "make savedefconfig" and the like,    *)
(* one after the other, between edits of .config.                          *)
(*                                                                         *)
(*   k      the tree of the Config.in files                                *)
(*   disk   .config, the minimal configuration, auto.conf and autoconf.h,  *)
(*          each a sequence of lines as in KConfData; and stamped, the     *)
(*          symbols whose stamp in include/config is newer than auto.conf  *)
(*   st     what the symbols hold, in the process that runs                *)
(*   proc   that process:                                                  *)
(*     pc, mode   what it does next, input_mode                            *)
(*     todo       what is left of conf() and check_conf(): a stack of      *)
(*                pairs of a step and a menu entry, in the order of the    *)
(*                calls                                                    *)
(*     root       rootEntry                                                *)
(*     again      whether conf_cnt is above 0                              *)
(*     said       the answer that was just accepted, and for which symbol  *)
(*     shown      the values of a choice that were listed                  *)
(*     listed     the symbols --listnewconfig has printed                  *)
(*   by     what .config was last made by: an edit, the program, the       *)
(*          program after it asked about everything new; or "unlike" when  *)
(*          it does not say what the symbols hold                          *)
(*   full   the configuration the minimal one was saved from               *)
(***************************************************************************)
EXTENDS KConfData

CONSTANTS
    Trees,        \* the menu trees
    EditsOf(_),   \* what .config may be edited to
    SeedsOf(_),   \* what the file of KCONFIG_ALLCONFIG may say
    TextsOf(_,_), \* what a user may type at the question about a symbol
    DiceOf(_),    \* the throws of randconfig
    Modes,        \* the modes that are run
    StopsOf(_),   \* bound: how many stamps are touched when an update is stopped
    MaxChanges    \* bound on the edits and the runs: those of Free modes are free and
                  \* edits after a stopped update; oldconfig counts like an edit, the
                  \* others like two

VARIABLES k, disk, st, proc, by, full, changes
vars == <<k, disk, st, proc, by, full, changes>>

Made == {"allnoconfig", "allyesconfig", "allmodconfig", "alldefconfig", "randconfig"}
Asking == {"oldaskconfig", "oldconfig", "listnewconfig", "syncconfig"}
Idle == [pc |-> "idle", mode |-> "none", todo |-> <<>>, root |-> 1, again |-> FALSE,
         said |-> <<>>, shown |-> <<>>, listed |-> {}]

Init ==
    /\ k \in Trees
    /\ disk = [config |-> Missing, def |-> Missing, auto |-> Missing, header |-> Missing,
               stamped |-> {}]
    /\ st = SymInit(k) /\ proc = Idle
    /\ by = "none" /\ full = Missing /\ changes = 0

\* An edit also ends the life of the minimal configuration (a bound).
Edit ==
    /\ proc.pc = "idle" /\ changes' = changes + (IF disk.stamped = {} THEN 1 ELSE 0)
    /\ changes' <= MaxChanges
    /\ \E file \in EditsOf(k) : disk' = [disk EXCEPT !.config = file, !.def = Missing]
    /\ disk'.config # disk.config
    /\ by' = "edit" /\ full' = Missing
    /\ UNCHANGED <<k, st, proc>>

-----------------------------------------------------------------------------
(***************************************************************************)
(* main: the mode, and the file it starts from.                            *)
(***************************************************************************)
Free == {"listnewconfig", "olddefconfig", "savedefconfig", "defconfig", "syncconfig"}

\* After an update of auto.conf that was stopped, only edits and the next update
\* are of interest (a bound): the other modes do no more than edit .config.
Begin(mode) ==
    /\ proc.pc = "idle" /\ mode \in Modes
    /\ disk.stamped # {} => mode = "syncconfig"
    /\ mode = "syncconfig" => disk.config # Missing
    /\ mode = "defconfig" => disk.def # Missing
    /\ changes' = changes + (CASE mode \in Free -> 0 [] mode = "oldconfig" -> 1 [] OTHER -> 2)
    /\ changes' <= MaxChanges
    /\ proc' = [Idle EXCEPT !.pc = IF mode \in Made THEN "seed" ELSE "read", !.mode = mode]
    /\ UNCHANGED <<k, disk, st, by, full>>

\* What comes after reading.
AfterRead(mode) ==
    CASE mode \in Asking -> "ask" [] mode = "defconfig" -> "make"
      [] mode = "olddefconfig" -> "write" [] mode = "savedefconfig" -> "save"

Read ==
    /\ proc.pc = "read"
    /\ st' = ConfRead(k, st, IF proc.mode = "defconfig" THEN disk.def ELSE disk.config)
    /\ proc' = [proc EXCEPT !.pc = AfterRead(proc.mode),
                            !.todo = IF proc.mode = "oldaskconfig" THEN <<<<"conf", 1>>>>
                                     ELSE IF proc.mode \in Asking THEN <<<<"check", 1>>>>
                                     ELSE <<>>]
    /\ UNCHANGED <<k, disk, by, full, changes>>

\* KCONFIG_ALLCONFIG, if it is set.
ReadSeed ==
    /\ proc.pc = "seed"
    /\ \E file \in SeedsOf(k) \cup {Missing} :
        st' = IF file = Missing THEN st ELSE ConfReadSimple(k, st, file, "user").st
    /\ proc' = [proc EXCEPT !.pc = "make"]
    /\ UNCHANGED <<k, disk, by, full, changes>>

(***************************************************************************)
(* The configurations made by a rule.  randconfig goes on until nothing    *)
(* new is left.                                                            *)
(***************************************************************************)
DefMode == [allnoconfig |-> "no", allyesconfig |-> "yes", allmodconfig |-> "mod",
            alldefconfig |-> "default", randconfig |-> "random", defconfig |-> "default"]

MakeAll ==
    LET set(r) == /\ st' = r.st
                  /\ proc' = IF proc.mode = "randconfig" /\ r.more THEN proc
                             ELSE [proc EXCEPT !.pc = "write"]
    IN  /\ proc.pc = "make"
        /\ \E dice \in IF proc.mode = "randconfig" THEN DiceOf(k) ELSE {<<>>} :
            set(ConfSetAllNewSymbols(k, st, DefMode[proc.mode], dice))
        /\ UNCHANGED <<k, disk, by, full, changes>>

-----------------------------------------------------------------------------
(***************************************************************************)
(* conf() and check_conf(), one step of the recursion at a time.           *)
(***************************************************************************)
Top == proc.todo[1]
On(steps) == proc.pc = "ask" /\ proc.todo # <<>> /\ Top[1] \in steps
Then(items) == [proc EXCEPT !.todo = items \o Tail(@), !.said = <<>>]
Kids(step, m) == [i \in DOMAIN k.menu[m].kids |-> <<step, k.menu[m].kids[i]>>]
IsMenu(m) == k.menu[m].prompt # 0 /\ k.prop[k.menu[m].prompt].type = "menu"

RECURSIVE MenuGetParentMenu(_)
MenuGetParentMenu(m) == IF m = 1 \/ IsMenu(m) THEN m ELSE MenuGetParentMenu(k.menu[m].parent)

\* A menu other than the one asked for is only searched for new symbols.
Conf(m) ==
    LET s == k.menu[m].sym
        choice == IF st.sym[s].user THEN "choice" ELSE "newchoice"
    IN  IF IsMenu(m) /\ proc.mode # "oldaskconfig" /\ proc.root # m THEN Then(<<<<"check", m>>>>)
        ELSE IF s = NoSym THEN Then(Kids("conf", m))
        ELSE IF k.sym[s].choice THEN Then(<<<<"ask", m>>, <<choice, m>>, <<"rest", m>>>>)
        ELSE Then(<<<<"ask", m>>>> \o Kids("conf", m))

\* A mutant: a symbol is new for ever.
IsNewAlways(s, now) == SymIsChangable(now, s)

IsNew(s, now) ==
    /\ ~now.sym[s].user
    /\ SymIsChangable(now, s) \/ (k.sym[s].choice /\ now.sym[s].tri = 2)

\* An entry that is new makes all of its menu be asked for.
CheckConf(m, now) ==
    LET s == k.menu[m].sym
        root == MenuGetParentMenu(m)
    IN  IF s = NoSym \/ ~IsNew(s, now) THEN Then(Kids("check", m))
        ELSE IF proc.mode = "listnewconfig"
        THEN [Then(Kids("check", m)) EXCEPT !.listed = IF k.sym[s].choice THEN @ ELSE @ \cup {s}]
        ELSE [Then(<<<<"conf", root>>>> \o Kids("check", m)) EXCEPT !.again = TRUE, !.root = root]

\* Each step that asks whether an entry is visible.
Look ==
    LET m == Top[2]
        seen(r) ==
            /\ st' = r.st
            /\ proc' = CASE ~r.vis -> Then(<<>>)
                         [] r.vis /\ Top[1] = "conf" -> Conf(m)
                         [] r.vis /\ Top[1] = "check" -> CheckConf(m, r.st)
                         [] r.vis /\ Top[1] = "see" ->
                                [Then(<<>>) EXCEPT !.shown = IF k.menu[m].sym = NoSym THEN @
                                                             ELSE Append(@, m)]
    IN  /\ On({"conf", "check", "see"})
        /\ seen(MenuIsVisible(k, st, m))
        /\ UNCHANGED <<k, disk, by, full, changes>>

(***************************************************************************)
(* conf_askvalue, conf_sym and conf_string: what is asked, until an answer *)
(* is accepted; Enter stands for the value the symbol has.                 *)
(***************************************************************************)
Asked(s) == SymIsChangable(st, s) /\ (proc.mode = "oldaskconfig" \/ ~st.sym[s].user)

Answer(s, text) ==
    LET set(r) == r.ok /\ st' = r.st
    IN  /\ On({"ask"}) /\ k.menu[Top[2]].sym = s /\ Asked(s)
        /\ set(SymSetStringValue(k, st, s, text))
        /\ proc' = [Then(<<>>) EXCEPT !.said = <<s, text>>]
        /\ UNCHANGED <<k, disk, by, full, changes>>

Unasked ==
    /\ On({"ask"}) /\ ~Asked(k.menu[Top[2]].sym)
    /\ proc' = Then(<<>>)
    /\ UNCHANGED <<k, disk, st, by, full, changes>>

(***************************************************************************)
(* conf_choice after the question about the choice itself: its visible     *)
(* values are listed, and one of them is picked.  The value of the choice  *)
(* is taken when it is not new, and the only one without a question; when  *)
(* neither is listed the code goes on listing for ever.                    *)
(***************************************************************************)
Choice ==
    LET m == Top[2]
        pick == IF Top[1] = "choice" THEN "pick" ELSE "newpick"
        list(now) ==
            /\ st' = now
            /\ proc' = IF now.sym[k.menu[m].sym].tri # 2 THEN Then(<<>>)
                       ELSE [Then(Kids("see", m) \o <<<<pick, m>>>>) EXCEPT !.shown = <<>>]
    IN  /\ On({"choice", "newchoice"})
        /\ list(SymCalc(k, st, k.menu[m].sym))
        /\ UNCHANGED <<k, disk, by, full, changes>>

Pick(m) ==
    LET s == k.menu[m].sym
        default == {i \in DOMAIN proc.shown : k.menu[proc.shown[i]].sym = st.sym[k.menu[Top[2]].sym].val}
        asked == Top[1] = "newpick" \/ proc.mode = "oldaskconfig"
    IN  /\ On({"pick", "newpick"})
        /\ \E i \in DOMAIN proc.shown :
            /\ proc.shown[i] = m
            /\ Len(proc.shown) = 1 \/ asked \/ i \in default
        /\ st' = SymSetTristateValue(k, st, s, 2).st
        /\ proc' = Then(Kids("conf", m))
        /\ UNCHANGED <<k, disk, by, full, changes>>

\* Back in conf(): a choice that is m is asked for value by value.
Rest ==
    /\ On({"rest"})
    /\ proc' = Then(IF st.sym[k.menu[Top[2]].sym].tri = 1 THEN Kids("conf", Top[2]) ELSE <<>>)
    /\ UNCHANGED <<k, disk, st, by, full, changes>>

\* A mutant: one pass will do.
AnotherPassNever == proc.mode = "oldaskconfig"

\* "Update until a loop caused no more changes".
AnotherPass == proc.again \/ proc.mode = "oldaskconfig"

Pass ==
    /\ proc.pc = "ask" /\ proc.todo = <<>>
    /\ proc' = IF AnotherPass
               THEN [proc EXCEPT !.todo = <<<<"check", 1>>>>, !.again = FALSE,
                                 !.mode = IF @ = "oldaskconfig" THEN "oldconfig" ELSE @]
               ELSE IF proc.mode = "syncconfig" /\ ~st.changed THEN [proc EXCEPT !.pc = "split"]
               ELSE IF proc.mode = "listnewconfig" THEN [proc EXCEPT !.pc = "exit"]
               ELSE [proc EXCEPT !.pc = "write"]
    /\ UNCHANGED <<k, disk, st, by, full, changes>>

-----------------------------------------------------------------------------
\* What counts as calculated is what a calculation from nothing gives.
UpToDate ==
    LET calc == Fold(LAMBDA acc, s : SymCalc(k, acc, s), ClearAllValid(k, st), AllSymbols(k))
        same(now) == \A s \in DOMAIN k.sym : st.sym[s].valid =>
                        st.sym[s].tri = now.sym[s].tri /\ st.sym[s].val = now.sym[s].val
    IN  same(calc)

\* A choice has no line: its value is read back from those of its members.
ChoicesSaid ==
    \A c \in DOMAIN k.sym : k.sym[c].choice /\ st.sym[c].tri # 0 =>
        \E s \in ToSet(k.sym[c].members) : st.sym[s].tri # 0

Write ==
    LET write(r) == disk' = [disk EXCEPT !.config = r.lines] /\ st' = [r.st EXCEPT !.changed = FALSE]
    IN  /\ proc.pc = "write"
        /\ write(ConfWriteLines(k, st))
        /\ by' = IF ~(UpToDate /\ ChoicesSaid) THEN "unlike" ELSE IF proc.mode \in Asking THEN "asked" ELSE "made"
        /\ proc' = [proc EXCEPT !.pc = IF proc.mode = "syncconfig" THEN "split" ELSE "exit"]
        /\ UNCHANGED <<k, full, changes>>

SaveDefconfig ==
    /\ proc.pc = "save"
    /\ disk' = [disk EXCEPT !.def = ConfWriteDefconfig(k, st).lines]
    /\ full' = IF by \in {"made", "asked"} THEN disk.config ELSE Missing
    /\ proc' = [proc EXCEPT !.pc = "exit"]
    /\ UNCHANGED <<k, st, by, changes>>

(***************************************************************************)
(* conf_write_autoconf.  conf_split_config touches the stamps of what has  *)
(* changed one after the other; then autoconf.h and at last auto.conf are  *)
(* replaced by a rename (and tristate.conf, which nothing reads, between   *)
(* them).  The program may be killed after any of these steps, or fail to  *)
(* create, open or rename a file and return 1: what it did stays.          *)
(***************************************************************************)
\* A stop ends the life of the minimal configuration, as an edit does (a bound).
Stopped(files) ==
    /\ disk' = [files EXCEPT !.def = Missing] /\ full' = Missing
    /\ proc' = Idle /\ st' = SymInit(k)
Going(files, pc, now) ==
    disk' = files /\ full' = full /\ proc' = [proc EXCEPT !.pc = pc] /\ st' = now

\* Mutant: auto.conf is replaced before the stamps are touched.
SplitLate ==
    LET touched(r, n) == [disk EXCEPT !.auto = AutoconfLines(k, r.st),
                                       !.stamped = ToSet(SubSeq(r.touch, 1, n))]
        split(r) == \/ Going(touched(r, Len(r.touch)), "header", r.st)
                    \/ \E n \in StopsOf(k) \cap 0..Len(r.touch) : Stopped(touched(r, n))
    IN  /\ proc.pc = "split"
        /\ split(ConfSplitConfig(k, ClearAllValid(k, st), disk.auto))
        /\ UNCHANGED <<k, by, changes>>

\* All of the stamps are touched, or the first n before the program is stopped.
Split ==
    LET touched(r, n) == [disk EXCEPT !.stamped = @ \cup ToSet(SubSeq(r.touch, 1, n))]
        split(r) == \/ Going(touched(r, Len(r.touch)), "header", r.st)
                    \/ \E n \in StopsOf(k) \cap 0..Len(r.touch) : Stopped(touched(r, n))
    IN  /\ proc.pc = "split"
        /\ split(ConfSplitConfig(k, ClearAllValid(k, st), disk.auto))
        /\ UNCHANGED <<k, by, changes>>

RenameHeader ==
    LET renamed == [disk EXCEPT !.header = AutoconfLines(k, st)]
    IN  /\ proc.pc = "header"
        /\ Going(renamed, "rename", st) \/ (StopsOf(k) # {} /\ Stopped(renamed))
        /\ UNCHANGED <<k, by, changes>>

\* auto.conf is now newer than all stamps.
RenameAuto ==
    /\ proc.pc = "rename"
    /\ disk' = [disk EXCEPT !.auto = AutoconfLines(k, st), !.stamped = {}]
    /\ proc' = [proc EXCEPT !.pc = "exit"]
    /\ UNCHANGED <<k, st, by, full, changes>>

Exit ==
    /\ proc.pc = "exit"
    /\ proc' = Idle /\ st' = SymInit(k)
    /\ UNCHANGED <<k, disk, by, full, changes>>

Step ==
    \/ Read \/ ReadSeed \/ MakeAll \/ Look \/ Unasked \/ Choice \/ Rest \/ Pass
    \/ \E s \in DOMAIN k.sym \ ConstSym :
        \E text \in TextsOf(k, s) \cup {StringValue(k, st, s)} : Answer(s, text)
    \/ \E m \in DOMAIN k.menu : Pick(m)
    \/ Write \/ SaveDefconfig \/ Split \/ RenameHeader \/ RenameAuto \/ Exit
\* No more runs: only a program that runs can be in a deadlock.
Done == proc.pc = "idle" /\ UNCHANGED vars

Next == Edit \/ Step \/ Done \/ \E mode \in Modes : Begin(mode)
Spec == Init /\ [][Next]_vars

\* The program runs, and its user answers.  (Its steps are always enabled: no deadlock.)
FairSpec == Spec /\ ([]<>(proc.pc = "idle") \/ []<><<proc.pc # "idle">>_vars)

-----------------------------------------------------------------------------
Written == by \in {"made", "asked"} /\ proc.pc = "idle"

(***************************************************************************)
(* What the program wrote, it agrees with: olddefconfig finds nothing to   *)
(* change in it, and writes the same lines again.                          *)
(***************************************************************************)
Settled ==
    [][proc.mode = "olddefconfig" /\ by \in {"made", "asked"} =>
        /\ ~st'.changed
        /\ disk'.config = disk.config]_vars

(***************************************************************************)
(* What a configuration may say, from the menu tree alone: every option at *)
(* most once, not above what its prompts allow unless something forces it, *)
(* not below what selects it, a number in its range, and in every choice   *)
(* that is y exactly one value.                                            *)
(***************************************************************************)
ValueIn(file, s) ==
    LET at == SelectSeq(file, LAMBDA line : line[1] = s)
    IN  IF at = <<>> THEN Unset ELSE at[1][2]

IsLogical(s) == k.sym[s].type \in {"bool", "tristate"}

\* tri[s] is the value of each boolean and tristate, text[s] of each other symbol.
LegalWith(tri, text) ==
    LET is(e) == ExprCalcValue(e, [s \in DOMAIN k.sym |->
                    [tri |-> tri[s], str |-> IF IsLogical(s) THEN TriName[tri[s] + 1]
                                             ELSE text[s]]], Typed(k))
        value == [p \in DOMAIN k.prop |-> is(k.prop[p].vis)]
        sharp(s, v) == IF v = 1 /\ k.sym[s].type = "bool" THEN 2 ELSE v
        seen(s) == {value[p] : p \in ToSet(PropsOf(k, s, Texts))} \ {0}
        forced(s) == IF k.sym[s].rev = NoExpr THEN 0 ELSE sharp(s, is(k.sym[s].rev))
        most(s, low, vs) == IF vs = {} THEN 2 ELSE Upper(low, sharp(s, FoldSet(Upper, 0, vs)))
        between(s, low) == tri[s] \in low..most(s, low, seen(s))
        ones(c) == {s \in ToSet(k.sym[c].members) : tri[s] = 2}
        number(t) == IF text[t] \in DOMAIN Number[10] THEN Number[10][text[t]] ELSE 0
        ranges(s) == SelectSeq(PropsOf(k, s, {"range"}), LAMBDA p : value[p] # 0)
        inside(s, e) == number(s) \in number(e[2])..number(e[3])
    IN  \A s \in DOMAIN k.sym \ DOMAIN ConstTri :
            CASE k.sym[s].choice -> Cardinality(ones(s)) = IF tri[s] = 2 THEN 1 ELSE 0
              [] k.sym[s].chval -> tri[s] # 0 => seen(s) # {}
              [] IsLogical(s) /\ ~k.sym[s].choice /\ ~k.sym[s].chval -> between(s, forced(s))
              [] k.sym[s].type \in {"int", "hex"} /\ text[s] # Unset /\ ranges(s) # <<>> ->
                    inside(s, k.prop[ranges(s)[1]].expr)
              [] OTHER -> TRUE

\* What is calculated of the symbols means something in an expression: a
\* boolean is never m, the text of an option is that of its value.
Calculated ==
    \A s \in {t \in DOMAIN k.sym : st.sym[t].valid} :
        LET text == StringValue(k, st, s)
        IN  /\ st.sym[s].tri \in Tristate /\ text \in ToSet(StrOrder)
            /\ IsLogical(s) => text = TriName[st.sym[s].tri + 1]
            /\ k.sym[s].type = "bool" => st.sym[s].tri # 1
            /\ s \in ConstSym => k.sym[s].type = "unknown" /\ text = s

\* Besides, what the file says is legal.  A choice has no line of its own: it
\* has some value that fits.
Legal ==
    LET file == disk.config
        said(s) == LET v == ValueIn(file, s) IN IF v \in DOMAIN ConstTri THEN ConstTri[v] ELSE 0
        choices == {s \in DOMAIN k.sym : k.sym[s].choice}
        tri(f) == [s \in DOMAIN k.sym |-> IF s \in choices THEN f[s]
                                         ELSE IF s \in DOMAIN ConstTri THEN ConstTri[s] ELSE said(s)]
        text == [s \in DOMAIN k.sym |-> IF Declared(k, s) THEN ValueIn(file, s) ELSE s]
    IN  /\ Calculated
        /\ Written => /\ \A i, j \in DOMAIN file : file[i][1] = file[j][1] => i = j
                      /\ \E f \in [choices -> Tristate] : LegalWith(tri(f), text)

(***************************************************************************)
(* When the questions end, whatever the answers opened has been asked for: *)
(* nothing the user can see and set is still new.                          *)
(***************************************************************************)
RECURSIVE Displayed(_)
Displayed(m) == MenuIsVisible(k, st, m).vis /\ (m = 1 \/ Displayed(k.menu[m].parent))

EverythingAsked ==
    proc.pc = "write" /\ proc.mode \in {"oldconfig", "syncconfig"} =>
        \A m \in DOMAIN k.menu :
            k.menu[m].sym # NoSym /\ ~st.sym[k.menu[m].sym].user /\ Displayed(m) =>
                ~SymIsChangable(st, k.menu[m].sym)

(***************************************************************************)
(* An answer that was accepted is the value the symbol has, and the        *)
(* questions do not end before everything has been asked for.              *)
(***************************************************************************)
AnswerHolds ==
    LET is(s, text) == StringValue(k, SymCalc(k, st, s), s) = text
    IN  proc.said # <<>> => is(proc.said[1], proc.said[2])
QuestionsServe == AnswerHolds /\ EverythingAsked

(***************************************************************************)
(* A minimal configuration restores the one it was saved from.             *)
(***************************************************************************)
DefconfigRestores ==
    [][proc.mode = "defconfig" /\ proc.pc = "write" /\ full # Missing =>
        disk'.config = full]_vars

(***************************************************************************)
(* What is built again is what depends on a stamp newer than auto.conf.    *)
(* Whenever autoconf.h or auto.conf comes to say something of a symbol     *)
(* that auto.conf did not say, the stamp of the symbol is there already:   *)
(* also when the runs before were stopped half-way, and .config edited in  *)
(* between, so that auto.conf still is of an older run than some stamps    *)
(* and than autoconf.h.                                                    *)
(***************************************************************************)
StampsCoverChanges ==
    [][disk' # disk =>
        \A s \in DOMAIN k.sym :
            LET before == ValueIn(disk.auto, s)
            IN  ValueIn(disk'.auto, s) # before \/ ValueIn(disk'.header, s) # before =>
                    s \in disk.stamped]_vars

(***************************************************************************)
(* The questions come to an end.                                           *)
(***************************************************************************)
Terminates == proc.pc # "idle" ~> proc.pc = "idle"
=============================================================================
