------------------------------ MODULE KSymbol ------------------------------
(***************************************************************************)
(* The values of the symbols: support/kconfig/symbol.c.  A value is        *)
(* calculated when it is asked for and kept until the next change; the     *)
(* calculation of one symbol calculates those its conditions name.         *)
(*                                                                         *)
(* k is the tree of KMenu after menu_finalize; it does not change here.    *)
(* st.sym[s] is what the symbol s holds:                                   *)
(*   valid, user, write, need     SYMBOL_VALID, SYMBOL_DEF_USER,           *)
(*                                SYMBOL_WRITE and                         *)
(*                                SYMBOL_NEED_SET_CHOICE_VALUES            *)
(*   dtri, dval                   def[S_DEF_USER]                          *)
(*   auser, adtri, adval          the same of S_DEF_AUTO                   *)
(*   tri, val                     curr; the val of a choice is a symbol    *)
(*   vis, dirtri, revtri, imptri  the visibility and the dependencies      *)
(* st.modval is modules_val and st.changed says whether                    *)
(* sym_change_count is above 0.                                            *)
(***************************************************************************)
EXTENDS KMenu

CONSTANT
    ToStr      \* ToStr[t] maps the numbers of the model to their text as type t

Unset == ""

ConstTri == [c \in {"n", "m", "y"} |-> CHOOSE i \in Tristate : TriName[i + 1] = c]

SymInit(k) ==
    [sym |-> [s \in DOMAIN k.sym |->
        [valid |-> s \in DOMAIN ConstTri, user |-> FALSE, write |-> FALSE,
         need |-> FALSE, dtri |-> 0, dval |-> Unset,
         auser |-> FALSE, adtri |-> 0, adval |-> Unset,
         tri |-> IF s \in DOMAIN ConstTri THEN ConstTri[s] ELSE 0,
         val |-> IF s \in DOMAIN ConstTri THEN s ELSE Unset,
         vis |-> 0, dirtri |-> 0, revtri |-> 0, imptri |-> 0]],
     modval |-> 0, changed |-> FALSE]

SymGetType(k, st, s) ==
    LET type == k.sym[s].type
    IN  IF type = "tristate" /\ (st.modval = 0 \/ (k.sym[s].chval /\ st.sym[s].vis = 2))
        THEN "bool" ELSE type

ChoiceOf(k, s) ==        \* prop_get_symbol(sym_get_choice_prop(s)) of a value
    LET p == CHOOSE i \in DOMAIN k.prop : k.prop[i].sym = s /\ k.prop[i].type = "choice"
    IN  k.prop[p].expr[2]

PropsOf(k, s, types) ==
    SelectSeq(k.sym[s].props, LAMBDA p : k.prop[p].type \in types)

(***************************************************************************)
(* sym_get_string_value of a calculated symbol, and the value of an        *)
(* expression whose symbols are calculated.                                *)
(***************************************************************************)
StringValue(k, st, s) ==
    CASE k.sym[s].type \in {"bool", "tristate"} ->
            IF st.sym[s].tri = 1 /\ st.sym[k.modules].tri = 0 THEN "n"
            ELSE TriName[st.sym[s].tri + 1]
      [] OTHER -> st.sym[s].val

Eval(k, st, e) ==
    ExprCalcValue(e, [s \in DOMAIN k.sym |-> [tri |-> st.sym[s].tri,
                                              str |-> StringValue(k, st, s)]], Typed(k))

RECURSIVE SymbolsIn(_)
SymbolsIn(e) ==
    CASE e = NoExpr -> <<>>
      [] e # NoExpr /\ e[1] \in Logical -> SymbolsIn(e[2]) \o SymbolsIn(e[3])
      [] e # NoExpr /\ e[1] = "not" -> SymbolsIn(e[2])
      [] OTHER -> Tail(e)

Mod2Yes(k, st, s, tri) ==
    IF tri = 1 /\ SymGetType(k, st, s) = "bool" THEN 2 ELSE tri

-----------------------------------------------------------------------------
RECURSIVE ExprValue(_, _, _), SymCalcValue(_, _, _)

\* expr_calc_value, which calculates the symbols of the expression first.
ExprValue(k, st, e) ==
    LET of(after) == [st |-> after, tri |-> Eval(k, after, e)]
    IN  of(Fold(LAMBDA acc, s : SymCalcValue(k, acc, s), st, SymbolsIn(e)))

\* sym_calc_value, for the code outside of this cycle.
SymCalc(k, st, s) == ExprValue(k, st, Sym(s)).st

(***************************************************************************)
(* The first property of the types whose condition is not n, with the      *)
(* value of the condition; 0 and n when there is none.                     *)
(***************************************************************************)
FirstHolding(k, st, s, types) ==
    LET found(p, v) == [st |-> v.st, prop |-> IF v.tri = 0 THEN 0 ELSE p, tri |-> v.tri]
        try(acc, p) == IF acc.prop # 0 THEN acc ELSE found(p, ExprValue(k, acc.st, k.prop[p].vis))
    IN  Fold(try, [st |-> st, prop |-> 0, tri |-> 0], PropsOf(k, s, types))

ExprOf(k, f) == IF f.prop = 0 THEN NoExpr ELSE k.prop[f.prop].expr

BaseOf(k, s) == IF k.sym[s].type = "int" THEN 10 ELSE 16
StrToLL(str, base) == IF str \in DOMAIN Number[base] THEN Number[base][str] ELSE 0

\* An end of a range is read in the base of its own type, if it has one.
RangeVal(k, st, end, base) ==
    LET own == k.sym[end].type
    IN  StrToLL(st.sym[end].val, IF own \in {"int", "hex"} THEN BaseOf(k, end) ELSE base)

\* The two ends of the range that holds for s, which are calculated in st.
RangeEnds(k, st, s, e) == <<RangeVal(k, st, e[2], BaseOf(k, s)), RangeVal(k, st, e[3], BaseOf(k, s))>>

\* A mutant: a value that was calculated is not brought into its range.
SymValidateRangeNot(k, st, s) == st

SymValidateRange(k, st, s) ==
    LET set(after, val) == [after EXCEPT !.sym[s].val = ToStr[k.sym[s].type][val]]
        clamp(after, ends, val) == IF val < ends[1] THEN set(after, ends[1])
                                   ELSE IF val > ends[2] THEN set(after, ends[2])
                                   ELSE after
        within(f, after) ==
            IF f.prop = 0 THEN after
            ELSE clamp(after, RangeEnds(k, after, s, ExprOf(k, f)),
                       StrToLL(st.sym[s].val, BaseOf(k, s)))
        range(f) == within(f, ExprValue(k, f.st, ExprOf(k, f)).st)
    IN  IF k.sym[s].type \notin {"int", "hex"} THEN st
        ELSE range(FirstHolding(k, st, s, {"range"}))

(***************************************************************************)
(* The upper bound of what the user can set, and what is forced.  A value  *)
(* of a choice has no dependencies of its own.                             *)
(***************************************************************************)
PromptVis(k, st, s) ==
    LET hidden(v) == /\ k.sym[s].chval /\ k.sym[s].type = "tristate"
                     /\ v.tri = 1 /\ v.st.sym[ChoiceOf(k, s)].tri = 2
        add(acc, v) == [st |-> v.st, tri |-> Upper(acc.tri, IF hidden(v) THEN 0 ELSE v.tri)]
        set(seen) == [seen.st EXCEPT !.sym[s].vis =
                        IF seen.tri = 1 /\ (k.sym[s].type # "tristate" \/ seen.st.modval = 0)
                        THEN 2 ELSE seen.tri]
    IN  set(Fold(LAMBDA acc, p : add(acc, ExprValue(k, acc.st, k.prop[p].vis)),
                 [st |-> st, tri |-> 0], PropsOf(k, s, Texts)))

\* What encloses the symbol, what selects it, and what implies it.
SymCalcVisibility(k, st, s) ==
    LET none == [dirtri |-> 2, revtri |-> 0, imptri |-> 0]
        expr(at, acc) == CASE at = "dirtri" -> k.sym[s].dir
                           [] at = "revtri" -> k.sym[s].rev
                           [] at = "imptri" -> IF acc.sym[s].dirtri = 0 THEN NoExpr
                                               ELSE k.sym[s].implied
        set(at, e, v) == [v.st EXCEPT !.sym[s][at] =
                            IF e = NoExpr THEN none[at] ELSE Mod2Yes(k, v.st, s, v.tri)]
        bound(acc, at, e) == set(at, e, ExprValue(k, acc, e))
    IN  Fold(LAMBDA acc, at : bound(acc, at, expr(at, acc)), PromptVis(k, st, s),
             IF k.sym[s].chval THEN <<>> ELSE <<"dirtri", "revtri", "imptri">>)

(***************************************************************************)
(* The value of a choice that is y: the user's, a default, or the first.   *)
(* The choice stays new as long as one of its visible values is.           *)
(***************************************************************************)
SymChoiceDefault(k, st, c) ==
    LET tried(def, v) == [st |-> v.st, def |-> IF v.tri # 0 /\ v.st.sym[def].vis # 0 THEN def
                                               ELSE Unset]
        try(acc, p) == IF acc.def # Unset THEN acc
                       ELSE tried(k.prop[p].expr[2], ExprValue(k, acc.st, k.prop[p].vis))
        first(given) ==
            LET shown == SelectSeq(k.sym[c].members, LAMBDA s : given.st.sym[s].vis # 0)
            IN  IF given.def # Unset \/ shown = <<>> THEN given
                ELSE [given EXCEPT !.def = shown[1]]
    IN  first(Fold(try, [st |-> st, def |-> Unset], PropsOf(k, c, {"default"})))

SymCalcChoice(k, st, c) ==
    LET news(seen) ==
            [seen EXCEPT !.sym[c].user = @ /\ \A s \in ToSet(k.sym[c].members) :
                                                seen.sym[s].vis # 0 => seen.sym[s].user]
        default(def) == [def.st EXCEPT !.sym[c].val = def.def,
                                       !.sym[c].tri = IF def.def = Unset THEN 0 ELSE @]
        choose(st1) ==
            LET chosen == st1.sym[c].dval
            IN  IF chosen # Unset /\ st1.sym[chosen].vis # 0
                THEN [st1 EXCEPT !.sym[c].val = chosen]
                ELSE default(SymChoiceDefault(k, st1, c))
    IN  choose(news(Fold(LAMBDA acc, s : SymCalcVisibility(k, acc, s), st, k.sym[c].members)))

(***************************************************************************)
(* A boolean or tristate: the user's value within its bounds when it is    *)
(* visible, else its default or what implies it; never less than what      *)
(* selects it.                                                             *)
(***************************************************************************)
CalcTri(k, st, s) ==
    LET me == st.sym[s]
        implied == IF k.sym[s].choice THEN 0 ELSE me.imptri
        given(after, tri) ==
            [after EXCEPT !.sym[s].write = @ \/ me.revtri # 0 \/ tri # 0 \/ implied # 0,
                          !.sym[s].tri = Upper(me.revtri, Upper(tri, implied))]
        value(f, v) == given(v.st, Lower(v.tri, f.tri))
        default(f) == value(f, ExprValue(k, f.st, ExprOf(k, f)))
    IN  IF me.vis # 0 /\ me.user
        THEN [st EXCEPT !.sym[s].tri = Upper(me.revtri, Lower(me.dtri, me.vis))]
        ELSE default(FirstHolding(k, st, s, IF k.sym[s].choice THEN {} ELSE {"default"}))

CalcBool(k, st, s) ==
    LET me == st.sym[s]
        raise(free) ==
            [free EXCEPT !.sym[s].tri =
                IF @ = 1 /\ (SymGetType(k, free, s) = "bool" \/ me.imptri = 2) THEN 2 ELSE @]
    IN  raise(IF k.sym[s].chval /\ me.vis = 2
              THEN [st EXCEPT !.sym[s].tri = IF st.sym[ChoiceOf(k, s)].val = s THEN 2 ELSE 0]
              ELSE CalcTri(k, st, s))

CalcString(k, st, s) ==
    LET me == st.sym[s]
        copy(after, ds) == [after EXCEPT !.sym[s].val = after.sym[ds].val]
        default(f) ==
            LET ds == ExprOf(k, f)[2]
            IN  IF f.prop = 0 THEN f.st
                ELSE copy(SymCalcValue(k, [f.st EXCEPT !.sym[s].write = TRUE], ds), ds)
    IN  IF me.vis # 0 /\ me.user THEN [st EXCEPT !.sym[s].val = me.dval]
        ELSE default(FirstHolding(k, st, s, {"default"}))

(***************************************************************************)
(* set_all_choice_values (confdata.c): a choice that was read from a file  *)
(* with one value makes the others n, and is itself set.                   *)
(***************************************************************************)
SetAllChoiceValues(k, st, c) ==
    LET values == ToSet(k.sym[c].members)
    IN  [st EXCEPT !.sym = [s \in DOMAIN @ |->
            CASE s = c -> [@[s] EXCEPT !.user = TRUE, !.need = FALSE, !.valid = FALSE]
              [] s \in values /\ ~@[s].user -> [@[s] EXCEPT !.dtri = 0]
              [] OTHER -> @[s]]]

AfterChoice(k, st, c) ==
    LET written == [st EXCEPT !.sym = [s \in DOMAIN @ |->
            IF s \in ToSet(k.sym[c].members) /\ @[c].write /\ @[s].vis # 0
            THEN [@[s] EXCEPT !.write = TRUE] ELSE @[s]]]
    IN  IF k.sym[c].choice THEN written ELSE st

\* The steps of sym_calc_value, each on what the one before it leaves.
SymCalcValue(k, st, s) ==
    LET parentFirst == k.sym[s].chval /\ st.sym[s].need
        parent == IF parentFirst
                  THEN SymCalcValue(k, [st EXCEPT !.sym[s].need = FALSE], ChoiceOf(k, s))
                  ELSE st
        open(st1) == [st1 EXCEPT !.sym[s].valid = TRUE, !.sym[s].write = FALSE]
        clear(st1) == [st1 EXCEPT !.sym[s].write = st1.sym[s].vis # 0,
                                  !.sym[s].tri = 0, !.sym[s].val = Unset]
        value(st1) == IF k.sym[s].type \in {"bool", "tristate"} THEN CalcBool(k, st1, s)
                      ELSE CalcString(k, st1, s)
        choose(st1) == IF k.sym[s].choice /\ st1.sym[s].tri = 2 THEN SymCalcChoice(k, st1, s)
                       ELSE st1
        modules(st1) == IF s = k.modules THEN [st1 EXCEPT !.modval = st1.sym[s].tri] ELSE st1
        auto(st1) == [st1 EXCEPT !.sym[s].write = @ /\ ~k.sym[s].auto]
        all(st1) == IF st1.sym[s].need THEN SetAllChoiceValues(k, st1, s) ELSE st1
    IN  CASE st.sym[s].valid -> st
          [] ~st.sym[s].valid /\ k.sym[s].type = "unknown" ->
                [st EXCEPT !.sym[s].valid = TRUE, !.sym[s].val = s, !.sym[s].tri = 0]
          [] OTHER ->
                all(auto(AfterChoice(k, modules(SymValidateRange(k, choose(value(clear(
                    SymCalcVisibility(k, open(parent), s)))), s)), s)))

-----------------------------------------------------------------------------
ClearAllValid(k, st) ==
    SymCalc(k, [st EXCEPT !.changed = TRUE,
                     !.sym = [s \in DOMAIN @ |->
                        IF s \in DOMAIN ConstTri THEN @[s]
                        ELSE [@[s] EXCEPT !.valid = FALSE]]], k.modules)

SymTristateWithinRange(k, st, s, val) ==
    LET me == st.sym[s]
        type == SymGetType(k, st, s)
    IN  /\ me.vis # 0
        /\ type \in {"bool", "tristate"}
        /\ ~(type = "bool" /\ val = 1)
        /\ me.vis > me.revtri
        /\ ~(me.imptri = 2 /\ val = 1)
        /\ IF k.sym[s].chval /\ me.vis = 2 THEN val = 2
           ELSE val \in me.revtri..me.vis

\* A value that is set makes all the others out of date; the same value again
\* only becomes the user's.
\* A mutant: the values are calculated anew, but nothing has to be saved.
ChangedQuietly(k, st, change) == IF change THEN [ClearAllValid(k, st) EXCEPT !.changed = st.changed] ELSE st

Changed(k, st, change) == IF change THEN ClearAllValid(k, st) ELSE st

\* The result: whether the value was accepted, and the state.
WithTristate(k, st, s, val) ==
    LET c == ChoiceOf(k, s)
        marked == [st EXCEPT !.sym[s].user = TRUE, !.sym[s].dtri = val]
    IN  IF ~(k.sym[s].chval /\ val = 2) THEN marked
        ELSE [marked EXCEPT !.sym = [t \in DOMAIN @ |->
                CASE t = c -> [@[t] EXCEPT !.dval = s, !.user = TRUE]
                  [] t \in ToSet(k.sym[c].members) /\ @[t].vis # 0 ->
                        [@[t] EXCEPT !.user = TRUE]
                  [] OTHER -> @[t]]]

SymSetTristateValue(k, st, s, val) ==
    LET old == st.sym[s].tri
    IN  IF old # val /\ ~SymTristateWithinRange(k, st, s, val) THEN [ok |-> FALSE, st |-> st]
        ELSE [ok |-> TRUE, st |-> Changed(k, WithTristate(k, st, s, val), old # val)]

\* The next value, n then m then y, that is accepted.
SymToggleTristateValue(k, st, s) ==
    LET old == st.sym[s].tri
        try(r, i) == IF r.ok THEN r ELSE SymSetTristateValue(k, r.st, s, (old + i) % 3)
    IN  Fold(try, [ok |-> FALSE, st |-> st], <<1, 2, 3>>).st

SymStringValid(k, s, str) ==
    CASE k.sym[s].type = "string" -> TRUE
      [] k.sym[s].type \in {"int", "hex"} -> str \in ValidFor[k.sym[s].type]
      [] k.sym[s].type \in {"bool", "tristate"} -> str \in DOMAIN ConstTri
      [] OTHER -> FALSE

SymStringWithinRange(k, st, s, str) ==
    LET between(ends) == StrToLL(str, BaseOf(k, s)) \in ends[1]..ends[2]
        ranged(f) == f.prop = 0 \/ between(RangeEnds(k, ExprValue(k, f.st, ExprOf(k, f)).st,
                                                     s, ExprOf(k, f)))
    IN  CASE k.sym[s].type \in {"bool", "tristate"} ->
                str \in DOMAIN ConstTri /\ SymTristateWithinRange(k, st, s, ConstTri[str])
          [] k.sym[s].type \in {"int", "hex"} ->
                SymStringValid(k, s, str) /\ ranged(FirstHolding(k, st, s, {"range"}))
          [] OTHER -> SymStringValid(k, s, str)

\* (A hex number without 0x gets it: the model's texts all have it.)
SymSetStringValue(k, st, s, str) ==
    LET logical == k.sym[s].type \in {"bool", "tristate"}
        tri == ConstTri[str]
        same == IF logical THEN st.sym[s].tri = tri ELSE st.sym[s].dval = str
        set == IF logical THEN WithTristate(k, st, s, tri)
               ELSE [st EXCEPT !.sym[s].user = TRUE, !.sym[s].dval = str]
    IN  IF (logical => str \in DOMAIN ConstTri)
           /\ ((logical /\ same) \/ SymStringWithinRange(k, st, s, str))
        THEN [ok |-> TRUE, st |-> Changed(k, set, ~same)]
        ELSE [ok |-> FALSE, st |-> st]

(***************************************************************************)
(* What conf_write_defconfig takes for the value a symbol has by itself.   *)
(***************************************************************************)
SymGetStringDefault(k, st, s) ==
    LET tri(after, given) ==
            LET me == after.sym[s]
                noMod == \/ k.sym[s].type = "bool"
                         \/ ~k.sym[s].chval /\ after.sym[k.modules].tri = 0
                forced == Upper(me.revtri, given)
            IN  TriName[Upper(me.imptri, IF forced = 1 /\ noMod THEN 2 ELSE forced) + 1]
        of(f, v) ==
            [st |-> v.st,
             str |-> IF k.sym[s].type \in {"bool", "tristate"} THEN tri(v.st, Lower(v.tri, f.tri))
                     ELSE IF f.prop = 0 THEN Unset ELSE v.st.sym[ExprOf(k, f)[2]].val]
        default(f) == of(f, ExprValue(k, f.st, ExprOf(k, f)))
    IN  default(FirstHolding(k, SymCalc(k, SymCalcVisibility(k, st, s), k.modules), s, {"default"}))

\* A mutant: a symbol that is selected to its upper limit is offered.
SymIsChangableAt(st, s) == st.sym[s].vis >= st.sym[s].revtri

SymIsChangable(st, s) == st.sym[s].vis > st.sym[s].revtri

-----------------------------------------------------------------------------
(***************************************************************************)
(* The search for recursive dependencies.  check is the path the search is *)
(* on, checked what it has seen, reported the symbols it came back to; hit *)
(* is the symbol the path closes at.                                       *)
(***************************************************************************)
RECURSIVE SymCheckDeps(_, _, _)

Until(c, xs, step(_, _)) ==       \* the steps up to the first that hits
    Fold(LAMBDA acc, x : IF acc.hit # NoSym THEN acc ELSE step(acc, x), c, xs)

SymCheckExprDeps(k, c, e) == Until(c, SymbolsIn(e), LAMBDA acc, s : SymCheckDeps(k, acc, s))

\* A mutant: who selects a symbol is not looked at.
SymCheckSymDepsNoRev(k, c, s) ==
    Until(c, k.sym[s].props, LAMBDA acc, p : SymCheckExprDeps(k, acc, k.prop[p].vis))

SymCheckSymDeps(k, c, s) ==
    LET checkProp(acc, p) ==
            Until(acc, <<k.prop[p].vis>> \o
                       (IF k.prop[p].type = "default" /\ ~k.sym[s].choice
                        THEN <<k.prop[p].expr>> ELSE <<>>),
                  LAMBDA a, e : SymCheckExprDeps(k, a, e))
        checked == SelectSeq(k.sym[s].props,
                             LAMBDA p : k.prop[p].type \notin {"choice", "select"})
    IN  Until(SymCheckExprDeps(k, c, k.sym[s].rev), checked, checkProp)

SymCheckChoiceDeps(k, c, ch) ==
    LET values == k.sym[ch].members
        marked == {ch} \cup ToSet(values)
        each(own) == Until([own EXCEPT !.check = @ \ {ch}], values,
                           LAMBDA acc, s : SymCheckSymDeps(k, acc, s))
        done(all) == [all EXCEPT !.check = @ \ ToSet(values),
                                 !.hit = IF @ \in ToSet(values) THEN ch ELSE @]
    IN  done(each(SymCheckSymDeps(k, [c EXCEPT !.check = @ \cup marked,
                                               !.checked = @ \cup marked], ch)))

SymCheckDeps(k, c, s) ==
    LET open == [c EXCEPT !.check = @ \cup {s}, !.checked = @ \cup {s}]
        close(own) == [own EXCEPT !.check = @ \ {s}]
        found == CASE k.sym[s].chval -> SymCheckDeps(k, c, ChoiceOf(k, s))
                   [] ~k.sym[s].chval /\ k.sym[s].choice -> SymCheckChoiceDeps(k, c, s)
                   [] OTHER -> close(SymCheckSymDeps(k, open, s))
        settle(all) == [all EXCEPT !.hit = IF @ = s THEN NoSym ELSE @]
    IN  CASE s \in c.check -> [c EXCEPT !.hit = s, !.reported = @ \cup {s}]
          [] s \notin c.check /\ s \in c.checked -> c
          [] OTHER -> settle(found)

\* The symbols "recursive dependency detected!" is printed for.
Recursive(k) ==
    Fold(LAMBDA c, s : IF s = NoSym THEN c ELSE SymCheckDeps(k, [c EXCEPT !.hit = NoSym], s),
             [check |-> {}, checked |-> {}, reported |-> {}, hit |-> NoSym],
             [m \in DOMAIN k.menu |-> k.menu[m].sym]).reported
=============================================================================
