------------------------------- MODULE KRules -------------------------------
(***************************************************************************)
(* The expressions of the configuration language, and one step of each     *)
(* function of support/kconfig/expr.c that simplifies, compares or         *)
(* evaluates them.                                                         *)
(*                                                                         *)
(* An expression is a tuple whose first component is its type:             *)
(*   <<>>                   no expression (NULL), which stands for y       *)
(*   <<"sym", s>>           the value of the symbol s                      *)
(*   <<"not", e>>  <<"and", e, f>>  <<"or", e, f>>                         *)
(*   <<"eq", s, t>> and "neq" "lth" "leq" "gth" "geq"     a comparison     *)
(*   <<"range", s, t>>      the two ends of a range                        *)
(* The constants y, m and n of the language are the symbols "y", "m", "n". *)
(* The operators that look at the type of a symbol take it as ty, a        *)
(* function from symbols to "unknown" "bool" "tristate" "int" "hex"        *)
(* "string".  A tree is a value here: what the code rewrites in place is   *)
(* returned, and what it copies or frees needs no definition.              *)
(*                                                                         *)
(* A function that calls itself is a rule: what it returns for an          *)
(* expression, given what it returns for others (Rec).  KExpr closes the   *)
(* recursions, and its operator (ExprTransform for TransformRule) is the   *)
(* one that PROJECT.json gives the lines of the function.                  *)
(***************************************************************************)
EXTENDS Integers, Sequences

CONSTANTS
    ConstSym,   \* the symbols with SYMBOL_CONST: y, m, n and quoted words
    StrOrder,   \* the strings of the model in the order of strcmp
    Number      \* Number[b] maps the strings strtoll(.., b) reads whole

\* strcmp tells two strings apart, and y, m and n are not numbers.
ASSUME TextAssumption ==
    /\ \A i \in DOMAIN StrOrder, j \in DOMAIN StrOrder : StrOrder[i] = StrOrder[j] => i = j
    /\ DOMAIN StrOrder \subseteq Int
    /\ {"y", "m", "n"} \cap DOMAIN Number[0] = {}

Tristate == 0..2          \* no, mod, yes
TriName == <<"n", "m", "y">>
Logical == {"and", "or"}
Relation == {"eq", "neq", "lth", "leq", "gth", "geq"}

NoExpr == <<>>
Sym(s) == <<"sym", s>>
Not(e) == <<"not", e>>
Comp(t, s1, s2) == <<t, s1, s2>>

ExprAllocAnd(e1, e2) ==
    IF e1 = NoExpr THEN e2 ELSE IF e2 = NoExpr THEN e1 ELSE <<"and", e1, e2>>

ExprAllocOr(e1, e2) ==
    IF e1 = NoExpr THEN e2 ELSE IF e2 = NoExpr THEN e1 ELSE <<"or", e1, e2>>

ExprIsYes(e) == e = NoExpr \/ e = Sym("y")

(***************************************************************************)
(* The operand an && or an || does not need, and the one that decides it.  *)
(***************************************************************************)
Unit(t) == IF t = "and" THEN Sym("y") ELSE Sym("n")
Zero(t) == IF t = "and" THEN Sym("n") ELSE Sym("y")

\* expr_eliminate_yn.
JoinYn(t, l, r) ==
    IF Zero(t) \in {l, r} THEN Zero(t)
    ELSE IF l = Unit(t) THEN r
    ELSE IF r = Unit(t) THEN l
    ELSE <<t, l, r>>
YnRule(e, Rec(_)) ==
    IF e = NoExpr \/ e[1] \notin Logical THEN e ELSE JoinYn(e[1], Rec(e[2]), Rec(e[3]))

(***************************************************************************)
(* Equality of two expressions: the operands common to the same level of   *)
(* both are struck out, and what is left must be the same symbol.          *)
(***************************************************************************)
LeavesRule(t, p, Leaves(_, _), Eq(_, _)) ==
    LET e1 == p[1]
        e2 == p[2]
        split1(a, b) == <<<<t, a[1], b[1]>>, b[2]>>
        split2(a, b) == <<b[1], <<t, a[2], b[2]>>>>
    IN  IF e1[1] = t THEN LET a == Leaves(t, <<e1[2], e2>>) IN split1(a, Leaves(t, <<e1[3], a[2]>>))
        ELSE IF e2[1] = t THEN LET a == Leaves(t, <<e1, e2[2]>>) IN split2(a, Leaves(t, <<a[1], e2[3]>>))
        ELSE IF (e1 = e2 /\ e1 \in {Sym("y"), Sym("n")}) \/ ~Eq(e1, e2) THEN p
        ELSE <<Unit(t), Unit(t)>>

EliminateEqRule(p, Leaves(_, _), Yn(_)) ==
    LET first == IF p[1][1] \in Logical THEN Leaves(p[1][1], p) ELSE p
        both  == IF first[2][1] \in Logical /\ first[1][1] # first[2][1]
                 THEN Leaves(first[2][1], first) ELSE first
    IN  IF NoExpr \in {p[1], p[2]} THEN p ELSE <<Yn(both[1]), Yn(both[2])>>

EqRule(e1, e2, Rec(_, _), EliminateEq(_)) ==
    /\ e1[1] = e2[1]
    /\ \/ e1[1] \in Relation \cup {"sym"} /\ e1 = e2
       \/ e1[1] = "not" /\ Rec(e1[2], e2[2])
       \/ /\ e1[1] \in Logical
          /\ LET p == EliminateEq(<<e1, e2>>) IN p[1][1] = "sym" /\ p[1] = p[2]

(***************************************************************************)
(* One expression for e1 || e2, or for e1 && e2, when both are about the   *)
(* same boolean or tristate symbol; NoExpr when there is none.             *)
(***************************************************************************)
Third(a, b) == CHOOSE c \in {"y", "m", "n"} : c \notin {a, b}
Constants(e1, e2) == e1[3] # e2[3] /\ {e1[3], e2[3]} \subseteq {"y", "m", "n"}

JoinSym(e1, e2) ==
    LET simple(e) == e[1] \in {"eq", "neq", "sym"}
        ok1 == simple(e1) \/ (e1[1] = "not" /\ simple(e1[2]))
        ok2 == simple(e2) \/ (e2[1] = "not" /\ e2[2][1] = "sym")
        s(e) == IF e[1] = "not" THEN e[2][2] ELSE e[2]
    IN  IF ok1 /\ ok2 /\ s(e1) = s(e2) THEN s(e1) ELSE ""

JoinOrRule(e1, e2, ty, Eq(_, _)) ==
    LET s == JoinSym(e1, e2)
    IN  IF Eq(e1, e2) THEN e1
        ELSE IF s = "" \/ ty[s] \notin {"bool", "tristate"} THEN NoExpr
        ELSE IF ty[s] = "tristate" /\ e1[1] = "eq" /\ e2[1] = "eq" /\ Constants(e1, e2)
        THEN Comp("neq", s, Third(e1[3], e2[3]))
        ELSE IF ty[s] = "bool" /\ {e1, e2} = {Sym(s), Not(Sym(s))} THEN Sym("y")
        ELSE NoExpr

JoinAndRule(e1, e2, ty, Eq(_, _)) ==
    LET s == JoinSym(e1, e2)
        symAnd(t, v) == {e1, e2} = {Sym(s), Comp(t, s, v)}
        eq  == IF e1[1] = "eq" THEN e1 ELSE e2
        neq == IF e1[1] = "eq" THEN e2 ELSE e1
    IN  IF Eq(e1, e2) THEN e1
        ELSE IF s = "" \/ ty[s] \notin {"bool", "tristate"} THEN NoExpr
        ELSE IF symAnd("eq", "y") \/ symAnd("neq", "m") THEN Comp("eq", s, "y")
        ELSE IF symAnd("neq", "n") THEN Sym(s)
        ELSE IF /\ ty[s] = "tristate" /\ {e1[1], e2[1]} = {"eq", "neq"}
                /\ {eq[3], neq[3]} \subseteq ConstSym
        THEN IF eq[3] = neq[3] THEN Sym("n") ELSE eq
        ELSE IF ty[s] = "tristate" /\ e1[1] = "neq" /\ e2[1] = "neq" /\ Constants(e1, e2)
        THEN Comp("eq", s, Third(e1[3], e2[3]))
        ELSE NoExpr

(***************************************************************************)
(* A comparison of a boolean with a constant becomes the symbol or its     *)
(* negation, and a negation is pushed down to the symbols.                 *)
(***************************************************************************)
Negated == [eq |-> "neq", neq |-> "eq", leq |-> "gth", geq |-> "lth",
            lth |-> "geq", gth |-> "leq"]
Dual(t) == IF t = "and" THEN "or" ELSE "and"

\* FOO=v, or FOO!=v, of a boolean FOO.
TestOf(t, s, v) ==
    IF v = "m" THEN Sym(IF t = "eq" THEN "n" ELSE "y")
    ELSE IF (t = "eq") <=> (v = "y") THEN Sym(s) ELSE Not(Sym(s))

NegatedRule(f, Rec(_)) ==
    IF f[1] = "not" THEN Rec(f[2])
    ELSE IF f[1] \in Relation THEN Comp(Negated[f[1]], f[2], f[3])
    ELSE IF f[1] \in Logical THEN Rec(<<Dual(f[1]), Not(f[2]), Not(f[3])>>)
    ELSE IF f = Sym("y") THEN Sym("n")
    ELSE IF f = Sym("n") THEN Sym("y")
    ELSE IF f = Sym("m") THEN f
    ELSE Not(f)

TransformRule(e, Rec(_), ty) ==
    IF e = NoExpr THEN e
    ELSE IF e[1] \in Logical THEN <<e[1], Rec(e[2]), Rec(e[3])>>
    ELSE IF e[1] = "not" THEN NegatedRule(Rec(e[2]), Rec)
    ELSE IF e[1] \in {"eq", "neq"} /\ ty[e[2]] = "bool" /\ e[3] \in {"y", "m", "n"}
         THEN TestOf(e[1], e[2], e[3])
    ELSE e

(***************************************************************************)
(* FOO!=n of a tristate FOO becomes FOO.                                   *)
(***************************************************************************)
TransBoolRule(e, Rec(_), ty) ==
    IF e = NoExpr THEN e
    ELSE IF e[1] = "not" THEN Not(Rec(e[2]))
    ELSE IF e[1] \in Logical THEN <<e[1], Rec(e[2]), Rec(e[3])>>
    ELSE IF e[1] = "neq" /\ ty[e[2]] = "tristate" /\ e[3] = "n" THEN Sym(e[2])
    ELSE e

(***************************************************************************)
(* An expression for "e is v" (t = "eq") or "e is not v" (t = "neq").      *)
(***************************************************************************)
TransCompareRule(e, t, v, Rec(_, _)) ==
    LET negateIf(f) == IF t = "neq" THEN Not(f) ELSE f
    IN  IF e = NoExpr THEN negateIf(Sym(v))
        ELSE IF e[1] \in Logical
        THEN negateIf(IF v = "m" THEN e
                      ELSE <<IF v = "y" THEN e[1] ELSE Dual(e[1]),
                             Rec(e[2], "eq"), Rec(e[3], "eq")>>)
        ELSE IF e[1] = "not" THEN Rec(e[2], IF t = "eq" THEN "neq" ELSE "eq")
        ELSE IF e[1] \in Relation
        THEN IF v = "m" THEN Sym(IF t = "eq" THEN "n" ELSE "y")
             ELSE IF (t = "eq") <=> (v = "y") THEN e ELSE Not(e)
        ELSE Comp(t, e[2], v)

(***************************************************************************)
(* The value of an expression, when cur[s] is the value of every symbol:   *)
(* tri, the tristate, and str, the string sym_get_string_value returns.    *)
(***************************************************************************)
ExprParseString(str, type) ==
    LET base == CASE type = "int" -> 10 [] type = "hex" -> 16 [] OTHER -> 0
    IN  IF type \in {"bool", "tristate"}
        THEN [kind |-> "signed",
              val |-> IF str \in {"n", "m", "y"}
                      THEN CHOOSE i \in Tristate : TriName[i + 1] = str ELSE -1]
        ELSE IF str \in DOMAIN Number[base]
        THEN [kind |-> IF type = "hex" THEN "unsigned" ELSE "signed", val |-> Number[base][str]]
        ELSE [kind |-> "string", val |-> 0]

Order(a, b) == IF a < b THEN -1 ELSE IF a = b THEN 0 ELSE 1
StrCmp(a, b) == LET at(x) == CHOOSE i \in DOMAIN StrOrder : StrOrder[i] = x
                IN  Order(at(a), at(b))
\* A negative number is above every other one when its bits are unsigned.
UnsignedOrder(a, b) == IF (a < 0) = (b < 0) THEN Order(a, b) ELSE Order(b, a)

CompareValues(str1, type1, str2, type2) ==
    LET compare(l, r) ==
            IF (type1 = "string" /\ type2 = "string") \/ "string" \in {l.kind, r.kind}
            THEN StrCmp(str1, str2)
            ELSE IF "unsigned" \in {l.kind, r.kind} THEN UnsignedOrder(l.val, r.val)
            ELSE Order(l.val, r.val)
    IN  compare(ExprParseString(str1, type1), ExprParseString(str2, type2))

\* The results of the comparison for which a relation is y.
Holds == [eq |-> {0}, neq |-> {-1, 1}, geq |-> {0, 1}, gth |-> {1}, leq |-> {-1, 0}, lth |-> {-1}]

\* expr_calc_value.
Lower(a, b) == IF a < b THEN a ELSE b
Upper(a, b) == IF a > b THEN a ELSE b
ValueRule(e, Rec(_), cur, ty) ==
    IF e = NoExpr THEN 2
    ELSE IF e[1] = "sym" THEN cur[e[2]].tri
    ELSE IF e[1] = "not" THEN 2 - Rec(e[2])
    ELSE IF e[1] = "and" THEN Lower(Rec(e[2]), Rec(e[3]))
    ELSE IF e[1] = "or" THEN Upper(Rec(e[2]), Rec(e[3]))
    ELSE IF /\ e[1] \in Relation
            /\ CompareValues(cur[e[2]].str, ty[e[2]], cur[e[3]].str, ty[e[3]]) \in Holds[e[1]]
         THEN 2 ELSE 0
=============================================================================
