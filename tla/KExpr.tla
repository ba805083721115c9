------------------------------- MODULE KExpr -------------------------------
(***************************************************************************)
(* What support/kconfig/expr.c does with the expressions of KRules: the    *)
(* rules of that module applied all the way down, and the functions that   *)
(* walk, print and search an expression.                                   *)
(***************************************************************************)
EXTENDS KRules, SequencesExt

\* FoldLeft of SequencesExt, in a form that is quick to evaluate: each step is
\* finished (it is the one element of a set) before the next one begins.
Fold(op(_, _), base, seq) ==
    LET upto[i \in 0..Len(seq)] ==
            IF i = 0 THEN base
            ELSE CHOOSE v \in {op(acc, seq[i]) : acc \in {upto[i - 1]}} : TRUE
    IN  upto[Len(seq)]

-----------------------------------------------------------------------------
RECURSIVE ExprEliminateYn(_)
ExprEliminateYn(e) == YnRule(e, ExprEliminateYn)

RECURSIVE ExprEq(_, _), EliminateEqLeaves(_, _), ExprEliminateEq(_)
EliminateEqLeaves(t, p) == LeavesRule(t, p, EliminateEqLeaves, ExprEq)
ExprEliminateEq(p) == EliminateEqRule(p, EliminateEqLeaves, ExprEliminateYn)
ExprEq(e1, e2) == EqRule(e1, e2, ExprEq, ExprEliminateEq)

ExprJoinOr(e1, e2, ty) == JoinOrRule(e1, e2, ty, ExprEq)
ExprJoinAnd(e1, e2, ty) == JoinAndRule(e1, e2, ty, ExprEq)

RECURSIVE ExprTransform(_, _)
ExprTransform(e, ty) == TransformRule(e, LAMBDA f : ExprTransform(f, ty), ty)

RECURSIVE ExprTransBool(_, _)
ExprTransBool(e, ty) == TransBoolRule(e, LAMBDA f : ExprTransBool(f, ty), ty)

RECURSIVE ExprTransCompare(_, _, _)
ExprTransCompare(e, t, v) ==
    TransCompareRule(e, t, v, LAMBDA f, u : ExprTransCompare(f, u, v))

RECURSIVE ExprCalcValue(_, _, _)
ExprCalcValue(e, cur, ty) ==
    ValueRule(e, LAMBDA f : ExprCalcValue(f, cur, ty), cur, ty)

(***************************************************************************)
(* expr_eliminate_dups1 walks the same tree with two pointers.  A leaf of  *)
(* the level is named by its path, the positions that lead to it, so that  *)
(* what the walk has already replaced is what it meets later.              *)
(***************************************************************************)
RECURSIVE LeafPaths(_, _), AtPath(_, _), PutAt(_, _, _)
LeafPaths(t, e) ==
    LET below(i) == LET ps == LeafPaths(t, e[i])
                    IN  [j \in DOMAIN ps |-> <<i>> \o ps[j]]
    IN  IF e[1] = t THEN below(2) \o below(3) ELSE << <<>> >>
AtPath(e, p) == IF p = <<>> THEN e ELSE AtPath(e[p[1]], Tail(p))
PutAt(e, p, f) ==
    IF p = <<>> THEN f ELSE [e EXCEPT ![p[1]] = PutAt(e[p[1]], Tail(p), f)]

RECURSIVE EliminateDups1(_, _)
EliminateDups1(e, ty) ==
    LET t == e[1]
        joined(a, b) == IF t = "or" THEN ExprJoinOr(a, b, ty) ELSE ExprJoinAnd(a, b, ty)
        inner(old) == IF old[1] \in Logical THEN EliminateDups1(old, ty)
                      ELSE [e |-> old, joined |-> FALSE]
        put(acc, in, p, q, j) ==
            IF j = NoExpr
            THEN [e |-> PutAt(acc.e, p, in.e), joined |-> acc.joined \/ in.joined]
            ELSE [e |-> PutAt(PutAt(acc.e, p, Unit(t)), q, j), joined |-> TRUE]
        meet(acc, in, p, q) == put(acc, in, p, q, joined(in.e, AtPath(acc.e, q)))
        walk(paths) ==
            LET along(acc, p) ==
                    Fold(LAMBDA a, q : IF p = q THEN a ELSE meet(a, inner(AtPath(a.e, p)), p, q),
                         acc, paths)
            IN  Fold(along, [e |-> e, joined |-> FALSE], paths)
    IN  walk(LeafPaths(t, e))

RECURSIVE ExprEliminateDups(_, _)
ExprEliminateDups(e, ty) ==
    LET again(d) == IF d.joined THEN ExprEliminateDups(ExprEliminateYn(d.e), ty) ELSE d.e
    IN  IF e = NoExpr \/ e[1] \notin Logical THEN e ELSE again(EliminateDups1(e, ty))

RECURSIVE ExprContainsSymbol(_, _)
ExprContainsSymbol(dep, s) ==
    /\ dep # NoExpr
    /\ CASE dep[1] \in Logical -> \/ ExprContainsSymbol(dep[2], s)
                                  \/ ExprContainsSymbol(dep[3], s)
         [] dep[1] = "sym" -> dep[2] = s
         [] dep[1] = "not" -> ExprContainsSymbol(dep[2], s)
         [] dep[1] \in Relation -> s \in {dep[2], dep[3]}
         [] OTHER -> FALSE

RECURSIVE ExprDependsSymbol(_, _)
ExprDependsSymbol(dep, s) ==
    /\ dep # NoExpr
    /\ CASE dep[1] = "and" -> \/ ExprDependsSymbol(dep[2], s)
                              \/ ExprDependsSymbol(dep[3], s)
         [] OTHER -> dep \in {Sym(s), Comp("eq", s, "y"), Comp("eq", s, "m"),
                              Comp("neq", s, "n")}

(***************************************************************************)
(* expr_print as the sequence of words it hands to its callback.  An       *)
(* operand is put in parentheses when expr_compare_type says that the      *)
(* expression around it binds tighter.                                     *)
(***************************************************************************)
\* A mutant: only the operand of ! needs parentheses.
ExprCompareTypeNot(t1, t2) == t1 = "not" /\ t2 \in Logical
ExprCompareType(t1, t2) ==
    LET weaker == [leq |-> {"eq", "neq", "not", "and", "or"},
                   eq  |-> {"not", "and", "or"},
                   not |-> {"and", "or"},
                   and |-> {"or"},
                   or  |-> {}]
        class(t) == IF t \in {"leq", "lth", "geq", "gth"} THEN "leq"
                    ELSE IF t = "neq" THEN "eq" ELSE t
    IN  t1 # t2 /\ t1 \in Relation \cup Logical \cup {"not"} /\ t2 \in weaker[class(t1)]

RelationWord == [eq |-> "=", neq |-> "!=", leq |-> "<=", lth |-> "<",
                 geq |-> ">=", gth |-> ">"]

RECURSIVE ExprPrint(_, _)
ExprPrint(e, prev) ==
    LET words == CASE e[1] = "sym" -> <<e[2]>>
                   [] e[1] = "not" -> <<"!">> \o ExprPrint(e[2], "not")
                   [] e[1] \in Relation -> <<e[2], RelationWord[e[1]], e[3]>>
                   [] e[1] = "or" -> ExprPrint(e[2], "or") \o <<"||">> \o ExprPrint(e[3], "or")
                   [] e[1] = "and" -> ExprPrint(e[2], "and") \o <<"&&">> \o ExprPrint(e[3], "and")
                   [] e[1] = "range" -> <<"[", e[2], e[3], "]">>
    IN  IF e = NoExpr THEN <<"y">>
        ELSE IF ExprCompareType(prev, e[1]) THEN <<"(">> \o words \o <<")">>
        ELSE words

(***************************************************************************)
(* The operands of the top || of a reverse dependency that have the value  *)
(* tri: the lines "Selected by" of the help and of the warning.            *)
(***************************************************************************)
RECURSIVE ExprPrintRevdep(_, _, _, _)
ExprPrintRevdep(e, tri, cur, ty) ==
    IF e[1] = "or"
    THEN ExprPrintRevdep(e[2], tri, cur, ty) \o ExprPrintRevdep(e[3], tri, cur, ty)
    ELSE IF ExprCalcValue(e, cur, ty) = tri THEN <<e>> ELSE <<>>
=============================================================================
