--------------------------- MODULE Kconfig_proofs ---------------------------
(***************************************************************************)
(* Two things Kconfig rests on, for every configuration: expressions keep  *)
(* their meaning when they are simplified, and a session of a front end    *)
(* keeps what KSession promises.                                           *)
(*                                                                         *)
(* The expressions are those of KRules over any symbols, however deep.     *)
(* Value, EliminateYn and so on stand for ExprCalcValue, ExprEliminateYn   *)
(* and so on of KExpr, for one calculation of the symbols (cur) and their  *)
(* types (ty): all that is used of them is that they obey the rule that    *)
(* KExpr defines them by.                                                  *)
(***************************************************************************)
EXTENDS KRules, KSession, FiniteSetTheorems, WellFoundedInduction, TLAPS

CONSTANTS
    Syms,       \* the symbols that expressions are about
    Alone,      \* those of them that stand in one without being compared
    cur, ty,    \* what was calculated of them, and their types
    Value(_),                           \* expr_calc_value
    EliminateYn(_), Transform(_),       \* expr_eliminate_yn, expr_transform
    Sharp(_),                           \* the value when m counts as y
    TransBool(_), TransCompare(_, _),   \* expr_trans_bool, expr_trans_compare
    Eq(_, _), EliminateEq(_),           \* expr_eq, expr_eliminate_eq
    Leaves(_, _)                        \* __expr_eliminate_eq

-----------------------------------------------------------------------------
\* An expression without an operator, of a size of at most n: a comparison
\* counts as much as the negation that may take its place.
IsComp(e) == \E r \in Relation, s \in Syms, t \in Syms : e = Comp(r, s, t)
Leaf(e, n) == (\E s \in Alone : e = Sym(s)) \/ (IsComp(e) /\ 2 <= n)

\* The expressions of D are built of each other, up to leaves; w is their
\* size, where a negation counts as much as what it negates.
Built(D, w) ==
    \A e \in D :
        /\ w[e] \in Nat \ {0}
        /\ \/ Leaf(e, w[e])
           \/ \E f \in D : e = Not(f) /\ 2 * w[f] <= w[e]
           \/ \E t \in Logical, f \in D, g \in D : e = <<t, f, g>> /\ w[f] + w[g] < w[e]

\* An expression about these symbols, and of a size of at most n.
Sized(e, n) == \E D, w : Built(D, w) /\ e \in D /\ w[e] <= n
IsExpr(e) == \E n \in Nat : Sized(e, n)

\* A bound on the size can be raised.
LEMMA SizedMore ==
    ASSUME NEW e, NEW n \in Nat, NEW m \in Nat, Sized(e, n), n <= m
    PROVE  Sized(e, m)
  <1>1. PICK D, w : Built(D, w) /\ e \in D /\ w[e] <= n
    BY DEF Sized
  <1>2. w[e] \in Nat
    BY <1>1 DEF Built
  <1>3. w[e] <= m
    BY <1>1, <1>2
  <1> QED
    BY <1>1, <1>3 DEF Sized

\* The size of a leaf.
LEMMA LeafSized ==
    ASSUME NEW e, NEW n \in Nat \ {0}, Leaf(e, n)
    PROVE  Sized(e, n)
  <1> DEFINE w == [x \in {e} |-> n]
  <1>1. w[e] = n /\ \A x \in {e} : x = e
    OBVIOUS
  <1> HIDE DEF w
  <1>2. Built({e}, w) /\ w[e] <= n
    BY <1>1 DEF Built
  <1> QED
    BY <1>2 DEF Sized

\* Two expressions can be built together.
LEMMA BuiltBoth ==
    ASSUME NEW D, NEW w, NEW B, NEW v, Built(D, w), Built(B, v)
    PROVE  \E u : /\ Built(D \union B, u)
                  /\ \A e \in D : u[e] <= w[e]
                  /\ \A e \in B : u[e] <= v[e]
  <1> DEFINE u == [e \in D \union B |->
                      IF e \notin B THEN w[e] ELSE IF e \notin D THEN v[e]
                      ELSE IF w[e] < v[e] THEN w[e] ELSE v[e]]
  <1>1. /\ \A e \in D : w[e] \in Nat \ {0}
        /\ \A e \in B : v[e] \in Nat \ {0}
    BY DEF Built
  <1>2. /\ \A e \in D : u[e] \in Nat \ {0} /\ u[e] <= w[e]
        /\ \A e \in B : u[e] \in Nat \ {0} /\ u[e] <= v[e]
    BY <1>1
  <1>3. \A e \in D \union B : (e \in D /\ u[e] = w[e]) \/ (e \in B /\ u[e] = v[e])
    OBVIOUS
  <1> HIDE DEF u
  <1>4. Built(D \union B, u)
    <2> SUFFICES ASSUME NEW e \in D \union B
                 PROVE  /\ u[e] \in Nat \ {0}
                        /\ \/ Leaf(e, u[e])
                           \/ \E f \in D \union B : e = Not(f) /\ 2 * u[f] <= u[e]
                           \/ \E t \in Logical, f \in D \union B, g \in D \union B :
                                  e = <<t, f, g>> /\ u[f] + u[g] < u[e]
      BY DEF Built
    <2>1. u[e] \in Nat \ {0}
      BY <1>2
    <2>2. CASE e \in D /\ u[e] = w[e]
      <3>1. CASE Leaf(e, w[e])
        BY <2>1, <2>2, <3>1
      <3>2. CASE \E f \in D : e = Not(f) /\ 2 * w[f] <= w[e]
        <4>1. PICK f \in D : e = Not(f) /\ 2 * w[f] <= w[e]
          BY <3>2
        <4>2. 2 * u[f] <= u[e]
          BY <1>1, <1>2, <2>2, <4>1
        <4> QED
          BY <2>1, <4>1, <4>2
      <3>3. CASE \E t \in Logical, f \in D, g \in D : e = <<t, f, g>> /\ w[f] + w[g] < w[e]
        <4>1. PICK t \in Logical, f \in D, g \in D : e = <<t, f, g>> /\ w[f] + w[g] < w[e]
          BY <3>3
        <4>2. u[f] + u[g] < u[e]
          BY <1>1, <1>2, <2>2, <4>1
        <4> QED
          BY <2>1, <4>1, <4>2
      <3> QED
        BY <2>2, <3>1, <3>2, <3>3 DEF Built
    <2>3. CASE e \in B /\ u[e] = v[e]
      <3>1. CASE Leaf(e, v[e])
        BY <2>1, <2>3, <3>1
      <3>2. CASE \E f \in B : e = Not(f) /\ 2 * v[f] <= v[e]
        <4>1. PICK f \in B : e = Not(f) /\ 2 * v[f] <= v[e]
          BY <3>2
        <4>2. 2 * u[f] <= u[e]
          BY <1>1, <1>2, <2>3, <4>1
        <4> QED
          BY <2>1, <4>1, <4>2
      <3>3. CASE \E t \in Logical, f \in B, g \in B : e = <<t, f, g>> /\ v[f] + v[g] < v[e]
        <4>1. PICK t \in Logical, f \in B, g \in B : e = <<t, f, g>> /\ v[f] + v[g] < v[e]
          BY <3>3
        <4>2. u[f] + u[g] < u[e]
          BY <1>1, <1>2, <2>3, <4>1
        <4> QED
          BY <2>1, <4>1, <4>2
      <3> QED
        BY <2>3, <3>1, <3>2, <3>3 DEF Built
    <2> QED
      BY <1>3, <2>2, <2>3
  <1> QED
    BY <1>2, <1>4

\* An expression built of others.
LEMMA BuiltMore ==
    ASSUME NEW D, NEW w, Built(D, w), NEW e, NEW n \in Nat \ {0},
           \/ Leaf(e, n)
           \/ \E f \in D : e = Not(f) /\ 2 * w[f] <= n
           \/ \E t \in Logical, f \in D, g \in D : e = <<t, f, g>> /\ w[f] + w[g] < n
    PROVE  Sized(e, n)
  <1>1. CASE e \in D /\ w[e] <= n
    BY <1>1 DEF Sized
  <1>2. CASE ~(e \in D /\ w[e] <= n)
    <2> DEFINE u == [x \in D \union {e} |-> IF x = e THEN n ELSE w[x]]
    <2>1. \A x \in D : w[x] \in Nat \ {0}
      BY DEF Built
    <2>2. \A x \in D : u[x] \in Nat \ {0} /\ u[x] <= w[x]
      BY <1>2, <2>1
    <2>3. u[e] = n /\ \A x \in D : x # e => u[x] = w[x]
      OBVIOUS
    <2> HIDE DEF u
    <2>4. Built(D \union {e}, u)
      <3> SUFFICES ASSUME NEW x \in D \union {e}
                   PROVE  \/ Leaf(x, u[x])
                          \/ \E f \in D \union {e} : x = Not(f) /\ 2 * u[f] <= u[x]
                          \/ \E t \in Logical, f \in D \union {e}, g \in D \union {e} :
                                 x = <<t, f, g>> /\ u[f] + u[g] < u[x]
        BY <2>1, <2>2, <2>3 DEF Built
      <3> DEFINE k == IF x = e THEN n ELSE w[x]
      <3>1. k \in Nat /\ u[x] = k
        BY <2>1, <2>3
      <3>2. \/ Leaf(x, k)
            \/ \E f \in D : x = Not(f) /\ 2 * w[f] <= k
            \/ \E t \in Logical, f \in D, g \in D : x = <<t, f, g>> /\ w[f] + w[g] < k
        BY DEF Built
      <3> HIDE DEF k
      <3>3. ASSUME NEW f \in D, x = Not(f), 2 * w[f] <= k
            PROVE  2 * u[f] <= u[x]
        BY <2>1, <2>2, <3>1, <3>3
      <3>4. ASSUME NEW f \in D, NEW g \in D, w[f] + w[g] < k
            PROVE  u[f] + u[g] < u[x]
        BY <2>1, <2>2, <3>1, <3>4
      <3> QED
        BY <3>1, <3>2, <3>3, <3>4
    <2>5. u[e] <= n
      BY <2>3
    <2> QED
      BY <2>4, <2>5 DEF Sized
  <1> QED
    BY <1>1, <1>2

\* The size of a negation.
LEMMA NotSized ==
    ASSUME NEW e, NEW n \in Nat, Sized(e, n)
    PROVE  Sized(Not(e), 2 * n)
  <1>1. PICK D, w : Built(D, w) /\ e \in D /\ w[e] <= n
    BY DEF Sized
  <1>2. w[e] \in Nat \ {0}
    BY <1>1 DEF Built
  <1>3. 2 * n \in Nat \ {0} /\ 2 * w[e] <= 2 * n
    BY <1>1, <1>2
  <1> QED
    BY <1>1, <1>3, BuiltMore

\* The size of an && or an ||.
LEMMA LogicalSized ==
    ASSUME NEW t \in Logical, NEW e, NEW f, NEW n \in Nat, NEW m \in Nat,
           Sized(e, n), Sized(f, m)
    PROVE  Sized(<<t, e, f>>, n + m + 1)
  <1>1. PICK D, w : Built(D, w) /\ e \in D /\ w[e] <= n
    BY DEF Sized
  <1>2. PICK B, v : Built(B, v) /\ f \in B /\ v[f] <= m
    BY DEF Sized
  <1>3. PICK u : /\ Built(D \union B, u)
                 /\ \A x \in D : u[x] <= w[x]
                 /\ \A x \in B : u[x] <= v[x]
    BY <1>1, <1>2, BuiltBoth
  <1>4. w[e] \in Nat /\ v[f] \in Nat /\ u[e] \in Nat /\ u[f] \in Nat
    BY <1>1, <1>2, <1>3 DEF Built
  <1>5. u[e] + u[f] < n + m + 1 /\ n + m + 1 \in Nat \ {0}
    BY <1>1, <1>2, <1>3, <1>4
  <1>6. e \in D \union B /\ f \in D \union B
    BY <1>1, <1>2
  <1>7. \E s \in Logical, x \in D \union B, y \in D \union B :
            <<t, e, f>> = <<s, x, y>> /\ u[x] + u[y] < n + m + 1
    BY <1>5, <1>6
  <1> HIDE DEF Logical
  <1> QED
    BY <1>3, <1>5, <1>7, BuiltMore

\* The operands of an expression, and that they are smaller.
LEMMA SizedParts ==
    ASSUME NEW e, NEW n \in Nat, Sized(e, n)
    PROVE  /\ n # 0
           /\ \/ Leaf(e, n)
              \/ \E f : \E k \in Nat \ {0} : e = Not(f) /\ Sized(f, k) /\ 2 * k <= n
              \/ \E t \in Logical, k \in Nat \ {0}, m \in Nat \ {0} : \E f, g :
                     e = <<t, f, g>> /\ Sized(f, k) /\ Sized(g, m) /\ k + m < n
  <1>1. PICK D, w : Built(D, w) /\ e \in D /\ w[e] <= n
    BY DEF Sized
  <1>2. \A x \in D : w[x] \in Nat \ {0} /\ w[x] <= w[x]
    BY <1>1 DEF Built
  <1>3. \A x \in D : Sized(x, w[x])
    BY <1>1, <1>2 DEF Sized
  <1>4. n # 0
    BY <1>1, <1>2
  <1>5. CASE \E f \in D : e = Not(f) /\ 2 * w[f] <= w[e]
    <2>1. PICK f \in D : e = Not(f) /\ 2 * w[f] <= w[e]
      BY <1>5
    <2>2. 2 * w[f] <= n
      BY <1>1, <1>2, <2>1
    <2> QED
      BY <1>2, <1>3, <1>4, <2>1, <2>2
  <1>6. CASE \E t \in Logical, f \in D, g \in D : e = <<t, f, g>> /\ w[f] + w[g] < w[e]
    <2>1. PICK t \in Logical, f \in D, g \in D : e = <<t, f, g>> /\ w[f] + w[g] < w[e]
      BY <1>6
    <2>2. w[f] + w[g] < n
      BY <1>1, <1>2, <2>1
    <2> QED
      BY <1>2, <1>3, <1>4, <2>1, <2>2
  <1>7. CASE Leaf(e, w[e])
    <2>1. 2 <= w[e] => 2 <= n
      BY <1>1, <1>2
    <2> QED
      BY <1>4, <1>7, <2>1 DEF Leaf
  <1> QED
    BY <1>1, <1>5, <1>6, <1>7 DEF Built

-----------------------------------------------------------------------------
\* Every set of numbers has a least one.
LEMMA LeastExists ==
    ASSUME NEW M \in SUBSET Nat, M # {}
    PROVE  \E i \in M : \A j \in M : i <= j
  <1> DEFINE T == {0 .. i : i \in M}
             R == StrictSubsetOrdering(Nat)
  <1>1. T \subseteq FiniteSubsetsOf(Nat)
    <2>1. \A i \in Nat : 0 .. i \in FiniteSubsetsOf(Nat)
      <3> TAKE i \in Nat
      <3>1. IsFiniteSet(0 .. i)
        BY FS_Interval
      <3>2. 0 .. i \in SUBSET Nat
        OBVIOUS
      <3> QED
        BY <3>1, <3>2, Zenon DEF FiniteSubsetsOf
    <2> QED
      BY <2>1, Zenon
  <1>2. T # {}
    OBVIOUS
  <1>3. ASSUME NEW x \in T PROVE \E i \in M : x = 0 .. i
    OBVIOUS
  <1>4. \A i \in M : 0 .. i \in T
    OBVIOUS
  <1> HIDE DEF T
  <1>5. \E x \in T : \A y \in T : ~(<<y, x>> \in R)
    <2>1. IsWellFoundedOn(R, FiniteSubsetsOf(Nat))
      BY FS_StrictSubsetOrderingWellFounded
    <2> HIDE DEF R
    <2> QED
      BY <1>1, <1>2, <2>1, WFMin, Zenon
  <1>6. PICK x \in T : \A y \in T : ~(<<y, x>> \in R)
    BY <1>5
  <1>7. PICK i \in M : x = 0 .. i
    BY <1>3
  <1>8. ASSUME NEW j \in M, j < i PROVE FALSE
    <2>1. 0 .. j \subseteq 0 .. i
      BY <1>8
    <2>2. 0 .. j # 0 .. i
      <3>1. i \in 0 .. i /\ i \notin 0 .. j
        BY <1>8
      <3> QED
        BY <3>1
    <2>3. 0 .. j \in SUBSET Nat /\ 0 .. i \in SUBSET Nat
      OBVIOUS
    <2>4. <<0 .. j, 0 .. i>> \in R
      BY <2>1, <2>2, <2>3, Zenon DEF StrictSubsetOrdering
    <2> QED
      BY <1>4, <1>6, <1>7, <2>4
  <1> QED
    BY <1>8

\* Induction over numbers, as a statement about a set of them.
LEMMA EveryNumber ==
    ASSUME NEW N, \A n \in Nat : (\A m \in Nat : m < n => m \in N) => n \in N
    PROVE  \A n \in Nat : n \in N
  <1> SUFFICES ASSUME Nat \ N # {} PROVE FALSE
    OBVIOUS
  <1> DEFINE D == Nat \ N
  <1>1. D \in SUBSET Nat /\ D # {}
    OBVIOUS
  <1>2. \E n \in D : \A m \in D : n <= m
    BY <1>1, LeastExists
  <1>3. PICK n \in D : \A m \in D : n <= m
    BY <1>2
  <1>4. \A m \in Nat : m < n => m \in N
    BY <1>3
  <1> QED
    BY <1>3, <1>4

-----------------------------------------------------------------------------
\* What the program may have calculated of the symbols in S.
Calculated ==
    /\ {"y", "m", "n"} \subseteq Alone /\ Alone \subseteq Syms
    /\ {s \in Syms : ty[s] \in {"bool", "tristate"}} \subseteq Alone
    /\ \A s \in Syms : /\ cur[s].tri \in Tristate
                    /\ \E i \in DOMAIN StrOrder : StrOrder[i] = cur[s].str
    /\ \A s \in Syms : ty[s] \in {"bool", "tristate"} => cur[s].str = TriName[cur[s].tri + 1]
    /\ \A s \in Syms : ty[s] = "bool" => cur[s].tri # 1
    /\ \A c \in (ConstSym \cap Syms) \union {"y", "m", "n"} : ty[c] = "unknown" /\ cur[c].str = c
    /\ cur["n"].tri = 0 /\ cur["m"].tri = 1 /\ cur["y"].tri = 2

\* The operators obey the rules.
ValueObeys == \A e : IsExpr(e) => Value(e) = ValueRule(e, Value, cur, ty)
YnObeys == \A e : IsExpr(e) => EliminateYn(e) = YnRule(e, EliminateYn)
TransformObeys == \A e : IsExpr(e) => Transform(e) = TransformRule(e, Transform, ty)

\* What can be built of expressions is an expression.
LEMMA Built1 ==
    /\ \A s \in Alone : IsExpr(Sym(s))
    /\ \A r \in Relation, s \in Syms, t \in Syms : IsExpr(Comp(r, s, t))
    /\ \A e : IsExpr(e) => IsExpr(Not(e))
    /\ \A t \in Logical : \A e, f : IsExpr(e) /\ IsExpr(f) => IsExpr(<<t, e, f>>)
  <1>1. ASSUME NEW e, Leaf(e, 2) PROVE IsExpr(e)
    BY <1>1, LeafSized DEF IsExpr
  <1>2. ASSUME NEW e, IsExpr(e) PROVE IsExpr(Not(e))
    <2>1. PICK n \in Nat : Sized(e, n)
      BY <1>2 DEF IsExpr
    <2>2. Sized(Not(e), 2 * n) /\ 2 * n \in Nat
      BY <2>1, NotSized
    <2> QED
      BY <2>2 DEF IsExpr
  <1>3. ASSUME NEW t \in Logical, NEW e, NEW f, IsExpr(e), IsExpr(f) PROVE IsExpr(<<t, e, f>>)
    <2>1. PICK n \in Nat : Sized(e, n)
      BY <1>3 DEF IsExpr
    <2>2. PICK m \in Nat : Sized(f, m)
      BY <1>3 DEF IsExpr
    <2>3. Sized(<<t, e, f>>, n + m + 1) /\ n + m + 1 \in Nat
      BY <2>1, <2>2, LogicalSized
    <2> QED
      BY <2>3 DEF IsExpr
  <1> QED
    BY <1>1, <1>2, <1>3 DEF Leaf, IsComp

\* The value of a symbol.
LEMMA SymValue ==
    ASSUME ValueObeys, NEW s \in Alone
    PROVE  Value(Sym(s)) = cur[s].tri
  <1>1. IsExpr(Sym(s)) /\ Sym(s)[1] = "sym" /\ Sym(s)[2] = s /\ Sym(s) # NoExpr
    BY Built1 DEF Sym, NoExpr
  <1> QED
    BY <1>1 DEF ValueObeys, ValueRule

\* The value of a comparison.
LEMMA CompValue ==
    ASSUME ValueObeys, NEW r \in Relation, NEW s \in Syms, NEW t \in Syms
    PROVE  Value(Comp(r, s, t)) =
               IF CompareValues(cur[s].str, ty[s], cur[t].str, ty[t]) \in Holds[r]
               THEN 2 ELSE 0
  <1> DEFINE e == Comp(r, s, t)
  <1>1. IsExpr(e) /\ e[1] = r /\ e[2] = s /\ e[3] = t /\ e # NoExpr
    BY Built1 DEF Comp, NoExpr
  <1>2. r \notin {"sym", "not", "and", "or"}
    BY DEF Relation
  <1> HIDE DEF e
  <1>3. Value(e) = ValueRule(e, Value, cur, ty)
    BY <1>1 DEF ValueObeys
  <1>4. Value(e) = IF CompareValues(cur[s].str, ty[s], cur[t].str, ty[t]) \in Holds[r]
                   THEN 2 ELSE 0
    BY <1>1, <1>2, <1>3 DEF ValueRule
  <1> QED
    BY <1>4 DEF e

\* The value of a negation.
LEMMA NotValue ==
    ASSUME ValueObeys, NEW e, IsExpr(e)
    PROVE  Value(Not(e)) = 2 - Value(e)
  <1>1. IsExpr(Not(e)) /\ Not(e)[1] = "not" /\ Not(e)[2] = e /\ Not(e) # NoExpr
    BY Built1 DEF Not, NoExpr
  <1> QED
    BY <1>1 DEF ValueObeys, ValueRule

\* The value of an && or an || of two values.
Both(t, a, b) == IF t = "and" THEN Lower(a, b) ELSE Upper(a, b)

\* The value of an && or an ||.
LEMMA LogicalValue ==
    ASSUME ValueObeys, NEW t \in Logical, NEW e, NEW f, IsExpr(e), IsExpr(f)
    PROVE  Value(<<t, e, f>>) = Both(t, Value(e), Value(f))
  <1> DEFINE x == <<t, e, f>>
  <1>1. IsExpr(x) /\ x[1] = t /\ x[2] = e /\ x[3] = f /\ x # NoExpr
    BY Built1 DEF NoExpr
  <1>2. t \in {"and", "or"}
    BY DEF Logical
  <1> HIDE DEF x
  <1>3. Value(x) = ValueRule(x, Value, cur, ty)
    BY <1>1 DEF ValueObeys
  <1>4. Value(x) = Both(t, Value(e), Value(f))
    BY <1>1, <1>2, <1>3 DEF ValueRule, Both
  <1> QED
    BY <1>4 DEF x

\* What has a size is an expression.
LEMMA SizedIsExpr == \A e : \A n \in Nat : Sized(e, n) => IsExpr(e)
  BY DEF IsExpr

\* The value of an expression is a tristate.
LEMMA ValueInRange ==
    ASSUME Calculated, ValueObeys
    PROVE  \A e : IsExpr(e) => Value(e) \in Tristate
  <1> DEFINE N == {n \in Nat : \A e : Sized(e, n) => Value(e) \in Tristate}
  <1>1. ASSUME NEW n \in Nat, \A m \in Nat : m < n => m \in N
        PROVE  n \in N
    <2> SUFFICES ASSUME NEW e, Sized(e, n) PROVE Value(e) \in Tristate
      OBVIOUS
    <2>1. CASE Leaf(e, n)
      BY <2>1, SymValue, CompValue DEF Leaf, IsComp, Calculated, Tristate
    <2>2. ASSUME NEW f, NEW k \in Nat \ {0}, e = Not(f), Sized(f, k), 2 * k <= n
          PROVE  Value(e) \in Tristate
      <3>1. k < n
        BY <2>2
      <3>2. Value(f) \in Tristate /\ IsExpr(f)
        BY <1>1, <2>2, <3>1, SizedIsExpr
      <3>3. Value(e) = 2 - Value(f)
        BY <2>2, <3>2, NotValue
      <3> QED
        BY <3>2, <3>3 DEF Tristate
    <2>3. ASSUME NEW t \in Logical, NEW k \in Nat \ {0}, NEW m \in Nat \ {0}, NEW f, NEW g,
                 e = <<t, f, g>>, Sized(f, k), Sized(g, m), k + m < n
          PROVE  Value(e) \in Tristate
      <3>1. k < n /\ m < n
        BY <2>3
      <3>2. Value(f) \in Tristate /\ IsExpr(f) /\ Value(g) \in Tristate /\ IsExpr(g)
        BY <1>1, <2>3, <3>1, SizedIsExpr
      <3>3. Value(e) = Both(t, Value(f), Value(g))
        BY <2>3, <3>2, LogicalValue
      <3> QED
        BY <3>2, <3>3 DEF Both, Lower, Upper
    <2> QED
      BY <2>1, <2>2, <2>3, SizedParts
  <1>2. \A n \in Nat : n \in N
    <2> HIDE DEF N
    <2> QED
      BY <1>1, EveryNumber
  <1> QED
    BY <1>2 DEF IsExpr

\* One step of expr_eliminate_yn.
LEMMA JoinYnKeepsValue ==
    ASSUME Calculated, ValueObeys, NEW t \in Logical, NEW l, NEW r, IsExpr(l), IsExpr(r)
    PROVE  /\ IsExpr(JoinYn(t, l, r))
           /\ Value(JoinYn(t, l, r)) = Value(<<t, l, r>>)
  <1>1. /\ IsExpr(Sym("y")) /\ Value(Sym("y")) = 2
        /\ IsExpr(Sym("n")) /\ Value(Sym("n")) = 0
    BY Built1, SymValue DEF Calculated
  <1>2. Value(l) \in Tristate /\ Value(r) \in Tristate /\ IsExpr(<<t, l, r>>)
    BY ValueInRange, Built1
  <1>3. Value(<<t, l, r>>) = Both(t, Value(l), Value(r))
    BY LogicalValue
  <1>4. CASE Zero(t) \in {l, r}
    <2>1. JoinYn(t, l, r) = Zero(t) /\ Value(Zero(t)) \in {Value(l), Value(r)}
      BY <1>4 DEF JoinYn
    <2> QED
      BY <1>1, <1>2, <1>3, <2>1 DEF Zero, Both, Lower, Upper, Tristate
  <1>5. CASE Zero(t) \notin {l, r} /\ l = Unit(t)
    <2>1. JoinYn(t, l, r) = r
      BY <1>5 DEF JoinYn
    <2> QED
      BY <1>1, <1>2, <1>3, <1>5, <2>1 DEF Unit, Both, Lower, Upper, Tristate
  <1>6. CASE Zero(t) \notin {l, r} /\ l # Unit(t) /\ r = Unit(t)
    <2>1. JoinYn(t, l, r) = l
      BY <1>6 DEF JoinYn
    <2> QED
      BY <1>1, <1>2, <1>3, <1>6, <2>1 DEF Unit, Both, Lower, Upper, Tristate
  <1>7. CASE Zero(t) \notin {l, r} /\ l # Unit(t) /\ r # Unit(t)
    <2>1. JoinYn(t, l, r) = <<t, l, r>>
      BY <1>7 DEF JoinYn
    <2> QED
      BY <1>2, <2>1
  <1> QED
    BY <1>4, <1>5, <1>6, <1>7

(***************************************************************************)
(* expr_eliminate_yn: without the operands that are y or n an expression   *)
(* has the value it had.                                                   *)
(***************************************************************************)
THEOREM YnKeepsValue ==
    ASSUME Calculated, ValueObeys, YnObeys
    PROVE  \A e : IsExpr(e) => IsExpr(EliminateYn(e)) /\ Value(EliminateYn(e)) = Value(e)
  <1> DEFINE Kept(e) == IsExpr(EliminateYn(e)) /\ Value(EliminateYn(e)) = Value(e)
             N == {n \in Nat : \A e : Sized(e, n) => Kept(e)}
  <1>1. ASSUME NEW n \in Nat, \A m \in Nat : m < n => m \in N
        PROVE  n \in N
    <2> SUFFICES ASSUME NEW e, Sized(e, n) PROVE Kept(e)
      OBVIOUS
    <2>0. IsExpr(e) /\ EliminateYn(e) = YnRule(e, EliminateYn)
      BY SizedIsExpr DEF YnObeys
    <2>1. CASE Leaf(e, n)
      <3>1. e[1] \notin Logical
        BY <2>1 DEF Leaf, IsComp, Sym, Comp, Relation, Logical
      <3>2. EliminateYn(e) = e
        BY <2>0, <3>1 DEF YnRule
      <3> QED
        BY <2>0, <3>2
    <2>2. ASSUME NEW f, e = Not(f)
          PROVE  Kept(e)
      <3>1. e[1] \notin Logical
        BY <2>2 DEF Not, Logical
      <3>2. EliminateYn(e) = e
        BY <2>0, <3>1 DEF YnRule
      <3> QED
        BY <2>0, <3>2
    <2>3. ASSUME NEW t \in Logical, NEW k \in Nat \ {0}, NEW m \in Nat \ {0}, NEW f, NEW g,
                 e = <<t, f, g>>, Sized(f, k), Sized(g, m), k + m < n
          PROVE  Kept(e)
      <3>1. k < n /\ m < n
        BY <2>3
      <3>2. Kept(f) /\ Kept(g) /\ IsExpr(f) /\ IsExpr(g)
        BY <1>1, <2>3, <3>1, SizedIsExpr
      <3>3. e # NoExpr /\ e[1] = t /\ e[2] = f /\ e[3] = g
        BY <2>3 DEF NoExpr
      <3>4. EliminateYn(e) = JoinYn(t, EliminateYn(f), EliminateYn(g))
        BY <2>0, <3>3 DEF YnRule
      <3>5. /\ IsExpr(EliminateYn(e))
            /\ Value(EliminateYn(e)) = Value(<<t, EliminateYn(f), EliminateYn(g)>>)
        BY <3>2, <3>4, JoinYnKeepsValue
      <3>6. Value(<<t, EliminateYn(f), EliminateYn(g)>>) = Value(<<t, f, g>>)
        <4>1. Value(<<t, EliminateYn(f), EliminateYn(g)>>)
                  = Both(t, Value(EliminateYn(f)), Value(EliminateYn(g)))
          BY <3>2, LogicalValue
        <4>2. Value(<<t, f, g>>) = Both(t, Value(f), Value(g))
          BY <3>2, LogicalValue
        <4> QED
          BY <3>2, <4>1, <4>2
      <3> QED
        BY <2>3, <3>5, <3>6
    <2> QED
      BY <2>1, <2>2, <2>3, SizedParts
  <1>2. \A n \in Nat : n \in N
    <2> HIDE DEF N
    <2> QED
      BY <1>1, EveryNumber
  <1> QED
    BY <1>2 DEF IsExpr

-----------------------------------------------------------------------------
\* The results of a comparison.
LEMMA CompareRange ==
    ASSUME NEW a, NEW b, NEW c, NEW d
    PROVE  CompareValues(a, b, c, d) \in {-1, 0, 1}
  <1>1. \A x, y : Order(x, y) \in {-1, 0, 1}
    BY DEF Order
  <1>2. \A x, y : StrCmp(x, y) \in {-1, 0, 1} /\ UnsignedOrder(x, y) \in {-1, 0, 1}
    BY <1>1 DEF StrCmp, UnsignedOrder
  <1> QED
    BY <1>1, <1>2 DEF CompareValues

\* A relation and its negation.
LEMMA NegatedValue ==
    ASSUME ValueObeys, NEW r \in Relation, NEW s \in Syms, NEW t \in Syms
    PROVE  /\ Negated[r] \in Relation
           /\ Value(Comp(Negated[r], s, t)) = 2 - Value(Comp(r, s, t))
  <1> DEFINE c == CompareValues(cur[s].str, ty[s], cur[t].str, ty[t])
  <1>1. c \in {-1, 0, 1}
    BY CompareRange
  <1>2. Negated[r] \in Relation
    BY DEF Negated, Relation
  <1>3. c \in Holds[Negated[r]] <=> c \notin Holds[r]
    <2> HIDE DEF c
    <2> QED
      BY <1>1 DEF Negated, Relation, Holds
  <1> QED
    BY <1>2, <1>3, CompValue

\* A symbol compared with y, m or n: as its text is.
LEMMA TextTest ==
    ASSUME Calculated, NEW s \in Syms, NEW v \in {"y", "m", "n"}
    PROVE  CompareValues(cur[s].str, ty[s], cur[v].str, ty[v]) = 0 <=> cur[s].str = v
  <1>1. v \in Syms /\ ty[v] = "unknown" /\ cur[v].str = v
    BY DEF Calculated
  <1>2. ExprParseString(v, "unknown").kind = "string"
    BY TextAssumption DEF ExprParseString
  <1>3. CompareValues(cur[s].str, ty[s], cur[v].str, ty[v]) = StrCmp(cur[s].str, v)
    BY <1>1, <1>2 DEF CompareValues
  <1> DEFINE at(x) == CHOOSE i \in DOMAIN StrOrder : StrOrder[i] = x
  <1>4. \A x : (\E i \in DOMAIN StrOrder : StrOrder[i] = x)
               => at(x) \in DOMAIN StrOrder /\ StrOrder[at(x)] = x
    OBVIOUS
  <1>5. /\ at(cur[s].str) \in Int /\ StrOrder[at(cur[s].str)] = cur[s].str
        /\ at(v) \in Int /\ StrOrder[at(v)] = v
    <2>1. /\ \E i \in DOMAIN StrOrder : StrOrder[i] = cur[s].str
          /\ \E i \in DOMAIN StrOrder : StrOrder[i] = v
      BY <1>1 DEF Calculated
    <2> HIDE DEF at
    <2> QED
      BY <1>4, <2>1, TextAssumption
  <1>6. StrCmp(cur[s].str, v) = Order(at(cur[s].str), at(v))
    BY DEF StrCmp
  <1> HIDE DEF at
  <1> QED
    BY <1>3, <1>5, <1>6 DEF Order

\* The tristate a constant stands for.
Means(v) == IF v = "n" THEN 0 ELSE IF v = "m" THEN 1 ELSE 2

\* The value of FOO=v and of FOO!=v.
LEMMA TestValue ==
    ASSUME Calculated, ValueObeys, NEW s \in Syms, ty[s] \in {"bool", "tristate"},
           NEW v \in {"y", "m", "n"}
    PROVE  /\ Value(Comp("eq", s, v)) = IF cur[s].tri = Means(v) THEN 2 ELSE 0
           /\ Value(Comp("neq", s, v)) = IF cur[s].tri = Means(v) THEN 0 ELSE 2
  <1>1. v \in Syms
    BY DEF Calculated
  <1>2. CompareValues(cur[s].str, ty[s], cur[v].str, ty[v]) \in {-1, 0, 1}
    BY CompareRange
  <1>3. CompareValues(cur[s].str, ty[s], cur[v].str, ty[v]) = 0 <=> cur[s].tri = Means(v)
    <2>1. cur[s].str = TriName[cur[s].tri + 1] /\ cur[s].tri \in {0, 1, 2}
      BY DEF Calculated, Tristate
    <2> QED
      BY <2>1, TextTest DEF TriName, Means
  <1>4. /\ "eq" \in Relation /\ Holds["eq"] = {0}
        /\ "neq" \in Relation /\ Holds["neq"] = {-1, 1}
    BY DEF Relation, Holds
  <1> QED
    BY <1>1, <1>2, <1>3, <1>4, CompValue

\* What becomes of a comparison of a boolean.
LEMMA TestOfKeepsValue ==
    ASSUME Calculated, ValueObeys, NEW s \in Syms, ty[s] = "bool",
           NEW v \in {"y", "m", "n"}, NEW t \in {"eq", "neq"}
    PROVE  /\ Value(TestOf(t, s, v)) = Value(Comp(t, s, v))
           /\ \A n \in Nat : 2 <= n => Sized(TestOf(t, s, v), n)
  <1>0. s \in Alone
    BY DEF Calculated
  <1>1. /\ cur[s].tri \in {0, 2}
        /\ "n" \in Alone /\ "y" \in Alone /\ cur["n"].tri = 0 /\ cur["y"].tri = 2
    BY DEF Calculated, Tristate
  <1>2. /\ Value(Sym(s)) = cur[s].tri /\ Value(Not(Sym(s))) = 2 - cur[s].tri
        /\ Value(Sym("n")) = 0 /\ Value(Sym("y")) = 2
    BY <1>0, <1>1, SymValue, NotValue, Built1
  <1>3. Value(TestOf(t, s, v)) = Value(Comp(t, s, v))
    BY <1>1, <1>2, TestValue DEF TestOf, Means
  <1>4. ASSUME NEW n \in Nat, 2 <= n PROVE Sized(TestOf(t, s, v), n)
    <2>1. \A x \in Alone : Sized(Sym(x), 1)
      BY LeafSized DEF Leaf
    <2>2. \A x \in Alone : Sized(Sym(x), n)
      BY <1>4, <2>1, SizedMore
    <2>3. Sized(Not(Sym(s)), 2 * 1)
      BY <1>0, <2>1, NotSized
    <2>4. Sized(Not(Sym(s)), n)
      BY <1>4, <2>3, SizedMore
    <2> QED
      BY <1>0, <1>1, <2>2, <2>4 DEF TestOf
  <1> QED
    BY <1>3, <1>4

\* Double negation, and de Morgan's laws, of values.
LEMMA NegatedOperands ==
    ASSUME Calculated, ValueObeys, NEW t \in Logical, NEW f, NEW g, IsExpr(f), IsExpr(g)
    PROVE  Value(<<Dual(t), Not(f), Not(g)>>) = 2 - Value(<<t, f, g>>)
  <1>1. IsExpr(Not(f)) /\ IsExpr(Not(g)) /\ Dual(t) \in Logical
    BY Built1 DEF Dual, Logical
  <1>2. /\ Value(<<Dual(t), Not(f), Not(g)>>) = Both(Dual(t), Value(Not(f)), Value(Not(g)))
        /\ Value(<<t, f, g>>) = Both(t, Value(f), Value(g))
        /\ Value(Not(f)) = 2 - Value(f) /\ Value(Not(g)) = 2 - Value(g)
    BY <1>1, LogicalValue, NotValue
  <1>3. Value(f) \in Tristate /\ Value(g) \in Tristate
    BY ValueInRange
  <1>4. \A a \in Tristate, b \in Tristate : Both(Dual(t), 2 - a, 2 - b) = 2 - Both(t, a, b)
    BY DEF Both, Dual, Lower, Upper, Tristate, Logical
  <1> QED
    BY <1>2, <1>3, <1>4

(***************************************************************************)
(* expr_transform: with its negations at the symbols, and its comparisons  *)
(* of booleans gone, an expression has the value it had.                   *)
(***************************************************************************)
THEOREM TransformKeepsValue ==
    ASSUME Calculated, ValueObeys, TransformObeys
    PROVE  \A e : IsExpr(e) => IsExpr(Transform(e)) /\ Value(Transform(e)) = Value(e)
  <1> DEFINE Kept(e, n) == Sized(Transform(e), n) /\ Value(Transform(e)) = Value(e)
             N == {n \in Nat : \A e : Sized(e, n) => Kept(e, n)}
  <1>1. ASSUME NEW n \in Nat, \A m \in Nat : m < n => m \in N
        PROVE  n \in N
    <2> SUFFICES ASSUME NEW e, Sized(e, n) PROVE Kept(e, n)
      OBVIOUS
    <2>0. IsExpr(e) /\ Transform(e) = TransformRule(e, Transform, ty)
      BY SizedIsExpr DEF TransformObeys
    <2>1. ASSUME NEW s \in Alone, e = Sym(s) PROVE Kept(e, n)
      <3>1. e # NoExpr /\ e[1] = "sym"
        BY <2>1 DEF Sym, NoExpr
      <3>2. Transform(e) = e
        BY <2>0, <3>1 DEF TransformRule, Logical
      <3> QED
        BY <3>2
    <2>2. ASSUME IsComp(e), 2 <= n PROVE Kept(e, n)
      <3>1. PICK r \in Relation, s \in Syms, t \in Syms : e = Comp(r, s, t)
        BY <2>2 DEF IsComp
      <3>2. e # NoExpr /\ e[1] = r /\ e[2] = s /\ e[3] = t
        BY <3>1 DEF Comp, NoExpr
      <3>3. r \notin {"and", "or", "not"}
        BY DEF Relation
      <3>4. CASE r \in {"eq", "neq"} /\ ty[s] = "bool" /\ t \in {"y", "m", "n"}
        <4>1. Transform(e) = TestOf(r, s, t)
          BY <2>0, <3>2, <3>3, <3>4 DEF TransformRule, Logical
        <4> QED
          BY <2>2, <3>1, <3>4, <4>1, TestOfKeepsValue
      <3>5. CASE ~(r \in {"eq", "neq"} /\ ty[s] = "bool" /\ t \in {"y", "m", "n"})
        <4>1. Transform(e) = e
          BY <2>0, <3>2, <3>3, <3>5 DEF TransformRule, Logical
        <4> QED
          BY <4>1
      <3> QED
        BY <3>4, <3>5
    <2>3. ASSUME NEW t \in Logical, NEW k \in Nat \ {0}, NEW m \in Nat \ {0}, NEW f, NEW g,
                 e = <<t, f, g>>, Sized(f, k), Sized(g, m), k + m < n
          PROVE  Kept(e, n)
      <3>1. k < n /\ m < n /\ k + m + 1 \in Nat /\ k + m + 1 <= n
        BY <2>3
      <3>2. Kept(f, k) /\ Kept(g, m)
        BY <1>1, <2>3, <3>1
      <3>3. /\ IsExpr(f) /\ IsExpr(g) /\ IsExpr(Transform(f)) /\ IsExpr(Transform(g))
        BY <2>3, <3>2, SizedIsExpr
      <3>4. e # NoExpr /\ e[1] = t /\ e[2] = f /\ e[3] = g
        BY <2>3 DEF NoExpr
      <3>5. Transform(e) = <<t, Transform(f), Transform(g)>>
        BY <2>0, <3>4 DEF TransformRule
      <3>6. Sized(<<t, Transform(f), Transform(g)>>, k + m + 1)
        BY <3>2, LogicalSized
      <3>7. Sized(Transform(e), n)
        BY <3>1, <3>5, <3>6, SizedMore
      <3>8. /\ Value(Transform(e)) = Both(t, Value(Transform(f)), Value(Transform(g)))
            /\ Value(e) = Both(t, Value(f), Value(g))
        BY <2>3, <3>3, <3>5, LogicalValue
      <3> QED
        BY <3>2, <3>7, <3>8
    <2>4. ASSUME NEW x, NEW k \in Nat \ {0}, e = Not(x), Sized(x, k), 2 * k <= n
          PROVE  Kept(e, n)
      <3> DEFINE f == Transform(x)
      <3>1. k < n
        BY <2>4
      <3>2. Sized(f, k) /\ Value(f) = Value(x)
        BY <1>1, <2>4, <3>1
      <3>3. IsExpr(x) /\ IsExpr(f)
        BY <2>4, <3>2, SizedIsExpr
      <3>4. e # NoExpr /\ e[1] = "not" /\ e[2] = x
        BY <2>4 DEF Not, NoExpr
      <3>5. Transform(e) = NegatedRule(f, Transform)
        BY <2>0, <3>4 DEF TransformRule, Logical
      <3>6. Value(e) = 2 - Value(f)
        BY <2>4, <3>2, <3>3, NotValue
      <3> HIDE DEF f
      <3>7. ASSUME NEW s \in Alone, f = Sym(s) PROVE Kept(e, n)
        <4>1. f[1] = "sym" /\ f[2] = s
          BY <3>7 DEF Sym
        <4>2. Transform(e) = IF f = Sym("y") THEN Sym("n") ELSE IF f = Sym("n") THEN Sym("y")
                             ELSE IF f = Sym("m") THEN f ELSE Not(f)
          BY <3>5, <4>1 DEF NegatedRule, Relation, Logical
        <4>3. /\ Sized(Sym("y"), 1) /\ Sized(Sym("n"), 1) /\ Sized(f, 1)
          BY <3>7, LeafSized DEF Leaf, Calculated
        <4>4. /\ Sized(Sym("y"), n) /\ Sized(Sym("n"), n) /\ Sized(f, n)
          BY <2>4, <4>3, SizedMore
        <4>5. Sized(Not(f), n)
          <5>1. Sized(Not(f), 2 * k) /\ 2 * k \in Nat
            BY <3>2, NotSized
          <5> QED
            BY <2>4, <5>1, SizedMore
        <4>6. Value(Sym("y")) = 2 /\ Value(Sym("n")) = 0 /\ Value(Sym("m")) = 1
          BY SymValue DEF Calculated
        <4>7. Value(Not(f)) = 2 - Value(f)
          BY <3>3, NotValue
        <4> QED
          BY <3>6, <4>2, <4>4, <4>5, <4>6, <4>7
      <3>8. ASSUME NEW r \in Relation, NEW s \in Syms, NEW t \in Syms, f = Comp(r, s, t)
            PROVE  Kept(e, n)
        <4>1. f[1] = r /\ f[2] = s /\ f[3] = t
          BY <3>8 DEF Comp
        <4>2. Transform(e) = Comp(Negated[r], s, t)
          BY <3>5, <4>1 DEF NegatedRule, Relation
        <4>3. Negated[r] \in Relation /\ Value(Transform(e)) = 2 - Value(f)
          BY <3>8, <4>2, NegatedValue
        <4>4. Sized(Transform(e), 2)
          BY <4>2, <4>3, LeafSized DEF Leaf, IsComp
        <4>5. Sized(Transform(e), n)
          BY <2>4, <4>4, SizedMore
        <4> QED
          BY <3>6, <4>3, <4>5
      <3>9. ASSUME NEW g, NEW j \in Nat \ {0}, f = Not(g), Sized(g, j), 2 * j <= k
            PROVE  Kept(e, n)
        <4>1. f[1] = "not" /\ f[2] = g
          BY <3>9 DEF Not
        <4>2. Transform(e) = Transform(g)
          BY <3>5, <4>1 DEF NegatedRule
        <4>3. j < n /\ j <= n
          BY <2>4, <3>9
        <4>4. Kept(g, j) /\ IsExpr(g)
          BY <1>1, <3>9, <4>3, SizedIsExpr
        <4>5. Sized(Transform(g), n)
          BY <4>3, <4>4, SizedMore
        <4>6. Value(f) = 2 - Value(g) /\ Value(g) \in Tristate
          BY <3>9, <4>4, NotValue, ValueInRange
        <4> QED
          BY <3>6, <4>2, <4>4, <4>5, <4>6 DEF Tristate
      <3>10. ASSUME NEW t \in Logical, NEW i \in Nat \ {0}, NEW j \in Nat \ {0}, NEW g, NEW h,
                    f = <<t, g, h>>, Sized(g, i), Sized(h, j), i + j < k
             PROVE  Kept(e, n)
        <4> DEFINE d == <<Dual(t), Not(g), Not(h)>>
        <4>1. f[1] = t /\ f[2] = g /\ f[3] = h
          BY <3>10
        <4>2. t \notin Relation /\ t # "not"
          BY DEF Relation, Logical
        <4>3. Transform(e) = Transform(d)
          BY <3>5, <4>1, <4>2 DEF NegatedRule
        <4>4. /\ 2 * i \in Nat /\ 2 * j \in Nat /\ 2 * i + 2 * j + 1 \in Nat
              /\ 2 * i + 2 * j + 1 < n /\ 2 * i + 2 * j + 1 <= n
          BY <2>4, <3>10
        <4>5. Sized(Not(g), 2 * i) /\ Sized(Not(h), 2 * j)
          BY <3>10, NotSized
        <4>6. Sized(d, 2 * i + 2 * j + 1)
          <5>1. Dual(t) \in Logical
            BY DEF Dual, Logical
          <5> QED
            BY <4>4, <4>5, <5>1, LogicalSized
        <4>7. IsExpr(g) /\ IsExpr(h)
          BY <3>10, SizedIsExpr
        <4>8. Value(d) = 2 - Value(f)
          BY <3>10, <4>7, NegatedOperands
        <4> HIDE DEF d
        <4>9. Kept(d, 2 * i + 2 * j + 1)
          BY <1>1, <4>4, <4>6
        <4>10. Sized(Transform(d), n)
          BY <4>4, <4>9, SizedMore
        <4> QED
          BY <3>6, <4>3, <4>8, <4>9, <4>10
      <3> QED
        BY <3>2, <3>7, <3>8, <3>9, <3>10, SizedParts DEF Leaf, IsComp
    <2> QED
      BY <2>1, <2>2, <2>3, <2>4, SizedParts DEF Leaf
  <1>2. \A n \in Nat : n \in N
    <2> HIDE DEF N
    <2> QED
      BY <1>1, EveryNumber
  <1> QED
    BY <1>2 DEF IsExpr

-----------------------------------------------------------------------------
\* Sharp is the value of an expression in which every m is read as y.
Sharpened == [s \in Syms |-> [tri |-> IF cur[s].tri = 0 THEN 0 ELSE 2, str |-> cur[s].str]]
SharpObeys == \A e : IsExpr(e) => Sharp(e) = ValueRule(e, Sharp, Sharpened, ty)
TransBoolObeys == \A e : IsExpr(e) => TransBool(e) = TransBoolRule(e, TransBool, ty)
\* As menu_finalize calls it: "e is not n".
TransCompareObeys ==
    \A e : IsExpr(e) => \A t \in {"eq", "neq"} :
        TransCompare(e, t) = TransCompareRule(e, t, "n", TransCompare)

\* The value of a symbol in which m is read as y.
LEMMA SharpSym ==
    ASSUME Calculated, SharpObeys, NEW s \in Alone
    PROVE  Sharp(Sym(s)) = IF cur[s].tri = 0 THEN 0 ELSE 2
  <1>1. IsExpr(Sym(s)) /\ Sym(s)[1] = "sym" /\ Sym(s)[2] = s /\ Sym(s) # NoExpr
    BY Built1 DEF Sym, NoExpr
  <1>2. s \in Syms
    BY DEF Calculated
  <1> QED
    BY <1>1, <1>2 DEF SharpObeys, ValueRule, Sharpened

\* A comparison is y or n, whatever m is read as.
LEMMA SharpComp ==
    ASSUME SharpObeys, ValueObeys, NEW r \in Relation, NEW s \in Syms, NEW t \in Syms
    PROVE  Sharp(Comp(r, s, t)) = Value(Comp(r, s, t))
  <1> DEFINE e == Comp(r, s, t)
  <1>1. IsExpr(e) /\ e[1] = r /\ e[2] = s /\ e[3] = t /\ e # NoExpr
    BY Built1 DEF Comp, NoExpr
  <1>2. r \notin {"sym", "not", "and", "or"}
    BY DEF Relation
  <1>3. Sharpened[s].str = cur[s].str /\ Sharpened[t].str = cur[t].str
    BY DEF Sharpened
  <1> HIDE DEF e
  <1>4. Sharp(e) = ValueRule(e, Sharp, Sharpened, ty)
    BY <1>1 DEF SharpObeys
  <1>5. Sharp(e) = IF CompareValues(cur[s].str, ty[s], cur[t].str, ty[t]) \in Holds[r]
                   THEN 2 ELSE 0
    BY <1>1, <1>2, <1>3, <1>4 DEF ValueRule
  <1> QED
    BY <1>5, CompValue DEF e

\* A negation, with m read as y.
LEMMA SharpNot ==
    ASSUME SharpObeys, NEW e, IsExpr(e)
    PROVE  Sharp(Not(e)) = 2 - Sharp(e)
  <1>1. IsExpr(Not(e)) /\ Not(e)[1] = "not" /\ Not(e)[2] = e /\ Not(e) # NoExpr
    BY Built1 DEF Not, NoExpr
  <1> QED
    BY <1>1 DEF SharpObeys, ValueRule

\* An && or an ||, with m read as y.
LEMMA SharpLogical ==
    ASSUME SharpObeys, NEW t \in Logical, NEW e, NEW f, IsExpr(e), IsExpr(f)
    PROVE  Sharp(<<t, e, f>>) = Both(t, Sharp(e), Sharp(f))
  <1> DEFINE x == <<t, e, f>>
  <1>1. IsExpr(x) /\ x[1] = t /\ x[2] = e /\ x[3] = f /\ x # NoExpr
    BY Built1 DEF NoExpr
  <1>2. t \in {"and", "or"}
    BY DEF Logical
  <1> HIDE DEF x
  <1>3. Sharp(x) = ValueRule(x, Sharp, Sharpened, ty)
    BY <1>1 DEF SharpObeys
  <1>4. Sharp(x) = Both(t, Sharp(e), Sharp(f))
    BY <1>1, <1>2, <1>3 DEF ValueRule, Both
  <1> QED
    BY <1>4 DEF x

(***************************************************************************)
(* expr_trans_bool: FOO instead of FOO!=n says the same when m counts as   *)
(* y, in whatever expression it stands.  (The values may differ: FOO is m  *)
(* where FOO!=n is y.)                                                     *)
(***************************************************************************)
THEOREM TransBoolKeepsMeaning ==
    ASSUME Calculated, ValueObeys, SharpObeys, TransBoolObeys
    PROVE  \A e : IsExpr(e) => IsExpr(TransBool(e)) /\ Sharp(TransBool(e)) = Sharp(e)
  <1> DEFINE Kept(e) == IsExpr(TransBool(e)) /\ Sharp(TransBool(e)) = Sharp(e)
             N == {n \in Nat : \A e : Sized(e, n) => Kept(e)}
  <1>1. ASSUME NEW n \in Nat, \A m \in Nat : m < n => m \in N
        PROVE  n \in N
    <2> SUFFICES ASSUME NEW e, Sized(e, n) PROVE Kept(e)
      OBVIOUS
    <2>0. IsExpr(e) /\ TransBool(e) = TransBoolRule(e, TransBool, ty)
      BY SizedIsExpr DEF TransBoolObeys
    <2>1. ASSUME NEW s \in Alone, e = Sym(s) PROVE Kept(e)
      <3>1. e # NoExpr /\ e[1] = "sym"
        BY <2>1 DEF Sym, NoExpr
      <3>2. TransBool(e) = e
        BY <2>0, <3>1 DEF TransBoolRule, Logical
      <3> QED
        BY <2>0, <3>2
    <2>2. ASSUME IsComp(e) PROVE Kept(e)
      <3>1. PICK r \in Relation, s \in Syms, t \in Syms : e = Comp(r, s, t)
        BY <2>2 DEF IsComp
      <3>2. e # NoExpr /\ e[1] = r /\ e[2] = s /\ e[3] = t
        BY <3>1 DEF Comp, NoExpr
      <3>3. r \notin {"and", "or", "not"}
        BY DEF Relation
      <3>4. CASE r = "neq" /\ ty[s] = "tristate" /\ t = "n"
        <4>1. TransBool(e) = Sym(s)
          BY <2>0, <3>2, <3>3, <3>4 DEF TransBoolRule, Logical
        <4>2. s \in Alone
          BY <3>4 DEF Calculated
        <4>3. IsExpr(Sym(s)) /\ Sharp(Sym(s)) = IF cur[s].tri = 0 THEN 0 ELSE 2
          BY <4>2, Built1, SharpSym
        <4>4. Sharp(e) = IF cur[s].tri = 0 THEN 0 ELSE 2
          BY <3>1, <3>4, SharpComp, TestValue DEF Means
        <4> QED
          BY <4>1, <4>3, <4>4
      <3>5. CASE ~(r = "neq" /\ ty[s] = "tristate" /\ t = "n")
        <4>1. TransBool(e) = e
          BY <2>0, <3>2, <3>3, <3>5 DEF TransBoolRule, Logical
        <4> QED
          BY <2>0, <4>1
      <3> QED
        BY <3>4, <3>5
    <2>3. ASSUME NEW t \in Logical, NEW k \in Nat \ {0}, NEW m \in Nat \ {0}, NEW f, NEW g,
                 e = <<t, f, g>>, Sized(f, k), Sized(g, m), k + m < n
          PROVE  Kept(e)
      <3>1. k < n /\ m < n
        BY <2>3
      <3>2. Kept(f) /\ Kept(g) /\ IsExpr(f) /\ IsExpr(g)
        BY <1>1, <2>3, <3>1, SizedIsExpr
      <3>3. e # NoExpr /\ e[1] = t /\ e[2] = f /\ e[3] = g /\ t # "not"
        BY <2>3 DEF NoExpr, Logical
      <3>4. TransBool(e) = <<t, TransBool(f), TransBool(g)>>
        BY <2>0, <3>3 DEF TransBoolRule
      <3>5. IsExpr(TransBool(e))
        BY <3>2, <3>4, Built1
      <3>6. /\ Sharp(TransBool(e)) = Both(t, Sharp(TransBool(f)), Sharp(TransBool(g)))
            /\ Sharp(e) = Both(t, Sharp(f), Sharp(g))
        BY <2>3, <3>2, <3>4, SharpLogical
      <3> QED
        BY <3>2, <3>5, <3>6
    <2>4. ASSUME NEW f, NEW k \in Nat \ {0}, e = Not(f), Sized(f, k), 2 * k <= n
          PROVE  Kept(e)
      <3>1. k < n
        BY <2>4
      <3>2. Kept(f) /\ IsExpr(f)
        BY <1>1, <2>4, <3>1, SizedIsExpr
      <3>3. e # NoExpr /\ e[1] = "not" /\ e[2] = f
        BY <2>4 DEF Not, NoExpr
      <3>4. TransBool(e) = Not(TransBool(f))
        BY <2>0, <3>3 DEF TransBoolRule
      <3> QED
        BY <2>4, <3>2, <3>4, Built1, SharpNot
    <2> QED
      BY <2>1, <2>2, <2>3, <2>4, SizedParts DEF Leaf
  <1>2. \A n \in Nat : n \in N
    <2> HIDE DEF N
    <2> QED
      BY <1>1, EveryNumber
  <1> QED
    BY <1>2 DEF IsExpr

\* What stands alone can be compared with n: it is no number and no text.
Tested == \A s \in Alone : ty[s] \in {"bool", "tristate"} \/ s \in {"y", "m", "n"}

\* FOO=n and FOO!=n of what stands alone.
LEMMA TestedValue ==
    ASSUME Calculated, ValueObeys, Tested, NEW s \in Alone
    PROVE  /\ Value(Comp("eq", s, "n")) = IF cur[s].tri = 0 THEN 2 ELSE 0
           /\ Value(Comp("neq", s, "n")) = IF cur[s].tri = 0 THEN 0 ELSE 2
  <1>1. s \in Syms /\ "n" \in Syms
    BY DEF Calculated
  <1>2. CASE ty[s] \in {"bool", "tristate"}
    BY <1>1, <1>2, TestValue DEF Means
  <1>3. CASE s \in {"y", "m", "n"}
    <2>1. cur[s].str = s /\ (cur[s].tri = 0 <=> s = "n")
      BY <1>3 DEF Calculated
    <2>2. CompareValues(cur[s].str, ty[s], cur["n"].str, ty["n"]) = 0 <=> s = "n"
      BY <1>1, <2>1, TextTest
    <2>3. CompareValues(cur[s].str, ty[s], cur["n"].str, ty["n"]) \in {-1, 0, 1}
      BY CompareRange
    <2>4. /\ "eq" \in Relation /\ Holds["eq"] = {0}
          /\ "neq" \in Relation /\ Holds["neq"] = {-1, 1}
      BY DEF Relation, Holds
    <2> QED
      BY <1>1, <2>1, <2>2, <2>3, <2>4, CompValue
  <1> QED
    BY <1>2, <1>3 DEF Tested

(***************************************************************************)
(* expr_trans_compare: "e is not n" has the value that e has when m counts *)
(* as y, and "e is n" the opposite one.  For an e that negates what is m,  *)
(* that is less than its name says: the value of !FOO is m, so not n, and  *)
(* "!FOO is not n" is n.                                                   *)
(***************************************************************************)
THEOREM TransCompareMeans ==
    ASSUME Calculated, Tested, ValueObeys, SharpObeys, TransCompareObeys
    PROVE  \A e : IsExpr(e) =>
               /\ Value(TransCompare(e, "neq")) = Sharp(e)
               /\ Value(TransCompare(e, "eq")) = 2 - Sharp(e)
  <1> DEFINE Yes(e) == TransCompare(e, "neq")
             No(e) == TransCompare(e, "eq")
             Kept(e) == /\ IsExpr(Yes(e)) /\ Value(Yes(e)) = Sharp(e)
                        /\ IsExpr(No(e)) /\ Value(No(e)) = 2 - Sharp(e)
                        /\ Sharp(e) \in {0, 2}
             N == {n \in Nat : \A e : Sized(e, n) => Kept(e)}
  <1>1. ASSUME NEW n \in Nat, \A m \in Nat : m < n => m \in N
        PROVE  n \in N
    <2> SUFFICES ASSUME NEW e, Sized(e, n) PROVE Kept(e)
      OBVIOUS
    <2>0. /\ IsExpr(e)
          /\ Yes(e) = TransCompareRule(e, "neq", "n", TransCompare)
          /\ No(e) = TransCompareRule(e, "eq", "n", TransCompare)
      BY SizedIsExpr DEF TransCompareObeys
    <2>1. ASSUME NEW s \in Alone, e = Sym(s) PROVE Kept(e)
      <3>1. e # NoExpr /\ e[1] = "sym" /\ e[2] = s
        BY <2>1 DEF Sym, NoExpr
      <3>2. Yes(e) = Comp("neq", s, "n") /\ No(e) = Comp("eq", s, "n")
        BY <2>0, <3>1 DEF TransCompareRule, Logical, Relation
      <3>3. s \in Syms /\ "n" \in Syms /\ "eq" \in Relation /\ "neq" \in Relation
        BY DEF Calculated, Relation
      <3>4. IsExpr(Yes(e)) /\ IsExpr(No(e))
        BY <3>2, <3>3, Built1
      <3> QED
        BY <2>1, <3>2, <3>4, TestedValue, SharpSym
    <2>2. ASSUME IsComp(e) PROVE Kept(e)
      <3>1. PICK r \in Relation, s \in Syms, t \in Syms : e = Comp(r, s, t)
        BY <2>2 DEF IsComp
      <3>2. e # NoExpr /\ e[1] = r /\ r \notin {"and", "or", "not"}
        BY <3>1 DEF Comp, NoExpr, Relation
      <3>3. Yes(e) = e /\ No(e) = Not(e)
        BY <2>0, <3>2 DEF TransCompareRule, Logical
      <3>4. Value(e) = Sharp(e) /\ Value(e) \in {0, 2}
        BY <3>1, SharpComp, CompValue
      <3> QED
        BY <2>0, <3>3, <3>4, Built1, NotValue
    <2>3. ASSUME NEW t \in Logical, NEW k \in Nat \ {0}, NEW m \in Nat \ {0}, NEW f, NEW g,
                 e = <<t, f, g>>, Sized(f, k), Sized(g, m), k + m < n
          PROVE  Kept(e)
      <3> DEFINE d == <<Dual(t), No(f), No(g)>>
      <3>1. k < n /\ m < n
        BY <2>3
      <3>2. Kept(f) /\ Kept(g) /\ IsExpr(f) /\ IsExpr(g)
        BY <1>1, <2>3, <3>1, SizedIsExpr
      <3>3. e # NoExpr /\ e[1] = t /\ e[2] = f /\ e[3] = g /\ Dual(t) \in Logical
        BY <2>3 DEF NoExpr, Logical, Dual
      <3>4. Yes(e) = Not(d) /\ No(e) = d
        BY <2>0, <3>3 DEF TransCompareRule
      <3>5. IsExpr(d) /\ Value(d) = Both(Dual(t), Value(No(f)), Value(No(g)))
        BY <3>2, <3>3, Built1, LogicalValue
      <3>6. Sharp(e) = Both(t, Sharp(f), Sharp(g))
        BY <2>3, <3>2, SharpLogical
      <3>7. \A a \in {0, 2}, b \in {0, 2} : /\ Both(Dual(t), 2 - a, 2 - b) = 2 - Both(t, a, b)
                                        /\ Both(t, a, b) \in {0, 2}
        BY DEF Both, Dual, Lower, Upper, Logical
      <3> HIDE DEF d
      <3>8. Value(d) = 2 - Sharp(e) /\ Sharp(e) \in {0, 2}
        BY <3>2, <3>5, <3>6, <3>7
      <3>9. IsExpr(Not(d)) /\ Value(Not(d)) = 2 - Value(d)
        BY <3>5, Built1, NotValue
      <3> QED
        BY <3>4, <3>5, <3>8, <3>9
    <2>4. ASSUME NEW f, NEW k \in Nat \ {0}, e = Not(f), Sized(f, k), 2 * k <= n
          PROVE  Kept(e)
      <3>1. k < n
        BY <2>4
      <3>2. Kept(f) /\ IsExpr(f)
        BY <1>1, <2>4, <3>1, SizedIsExpr
      <3>3. e # NoExpr /\ e[1] = "not" /\ e[2] = f
        BY <2>4 DEF Not, NoExpr
      <3>4. Yes(e) = No(f) /\ No(e) = Yes(f)
        BY <2>0, <3>3 DEF TransCompareRule, Logical
      <3>5. Sharp(e) = 2 - Sharp(f)
        BY <2>4, <3>2, SharpNot
      <3> QED
        BY <3>2, <3>4, <3>5
    <2> QED
      BY <2>1, <2>2, <2>3, <2>4, SizedParts DEF Leaf
  <1>2. \A n \in Nat : n \in N
    <2> HIDE DEF N
    <2> QED
      BY <1>1, EveryNumber
  <1> QED
    BY <1>2 DEF IsExpr

-----------------------------------------------------------------------------
\* The operators of expr_eq obey their rules.
EqObeys == \A e, f : IsExpr(e) /\ IsExpr(f) => (Eq(e, f) <=> EqRule(e, f, Eq, EliminateEq))
LeavesObey ==
    \A e, f : IsExpr(e) /\ IsExpr(f) => \A t \in Logical :
        Leaves(t, <<e, f>>) = LeavesRule(t, <<e, f>>, Leaves, Eq)
EliminateEqObeys ==
    \A e, f : IsExpr(e) /\ IsExpr(f) =>
        EliminateEq(<<e, f>>) = EliminateEqRule(<<e, f>>, Leaves, EliminateYn)
EqualityObeys == EqObeys /\ LeavesObey /\ EliminateEqObeys

\* && and || are commutative and associative.
LEMMA BothFacts ==
    ASSUME NEW t \in Logical
    PROVE  /\ \A a \in Tristate, b \in Tristate :
                  Both(t, a, b) \in Tristate /\ Both(t, a, b) = Both(t, b, a)
           /\ \A a \in Tristate, b \in Tristate, c \in Tristate :
                  Both(t, Both(t, a, b), c) = Both(t, a, Both(t, b, c))
  <1>1. t = "and" \/ t = "or"
    BY DEF Logical
  <1> QED
    BY <1>1 DEF Both, Lower, Upper, Tristate

\* Four operands, in pairs.
LEMMA BothPairs ==
    ASSUME NEW t \in Logical, NEW a \in Tristate, NEW b \in Tristate,
           NEW c \in Tristate, NEW d \in Tristate
    PROVE  Both(t, Both(t, a, c), Both(t, b, d)) = Both(t, Both(t, a, b), Both(t, c, d))
  <1>1. t = "and" \/ t = "or"
    BY DEF Logical
  <1> QED
    BY <1>1 DEF Both, Lower, Upper, Tristate

\* What an expression of a type is made of.
LEMMA PartsOf ==
    ASSUME NEW e, NEW n \in Nat, Sized(e, n)
    PROVE  /\ e # NoExpr
           /\ e[1] \in Logical => \E k \in Nat \ {0}, m \in Nat \ {0} : \E f, g :
                  e = <<e[1], f, g>> /\ Sized(f, k) /\ Sized(g, m) /\ k + m < n
           /\ e[1] = "not" => \E k \in Nat \ {0} : \E f :
                  e = Not(f) /\ Sized(f, k) /\ 2 * k <= n
  <1>1. CASE Leaf(e, n)
    BY <1>1 DEF Leaf, IsComp, Sym, Comp, Relation, Logical, NoExpr
  <1>2. ASSUME NEW f, NEW k \in Nat \ {0}, e = Not(f), Sized(f, k), 2 * k <= n
        PROVE  e # NoExpr /\ e[1] = "not"
    BY <1>2 DEF Not, NoExpr
  <1>3. ASSUME NEW t \in Logical, NEW f, NEW g, e = <<t, f, g>>
        PROVE  e # NoExpr /\ e[1] = t
    BY <1>3 DEF NoExpr
  <1>4. "not" \notin Logical
    BY DEF Logical
  <1>5. CASE \E k \in Nat \ {0} : \E f : e = Not(f) /\ Sized(f, k) /\ 2 * k <= n
    <2>1. e # NoExpr /\ e[1] = "not"
      BY <1>2, <1>5
    <2> QED
      BY <1>4, <1>5, <2>1
  <1>6. CASE \E t \in Logical, k \in Nat \ {0}, m \in Nat \ {0} : \E f, g :
                 e = <<t, f, g>> /\ Sized(f, k) /\ Sized(g, m) /\ k + m < n
    <2>1. PICK t \in Logical, k \in Nat \ {0}, m \in Nat \ {0} : \E f, g :
                 e = <<t, f, g>> /\ Sized(f, k) /\ Sized(g, m) /\ k + m < n
      BY <1>6
    <2>2. e # NoExpr /\ e[1] = t
      BY <1>3, <2>1
    <2> QED
      BY <1>4, <2>1, <2>2
  <1> QED
    BY <1>1, <1>5, <1>6, SizedParts

\* The operands common to e and f, whose value is K, have been struck out of
\* e, which leaves a, and of f, which leaves b.
Struck(t, e, f, a, b, i, j) ==
    /\ Sized(a, i) /\ Sized(b, j)
    /\ e[1] = t => a[1] = t
    /\ f[1] = t => b[1] = t
    /\ \E K \in Tristate : /\ Value(e) = Both(t, Value(a), K)
                          /\ Value(f) = Both(t, Value(b), K)
LeavesStruck(t, e, f, i, j) ==
    \E a, b : Leaves(t, <<e, f>>) = <<a, b>> /\ Struck(t, e, f, a, b, i, j)
\* Expressions of a size of n together are compared rightly.
SoundAt(n) ==
    \A i \in Nat, j \in Nat : i + j = n => \A e, f : Sized(e, i) /\ Sized(f, j) =>
        /\ Eq(e, f) => Value(e) = Value(f)
        /\ \A t \in Logical : LeavesStruck(t, e, f, i, j)

\* What Struck says, with the types of its parts.
LEMMA StruckKinds ==
    ASSUME Calculated, ValueObeys, NEW t, NEW e, NEW f, NEW a, NEW b, NEW i \in Nat, NEW j \in Nat,
           Struck(t, e, f, a, b, i, j)
    PROVE  /\ Sized(a, i) /\ Sized(b, j) /\ IsExpr(a) /\ IsExpr(b)
           /\ Value(a) \in Tristate /\ Value(b) \in Tristate
           /\ e[1] = t => a[1] = t
           /\ f[1] = t => b[1] = t
           /\ \E K \in Tristate : Value(e) = Both(t, Value(a), K) /\ Value(f) = Both(t, Value(b), K)
  <1>1. Sized(a, i) /\ Sized(b, j)
    BY DEF Struck
  <1>2. IsExpr(a) /\ IsExpr(b)
    BY <1>1, SizedIsExpr
  <1>3. Value(a) \in Tristate /\ Value(b) \in Tristate
    BY <1>2, ValueInRange
  <1> QED
    BY <1>1, <1>2, <1>3 DEF Struck

\* __expr_eliminate_eq when its first expression is an && or || of the level.
LEMMA SplitFirst ==
    ASSUME Calculated, ValueObeys, LeavesObey, NEW t \in Logical,
           NEW i \in Nat, NEW j \in Nat, NEW e, NEW f, Sized(e, i), Sized(f, j), e[1] = t,
           \A n \in Nat : n < i + j => SoundAt(n)
    PROVE  LeavesStruck(t, e, f, i, j)
  <1>1. PICK k \in Nat \ {0}, m \in Nat \ {0} : \E x, y :
            e = <<t, x, y>> /\ Sized(x, k) /\ Sized(y, m) /\ k + m < i
    BY PartsOf
  <1>2. PICK x, y : e = <<t, x, y>> /\ Sized(x, k) /\ Sized(y, m)
    BY <1>1
  <1>3. /\ k + j \in Nat /\ k + j < i + j /\ m + j \in Nat /\ m + j < i + j
        /\ k + m + 1 \in Nat /\ k + m + 1 <= i
    BY <1>1
  <1>4. LeavesStruck(t, x, f, k, j)
    BY <1>2, <1>3 DEF SoundAt
  <1>5. PICK a1, a2 : Leaves(t, <<x, f>>) = <<a1, a2>> /\ Struck(t, x, f, a1, a2, k, j)
    BY <1>4 DEF LeavesStruck
  <1>6. /\ Sized(a1, k) /\ Sized(a2, j) /\ IsExpr(a1) /\ IsExpr(a2)
        /\ Value(a1) \in Tristate /\ Value(a2) \in Tristate
        /\ f[1] = t => a2[1] = t
        /\ \E K \in Tristate : Value(x) = Both(t, Value(a1), K) /\ Value(f) = Both(t, Value(a2), K)
    BY <1>5, StruckKinds
  <1>7. LeavesStruck(t, y, a2, m, j)
    BY <1>2, <1>3, <1>6 DEF SoundAt
  <1>8. PICK b1, b2 : Leaves(t, <<y, a2>>) = <<b1, b2>> /\ Struck(t, y, a2, b1, b2, m, j)
    BY <1>7 DEF LeavesStruck
  <1>9. /\ Sized(b1, m) /\ Sized(b2, j) /\ IsExpr(b1) /\ IsExpr(b2)
        /\ Value(b1) \in Tristate /\ Value(b2) \in Tristate
        /\ a2[1] = t => b2[1] = t
        /\ \E K \in Tristate : Value(y) = Both(t, Value(b1), K) /\ Value(a2) = Both(t, Value(b2), K)
    BY <1>8, StruckKinds
  <1> DEFINE a == <<t, a1, b1>>
  <1>10. Leaves(t, <<e, f>>) = <<a, b2>>
    <2>1. IsExpr(e) /\ IsExpr(f) /\ e[2] = x /\ e[3] = y
      BY <1>2, SizedIsExpr
    <2>2. Leaves(t, <<e, f>>) = LeavesRule(t, <<e, f>>, Leaves, Eq)
      BY <2>1 DEF LeavesObey
    <2>3. <<e, f>>[1] = e /\ <<e, f>>[2] = f /\ <<a1, a2>>[1] = a1 /\ <<a1, a2>>[2] = a2
          /\ <<b1, b2>>[1] = b1 /\ <<b1, b2>>[2] = b2
      OBVIOUS
    <2>4. LeavesRule(t, <<e, f>>, Leaves, Eq) = <<<<t, a1, b1>>, b2>>
      BY <1>5, <1>8, <2>1, <2>3 DEF LeavesRule
    <2> QED
      BY <2>2, <2>4
  <1>11. Sized(a, i)
    <2>1. Sized(a, k + m + 1)
      BY <1>6, <1>9, LogicalSized
    <2> HIDE DEF a
    <2> QED
      BY <1>3, <2>1, SizedMore
  <1>12. PICK K \in Tristate : Value(x) = Both(t, Value(a1), K) /\ Value(f) = Both(t, Value(a2), K)
    BY <1>6
  <1>13. PICK L \in Tristate : Value(y) = Both(t, Value(b1), L) /\ Value(a2) = Both(t, Value(b2), L)
    BY <1>9
  <1>14. Both(t, L, K) \in Tristate /\ Both(t, K, L) = Both(t, L, K)
    BY BothFacts
  <1>15. Value(e) = Both(t, Value(a), Both(t, L, K))
    <2>1. IsExpr(x) /\ IsExpr(y)
      BY <1>2, SizedIsExpr
    <2>2. Value(e) = Both(t, Both(t, Value(a1), K), Both(t, Value(b1), L))
      BY <1>2, <1>12, <1>13, <2>1, LogicalValue
    <2>3. Value(a) = Both(t, Value(a1), Value(b1))
      BY <1>6, <1>9, LogicalValue
    <2> HIDE DEF a
    <2> QED
      BY <1>6, <1>9, <1>14, <2>2, <2>3, BothPairs
  <1>16. Value(f) = Both(t, Value(b2), Both(t, L, K))
    BY <1>9, <1>12, <1>13, BothFacts
  <1>17. a[1] = t /\ (f[1] = t => b2[1] = t)
    BY <1>6, <1>9
  <1> HIDE DEF a
  <1>18. Struck(t, e, f, a, b2, i, j)
    BY <1>9, <1>11, <1>14, <1>15, <1>16, <1>17 DEF Struck
  <1> QED
    BY <1>10, <1>18 DEF LeavesStruck

\* __expr_eliminate_eq when its second expression is one.
LEMMA SplitSecond ==
    ASSUME Calculated, ValueObeys, LeavesObey, NEW t \in Logical,
           NEW i \in Nat, NEW j \in Nat, NEW e, NEW f, Sized(e, i), Sized(f, j),
           e[1] # t, f[1] = t,
           \A n \in Nat : n < i + j => SoundAt(n)
    PROVE  LeavesStruck(t, e, f, i, j)
  <1>1. PICK k \in Nat \ {0}, m \in Nat \ {0} : \E x, y :
            f = <<t, x, y>> /\ Sized(x, k) /\ Sized(y, m) /\ k + m < j
    BY PartsOf
  <1>2. PICK x, y : f = <<t, x, y>> /\ Sized(x, k) /\ Sized(y, m)
    BY <1>1
  <1>3. /\ i + k \in Nat /\ i + k < i + j /\ i + m \in Nat /\ i + m < i + j
        /\ k + m + 1 \in Nat /\ k + m + 1 <= j
    BY <1>1
  <1>4. LeavesStruck(t, e, x, i, k)
    BY <1>2, <1>3 DEF SoundAt
  <1>5. PICK a1, a2 : Leaves(t, <<e, x>>) = <<a1, a2>> /\ Struck(t, e, x, a1, a2, i, k)
    BY <1>4 DEF LeavesStruck
  <1>6. /\ Sized(a1, i) /\ Sized(a2, k) /\ IsExpr(a1) /\ IsExpr(a2)
        /\ Value(a1) \in Tristate /\ Value(a2) \in Tristate
        /\ \E K \in Tristate : Value(e) = Both(t, Value(a1), K) /\ Value(x) = Both(t, Value(a2), K)
    BY <1>5, StruckKinds
  <1>7. LeavesStruck(t, a1, y, i, m)
    BY <1>2, <1>3, <1>6 DEF SoundAt
  <1>8. PICK b1, b2 : Leaves(t, <<a1, y>>) = <<b1, b2>> /\ Struck(t, a1, y, b1, b2, i, m)
    BY <1>7 DEF LeavesStruck
  <1>9. /\ Sized(b1, i) /\ Sized(b2, m) /\ IsExpr(b1) /\ IsExpr(b2)
        /\ Value(b1) \in Tristate /\ Value(b2) \in Tristate
        /\ \E K \in Tristate : Value(a1) = Both(t, Value(b1), K) /\ Value(y) = Both(t, Value(b2), K)
    BY <1>8, StruckKinds
  <1> DEFINE b == <<t, a2, b2>>
  <1>10. Leaves(t, <<e, f>>) = <<b1, b>>
    <2>1. IsExpr(e) /\ IsExpr(f) /\ f[2] = x /\ f[3] = y
      BY <1>2, SizedIsExpr
    <2>2. Leaves(t, <<e, f>>) = LeavesRule(t, <<e, f>>, Leaves, Eq)
      BY <2>1 DEF LeavesObey
    <2>3. <<e, f>>[1] = e /\ <<e, f>>[2] = f /\ <<a1, a2>>[1] = a1 /\ <<a1, a2>>[2] = a2
          /\ <<b1, b2>>[1] = b1 /\ <<b1, b2>>[2] = b2
      OBVIOUS
    <2>4. LeavesRule(t, <<e, f>>, Leaves, Eq) = <<b1, <<t, a2, b2>>>>
      BY <1>5, <1>8, <2>1, <2>3 DEF LeavesRule
    <2> QED
      BY <2>2, <2>4
  <1>11. Sized(b, j)
    <2>1. Sized(b, k + m + 1)
      BY <1>6, <1>9, LogicalSized
    <2> HIDE DEF b
    <2> QED
      BY <1>3, <2>1, SizedMore
  <1>12. PICK K \in Tristate : Value(e) = Both(t, Value(a1), K) /\ Value(x) = Both(t, Value(a2), K)
    BY <1>6
  <1>13. PICK L \in Tristate : Value(a1) = Both(t, Value(b1), L) /\ Value(y) = Both(t, Value(b2), L)
    BY <1>9
  <1>14. Both(t, L, K) \in Tristate /\ Both(t, K, L) = Both(t, L, K)
    BY BothFacts
  <1>15. Value(f) = Both(t, Value(b), Both(t, L, K))
    <2>1. IsExpr(x) /\ IsExpr(y)
      BY <1>2, SizedIsExpr
    <2>2. Value(f) = Both(t, Both(t, Value(a2), K), Both(t, Value(b2), L))
      BY <1>2, <1>12, <1>13, <2>1, LogicalValue
    <2>3. Value(b) = Both(t, Value(a2), Value(b2))
      BY <1>6, <1>9, LogicalValue
    <2> HIDE DEF b
    <2> QED
      BY <1>6, <1>9, <1>14, <2>2, <2>3, BothPairs
  <1>16. Value(e) = Both(t, Value(b1), Both(t, L, K))
    BY <1>9, <1>12, <1>13, BothFacts
  <1>17. b[1] = t
    OBVIOUS
  <1> HIDE DEF b
  <1>18. Struck(t, e, f, b1, b, i, j)
    BY <1>9, <1>11, <1>14, <1>15, <1>16, <1>17 DEF Struck
  <1> QED
    BY <1>10, <1>18 DEF LeavesStruck

\* expr_eq of two expressions, when smaller ones are compared rightly.
LEMMA EqSound ==
    ASSUME Calculated, ValueObeys, YnObeys, EqualityObeys,
           NEW i \in Nat, NEW j \in Nat, NEW e, NEW f, Sized(e, i), Sized(f, j), Eq(e, f),
           \A n \in Nat : n < i + j => SoundAt(n)
    PROVE  Value(e) = Value(f)
  <1>1. IsExpr(e) /\ IsExpr(f) /\ e # NoExpr /\ f # NoExpr
    BY SizedIsExpr, PartsOf
  <1>2. EqRule(e, f, Eq, EliminateEq)
    BY <1>1 DEF EqualityObeys, EqObeys
  <1>3. CASE e = f
    BY <1>3
  <1>4. CASE e[1] = "not" /\ e[1] = f[1] /\ Eq(e[2], f[2])
    <2>1. PICK k \in Nat \ {0} : \E x : e = Not(x) /\ Sized(x, k) /\ 2 * k <= i
      BY <1>4, PartsOf
    <2>2. PICK x : e = Not(x) /\ Sized(x, k)
      BY <2>1
    <2>3. PICK m \in Nat \ {0} : \E y : f = Not(y) /\ Sized(y, m) /\ 2 * m <= j
      BY <1>4, PartsOf
    <2>4. PICK y : f = Not(y) /\ Sized(y, m)
      BY <2>3
    <2>5. e[2] = x /\ f[2] = y
      BY <2>2, <2>4 DEF Not
    <2>6. k + m \in Nat /\ k + m < i + j
      BY <2>1, <2>3
    <2>7. Value(x) = Value(y)
      BY <1>4, <2>2, <2>4, <2>5, <2>6 DEF SoundAt
    <2>8. IsExpr(x) /\ IsExpr(y)
      BY <2>2, <2>4, SizedIsExpr
    <2> QED
      BY <2>2, <2>4, <2>7, <2>8, NotValue
  <1>5. CASE /\ e[1] \in Logical /\ e[1] = f[1]
             /\ EliminateEq(<<e, f>>)[1] = EliminateEq(<<e, f>>)[2]
    <2> DEFINE t == e[1]
    <2>1. LeavesStruck(t, e, f, i, j)
      BY <1>5, SplitFirst DEF EqualityObeys
    <2>2. PICK a, b : Leaves(t, <<e, f>>) = <<a, b>> /\ Struck(t, e, f, a, b, i, j)
      BY <2>1 DEF LeavesStruck
    <2>3. /\ IsExpr(a) /\ IsExpr(b) /\ a[1] = t /\ b[1] = t
          /\ \E K \in Tristate : Value(e) = Both(t, Value(a), K) /\ Value(f) = Both(t, Value(b), K)
      BY <1>5, <2>2, StruckKinds
    <2>4. EliminateEq(<<e, f>>) = EliminateEqRule(<<e, f>>, Leaves, EliminateYn)
      BY <1>1 DEF EqualityObeys, EliminateEqObeys
    <2>5. /\ <<e, f>>[1] = e /\ <<e, f>>[2] = f
          /\ <<a, b>>[1] = a /\ <<a, b>>[2] = b
      OBVIOUS
    <2>6. EliminateEqRule(<<e, f>>, Leaves, EliminateYn) = <<EliminateYn(a), EliminateYn(b)>>
      BY <1>1, <1>5, <2>2, <2>3, <2>5 DEF EliminateEqRule
    <2>7. EliminateYn(a) = EliminateYn(b)
      <3> DEFINE x == EliminateYn(a)
                 y == EliminateYn(b)
                 p == EliminateEq(<<e, f>>)
      <3>1. p = <<x, y>> /\ p[1] = p[2]
        BY <1>5, <2>4, <2>6
      <3> HIDE DEF x, y, p
      <3>2. x = y
        BY <3>1
      <3> QED
        BY <3>2 DEF x, y
    <2>8. Value(a) = Value(b)
      BY <2>3, <2>7, YnKeepsValue
    <2> QED
      BY <2>3, <2>8
  <1> QED
    BY <1>2, <1>3, <1>4, <1>5 DEF EqRule

\* __expr_eliminate_eq of two operands.
LEMMA StrikeOut ==
    ASSUME Calculated, ValueObeys, LeavesObey, NEW t \in Logical,
           NEW i \in Nat, NEW j \in Nat, NEW e, NEW f, Sized(e, i), Sized(f, j),
           e[1] # t, f[1] # t, Eq(e, f) => Value(e) = Value(f)
    PROVE  LeavesStruck(t, e, f, i, j)
  <1>1. IsExpr(e) /\ IsExpr(f) /\ Value(e) \in Tristate /\ Value(f) \in Tristate
    BY SizedIsExpr, ValueInRange
  <1>2. Leaves(t, <<e, f>>) = LeavesRule(t, <<e, f>>, Leaves, Eq)
    BY <1>1 DEF LeavesObey
  <1>3. <<e, f>>[1] = e /\ <<e, f>>[2] = f
    OBVIOUS
  <1>4. /\ Sized(Unit(t), i) /\ Sized(Unit(t), j)
        /\ Value(Unit(t)) = IF t = "and" THEN 2 ELSE 0
    <2>1. i # 0 /\ j # 0
      BY SizedParts
    <2>2. i >= 1 /\ j >= 1
      BY <2>1
    <2>3. /\ Sized(Sym("y"), 1) /\ Sized(Sym("n"), 1)
      BY LeafSized DEF Leaf, Calculated
    <2>4. Sized(Unit(t), 1)
      BY <2>3 DEF Unit
    <2>5. Sized(Unit(t), i) /\ Sized(Unit(t), j)
      BY <2>2, <2>4, SizedMore
    <2>6. Value(Sym("y")) = 2 /\ Value(Sym("n")) = 0
      BY SymValue DEF Calculated
    <2> QED
      BY <2>5, <2>6 DEF Unit
  <1> DEFINE u == IF t = "and" THEN 2 ELSE 0
  <1>5. u \in Tristate /\ \A a \in Tristate : Both(t, a, u) = a /\ Both(t, u, a) = a
    BY DEF Tristate, Both, Lower, Upper, Logical
  <1>6. CASE Leaves(t, <<e, f>>) = <<e, f>>
    <2>1. Value(e) = Both(t, Value(e), u) /\ Value(f) = Both(t, Value(f), u)
      BY <1>1, <1>5
    <2> HIDE DEF u
    <2>2. Struck(t, e, f, e, f, i, j)
      BY <1>5, <2>1 DEF Struck
    <2> QED
      BY <1>6, <2>2 DEF LeavesStruck
  <1>7. CASE Leaves(t, <<e, f>>) = <<Unit(t), Unit(t)>> /\ Eq(e, f)
    <2>1. /\ Value(e) = Both(t, Value(Unit(t)), Value(e))
          /\ Value(f) = Both(t, Value(Unit(t)), Value(e))
      BY <1>1, <1>4, <1>5, <1>7
    <2>2. Struck(t, e, f, Unit(t), Unit(t), i, j)
      BY <1>1, <1>4, <2>1 DEF Struck
    <2> QED
      BY <1>7, <2>2 DEF LeavesStruck
  <1>8. \/ LeavesRule(t, <<e, f>>, Leaves, Eq) = <<e, f>>
        \/ LeavesRule(t, <<e, f>>, Leaves, Eq) = <<Unit(t), Unit(t)>> /\ Eq(e, f)
    BY <1>3 DEF LeavesRule
  <1> QED
    BY <1>2, <1>6, <1>7, <1>8

(***************************************************************************)
(* expr_eq: expressions that it finds equal have the same value, and       *)
(* __expr_eliminate_eq strikes out the same of both.                       *)
(***************************************************************************)
THEOREM EqMeansSameValue ==
    ASSUME Calculated, ValueObeys, YnObeys, EqualityObeys
    PROVE  \A e, f : IsExpr(e) /\ IsExpr(f) /\ Eq(e, f) => Value(e) = Value(f)
  <1> DEFINE N == {n \in Nat : SoundAt(n)}
  <1>1. ASSUME NEW n \in Nat, \A m \in Nat : m < n => SoundAt(m)
        PROVE  SoundAt(n)
    <2> SUFFICES ASSUME NEW i \in Nat, NEW j \in Nat, i + j = n,
                        NEW e, NEW f, Sized(e, i), Sized(f, j)
                 PROVE  /\ Eq(e, f) => Value(e) = Value(f)
                        /\ \A t \in Logical : LeavesStruck(t, e, f, i, j)
      BY DEF SoundAt
    <2>1. ASSUME Eq(e, f) PROVE Value(e) = Value(f)
      BY <1>1, <2>1, EqSound
    <2>2. ASSUME NEW t \in Logical PROVE LeavesStruck(t, e, f, i, j)
      <3>1. CASE e[1] = t
        BY <1>1, <3>1, SplitFirst DEF EqualityObeys
      <3>2. CASE e[1] # t /\ f[1] = t
        BY <1>1, <3>2, SplitSecond DEF EqualityObeys
      <3>3. CASE e[1] # t /\ f[1] # t
        BY <2>1, <3>3, StrikeOut DEF EqualityObeys
      <3> QED
        BY <3>1, <3>2, <3>3
    <2> QED
      BY <2>1, <2>2
  <1>2. \A n \in Nat : n \in N
    <2>1. \A n \in Nat : (\A m \in Nat : m < n => m \in N) => n \in N
      BY <1>1
    <2> HIDE DEF N
    <2> QED
      BY <2>1, EveryNumber
  <1> SUFFICES ASSUME NEW e, NEW f, IsExpr(e), IsExpr(f), Eq(e, f)
               PROVE  Value(e) = Value(f)
    OBVIOUS
  <1>3. PICK i \in Nat : Sized(e, i)
    BY DEF IsExpr
  <1>4. PICK j \in Nat : Sized(f, j)
    BY DEF IsExpr
  <1>5. i + j \in Nat /\ SoundAt(i + j)
    BY <1>2
  <1> QED
    BY <1>3, <1>4, <1>5 DEF SoundAt

-----------------------------------------------------------------------------
\* What an expression is by its type.
LEMMA KindsOf ==
    ASSUME NEW e, IsExpr(e)
    PROVE  /\ e[1] = "sym" => \E s \in Alone : e = Sym(s)
           /\ e[1] \in Relation => \E s \in Syms, t \in Syms : e = Comp(e[1], s, t)
  <1>1. PICK n \in Nat : Sized(e, n)
    BY DEF IsExpr
  <1>2. CASE \E s \in Alone : e = Sym(s)
    BY <1>2 DEF Sym, Relation
  <1>3. CASE IsComp(e)
    BY <1>3 DEF IsComp, Comp, Relation
  <1>4. ASSUME NEW f, e = Not(f) PROVE e[1] = "not"
    BY <1>4 DEF Not
  <1>5. ASSUME NEW t \in Logical, NEW f, NEW g, e = <<t, f, g>> PROVE e[1] \in Logical
    BY <1>5
  <1>6. "sym" \notin Logical /\ "not" \notin Relation /\ Logical \cap Relation = {}
    BY DEF Logical, Relation
  <1> QED
    BY <1>1, <1>2, <1>3, <1>4, <1>5, <1>6, SizedParts DEF Leaf

\* A comparison and its parts.
LEMMA CompOf ==
    ASSUME NEW e, IsExpr(e), e[1] \in Relation
    PROVE  e = Comp(e[1], e[2], e[3]) /\ e[2] \in Syms /\ e[3] \in Syms
  <1>1. \E s \in Syms, t \in Syms : e = Comp(e[1], s, t)
    BY KindsOf
  <1>2. PICK s \in Syms, t \in Syms : e = Comp(e[1], s, t)
    BY <1>1
  <1>3. e[2] = s /\ e[3] = t
    BY <1>2 DEF Comp
  <1> QED
    BY <1>2, <1>3

\* The constant that is neither of two.
LEMMA ThirdConstant ==
    ASSUME NEW a \in {"y", "m", "n"}, NEW b \in {"y", "m", "n"}
    PROVE  Third(a, b) \in {"y", "m", "n"} /\ Third(a, b) \notin {a, b}
  <1>1. \E c \in {"y", "m", "n"} : c \notin {a, b}
    OBVIOUS
  <1> QED
    BY <1>1 DEF Third

(***************************************************************************)
(* expr_join_or: what takes the place of two operands of || has the value  *)
(* of both.                                                                *)
(***************************************************************************)
THEOREM JoinOrKeepsValue ==
    ASSUME Calculated, ValueObeys, YnObeys, EqualityObeys, NEW e, NEW f, IsExpr(e), IsExpr(f),
           JoinOrRule(e, f, ty, Eq) # NoExpr
    PROVE  /\ IsExpr(JoinOrRule(e, f, ty, Eq))
           /\ Value(JoinOrRule(e, f, ty, Eq)) = Value(<<"or", e, f>>)
  <1> DEFINE j == JoinOrRule(e, f, ty, Eq)
             s == JoinSym(e, f)
  <1>1. /\ Value(e) \in Tristate /\ Value(f) \in Tristate
        /\ Value(<<"or", e, f>>) = Upper(Value(e), Value(f))
    <2>1. "or" \in Logical
      BY DEF Logical
    <2> QED
      BY <2>1, ValueInRange, LogicalValue DEF Both
  <1>2. /\ \/ Eq(e, f) /\ j = e
           \/ /\ ty[s] = "tristate" /\ e[1] = "eq" /\ f[1] = "eq" /\ Constants(e, f)
              /\ s # "" /\ j = Comp("neq", s, Third(e[3], f[3]))
           \/ ty[s] = "bool" /\ {e, f} = {Sym(s), Not(Sym(s))} /\ j = Sym("y")
    <2> HIDE DEF s
    <2>1. JoinOrRule(e, f, ty, Eq) =
            IF Eq(e, f) THEN e
            ELSE IF s = "" \/ ty[s] \notin {"bool", "tristate"} THEN NoExpr
            ELSE IF ty[s] = "tristate" /\ e[1] = "eq" /\ f[1] = "eq" /\ Constants(e, f)
            THEN Comp("neq", s, Third(e[3], f[3]))
            ELSE IF ty[s] = "bool" /\ {e, f} = {Sym(s), Not(Sym(s))} THEN Sym("y")
            ELSE NoExpr
      BY DEF JoinOrRule, s
    <2> QED
      BY <2>1
  <1> HIDE DEF j
  <1>3. CASE Eq(e, f) /\ j = e
    <2>1. Value(e) = Value(f)
      BY <1>3, EqMeansSameValue
    <2>2. Upper(Value(e), Value(f)) = Value(e)
      BY <2>1 DEF Upper
    <2> QED
      BY <1>1, <1>3, <2>2 DEF j
  <1>4. CASE /\ ty[s] = "tristate" /\ e[1] = "eq" /\ f[1] = "eq" /\ Constants(e, f)
             /\ s # "" /\ j = Comp("neq", s, Third(e[3], f[3]))
    <2>1. e[2] = s /\ f[2] = s
      BY <1>4 DEF JoinSym
    <2>2. /\ e = Comp("eq", s, e[3]) /\ f = Comp("eq", s, f[3]) /\ s \in Syms
      <3>1. e[1] \in Relation /\ f[1] \in Relation
        BY <1>4 DEF Relation
      <3> QED
        BY <1>4, <2>1, <3>1, CompOf
    <2>3. e[3] \in {"y", "m", "n"} /\ f[3] \in {"y", "m", "n"} /\ e[3] # f[3]
      BY <1>4 DEF Constants
    <2> DEFINE c == Third(e[3], f[3])
    <2>4. c \in {"y", "m", "n"} /\ c # e[3] /\ c # f[3]
      BY <2>3, ThirdConstant
    <2> HIDE DEF c, s
    <2>5. /\ Value(e) = IF cur[s].tri = Means(e[3]) THEN 2 ELSE 0
          /\ Value(f) = IF cur[s].tri = Means(f[3]) THEN 2 ELSE 0
          /\ Value(Comp("neq", s, c)) = IF cur[s].tri = Means(c) THEN 0 ELSE 2
      BY <1>4, <2>2, <2>3, <2>4, TestValue
    <2>6. cur[s].tri \in {0, 1, 2}
      BY <2>2 DEF Calculated, Tristate
    <2>7. Value(Comp("neq", s, c)) = Upper(Value(e), Value(f))
      BY <2>3, <2>4, <2>5, <2>6 DEF Means, Upper
    <2>8. c \in Syms /\ "neq" \in Relation
      BY <2>4 DEF Calculated, Relation
    <2>9. j = Comp("neq", s, c)
      BY <1>4 DEF c
    <2> QED
      BY <1>1, <2>2, <2>7, <2>8, <2>9, Built1 DEF j
  <1>5. CASE ty[s] = "bool" /\ {e, f} = {Sym(s), Not(Sym(s))} /\ j = Sym("y")
    <2> HIDE DEF s
    <2>1. Sym(s) # Not(Sym(s)) /\ Sym(s)[1] = "sym"
      BY DEF Sym, Not
    <2>2. IsExpr(Sym(s)) /\ {Value(e), Value(f)} = {Value(Sym(s)), Value(Not(Sym(s)))}
      BY <1>5, <2>1
    <2>3. s \in Alone
      BY <2>1, <2>2, KindsOf DEF Sym
    <2>4. s \in Syms /\ "y" \in Alone /\ cur["y"].tri = 2
      BY <2>3 DEF Calculated
    <2>5. cur[s].tri \in {0, 2}
      BY <1>5, <2>4 DEF Calculated, Tristate
    <2>6. Value(Sym(s)) = cur[s].tri /\ Value(Not(Sym(s))) = 2 - cur[s].tri
      BY <2>2, <2>3, SymValue, NotValue
    <2>7. Upper(Value(e), Value(f)) = 2
      BY <2>2, <2>5, <2>6 DEF Upper
    <2> QED
      BY <1>1, <1>5, <2>4, <2>7, Built1, SymValue DEF j
  <1> QED
    BY <1>2, <1>3, <1>4, <1>5

\* No quoted word reads as the number of a tristate.
NoDigits ==
    /\ ConstSym \subseteq Syms
    /\ \A c \in ConstSym \cap DOMAIN Number[0] : Number[0][c] \notin Tristate

\* A tristate is no more than one constant.
LEMMA ConstantsDiffer ==
    ASSUME Calculated, NoDigits, NEW s \in Syms, ty[s] = "tristate",
           NEW c \in ConstSym, CompareValues(cur[s].str, ty[s], cur[c].str, ty[c]) = 0
    PROVE  cur[s].str = c
  <1>1. ty[c] = "unknown" /\ cur[c].str = c /\ c \in Syms
    BY DEF Calculated, NoDigits
  <1> DEFINE l == ExprParseString(cur[s].str, "tristate")
             r == ExprParseString(c, "unknown")
  <1>2. l.kind = "signed" /\ l.val \in Tristate
    <2>1. cur[s].tri \in {0, 1, 2} /\ cur[s].str = TriName[cur[s].tri + 1]
      BY DEF Calculated, Tristate
    <2>2. \E i \in Tristate : TriName[i + 1] = cur[s].str
      BY <2>1 DEF Tristate
    <2>3. (CHOOSE i \in Tristate : TriName[i + 1] = cur[s].str) \in Tristate
      BY <2>2
    <2>4. cur[s].str \in {"n", "m", "y"}
      BY <2>1 DEF TriName
    <2> QED
      BY <2>3, <2>4 DEF ExprParseString
  <1>3. \/ r.kind = "string"
        \/ r.kind = "signed" /\ c \in DOMAIN Number[0] /\ r.val = Number[0][c]
    BY DEF ExprParseString
  <1>4. r.kind # "string" => r.val \notin Tristate
    BY <1>3 DEF NoDigits
  <1>5. CompareValues(cur[s].str, "tristate", c, "unknown") =
            IF "string" \in {l.kind, r.kind} THEN StrCmp(cur[s].str, c)
            ELSE IF "unsigned" \in {l.kind, r.kind} THEN UnsignedOrder(l.val, r.val)
            ELSE Order(l.val, r.val)
    BY DEF CompareValues
  <1> HIDE DEF l, r
  <1>6. r.kind = "string" /\ StrCmp(cur[s].str, c) = 0
    <2>1. r.kind = "signed" => Order(l.val, r.val) = 0
      BY <1>1, <1>2, <1>5
    <2>2. r.kind = "signed" => l.val = r.val
      BY <2>1 DEF Order
    <2>3. r.kind = "string"
      BY <1>2, <1>3, <1>4, <2>2
    <2> QED
      BY <1>1, <1>5, <2>3
  <1> DEFINE at(x) == CHOOSE i \in DOMAIN StrOrder : StrOrder[i] = x
  <1>7. \A x : (\E i \in DOMAIN StrOrder : StrOrder[i] = x)
               => at(x) \in DOMAIN StrOrder /\ StrOrder[at(x)] = x
    OBVIOUS
  <1>8. Order(at(cur[s].str), at(c)) = 0
    BY <1>6 DEF StrCmp
  <1> HIDE DEF at
  <1>9. at(cur[s].str) = at(c)
    BY <1>8 DEF Order
  <1>10. /\ \E i \in DOMAIN StrOrder : StrOrder[i] = cur[s].str
         /\ \E i \in DOMAIN StrOrder : StrOrder[i] = c
    BY <1>1 DEF Calculated
  <1> QED
    BY <1>7, <1>9, <1>10

\* FOO && FOO=y and the like: the operands, in either order.
LEMMA SymAnd ==
    ASSUME Calculated, ValueObeys, NEW e, NEW f, IsExpr(e), IsExpr(f), NEW s,
           ty[s] \in {"bool", "tristate"}, NEW t \in {"eq", "neq"}, NEW v \in {"y", "m", "n"},
           {e, f} = {Sym(s), Comp(t, s, v)}
    PROVE  /\ s \in Alone /\ s \in Syms /\ cur[s].tri \in {0, 1, 2}
           /\ Lower(Value(e), Value(f)) =
                  IF (cur[s].tri = Means(v)) <=> (t = "eq") THEN cur[s].tri ELSE 0
  <1>1. Sym(s)[1] = "sym" /\ IsExpr(Sym(s)) /\ Sym(s) # Comp(t, s, v)
    BY DEF Sym, Comp
  <1>2. s \in Alone
    BY <1>1, KindsOf DEF Sym
  <1>3. s \in Syms /\ cur[s].tri \in {0, 1, 2}
    BY <1>2 DEF Calculated, Tristate
  <1>4. Value(Sym(s)) = cur[s].tri
    BY <1>2, SymValue
  <1>5. Value(Comp(t, s, v)) = IF (cur[s].tri = Means(v)) <=> (t = "eq") THEN 2 ELSE 0
    BY <1>3, TestValue
  <1>6. \/ Value(e) = Value(Sym(s)) /\ Value(f) = Value(Comp(t, s, v))
        \/ Value(f) = Value(Sym(s)) /\ Value(e) = Value(Comp(t, s, v))
    BY <1>1
  <1> QED
    BY <1>2, <1>3, <1>4, <1>5, <1>6 DEF Lower

\* FOO=c && FOO!=d of a tristate.
LEMMA EqAndNeq ==
    ASSUME Calculated, NoDigits, ValueObeys, NEW s \in Syms, ty[s] = "tristate",
           NEW c \in ConstSym, NEW d \in ConstSym
    PROVE  Lower(Value(Comp("eq", s, c)), Value(Comp("neq", s, d))) =
               IF c = d THEN 0 ELSE Value(Comp("eq", s, c))
  <1> DEFINE x == CompareValues(cur[s].str, ty[s], cur[c].str, ty[c])
             y == CompareValues(cur[s].str, ty[s], cur[d].str, ty[d])
  <1>1. c \in Syms /\ d \in Syms
    BY DEF NoDigits
  <1>2. /\ "eq" \in Relation /\ Holds["eq"] = {0}
        /\ "neq" \in Relation /\ Holds["neq"] = {-1, 1}
    BY DEF Relation, Holds
  <1>3. x \in {-1, 0, 1} /\ y \in {-1, 0, 1}
    BY CompareRange
  <1>4. /\ Value(Comp("eq", s, c)) = IF x \in {0} THEN 2 ELSE 0
        /\ Value(Comp("neq", s, d)) = IF y \in {-1, 1} THEN 2 ELSE 0
    BY <1>1, <1>2, CompValue
  <1>5. x = 0 /\ y = 0 => c = d
    BY ConstantsDiffer
  <1>6. c = d => x = y
    OBVIOUS
  <1> HIDE DEF x, y
  <1> QED
    BY <1>3, <1>4, <1>5, <1>6 DEF Lower

(***************************************************************************)
(* expr_join_and: what takes the place of two operands of && has the value *)
(* of both, as long as no quoted word is a number that a tristate can be:  *)
(* FOO="y" && FOO!="2" is made FOO="y", although it never holds.           *)
(***************************************************************************)
THEOREM JoinAndKeepsValue ==
    ASSUME Calculated, NoDigits, ValueObeys, YnObeys, EqualityObeys,
           NEW e, NEW f, IsExpr(e), IsExpr(f), JoinAndRule(e, f, ty, Eq) # NoExpr
    PROVE  /\ IsExpr(JoinAndRule(e, f, ty, Eq))
           /\ Value(JoinAndRule(e, f, ty, Eq)) = Value(<<"and", e, f>>)
  <1> DEFINE j == JoinAndRule(e, f, ty, Eq)
             s == JoinSym(e, f)
             eq == IF e[1] = "eq" THEN e ELSE f
             neq == IF e[1] = "eq" THEN f ELSE e
             test(t, v) == {e, f} = {Sym(s), Comp(t, s, v)}
  <1>1. /\ Value(e) \in Tristate /\ Value(f) \in Tristate
        /\ Value(<<"and", e, f>>) = Lower(Value(e), Value(f))
    <2>1. "and" \in Logical
      BY DEF Logical
    <2> QED
      BY <2>1, ValueInRange, LogicalValue DEF Both
  <1>2. \/ Eq(e, f) /\ j = e
        \/ /\ s # "" /\ ty[s] \in {"bool", "tristate"}
           /\ \/ (test("eq", "y") \/ test("neq", "m")) /\ j = Comp("eq", s, "y")
              \/ test("neq", "n") /\ j = Sym(s)
              \/ /\ ty[s] = "tristate" /\ {e[1], f[1]} = {"eq", "neq"}
                 /\ {eq[3], neq[3]} \subseteq ConstSym
                 /\ j = IF eq[3] = neq[3] THEN Sym("n") ELSE eq
              \/ /\ ty[s] = "tristate" /\ e[1] = "neq" /\ f[1] = "neq" /\ Constants(e, f)
                 /\ j = Comp("eq", s, Third(e[3], f[3]))
    <2> HIDE DEF s, eq, neq
    <2>1. JoinAndRule(e, f, ty, Eq) =
            IF Eq(e, f) THEN e
            ELSE IF s = "" \/ ty[s] \notin {"bool", "tristate"} THEN NoExpr
            ELSE IF test("eq", "y") \/ test("neq", "m") THEN Comp("eq", s, "y")
            ELSE IF test("neq", "n") THEN Sym(s)
            ELSE IF /\ ty[s] = "tristate" /\ {e[1], f[1]} = {"eq", "neq"}
                    /\ {eq[3], neq[3]} \subseteq ConstSym
            THEN IF eq[3] = neq[3] THEN Sym("n") ELSE eq
            ELSE IF ty[s] = "tristate" /\ e[1] = "neq" /\ f[1] = "neq" /\ Constants(e, f)
            THEN Comp("eq", s, Third(e[3], f[3]))
            ELSE NoExpr
      BY DEF JoinAndRule, s, eq, neq
    <2> HIDE DEF test
    <2> QED
      BY <2>1
  <1> HIDE DEF j
  <1>3. CASE Eq(e, f) /\ j = e
    <2>1. Value(e) = Value(f)
      BY <1>3, EqMeansSameValue
    <2>2. Lower(Value(e), Value(f)) = Value(e)
      BY <2>1 DEF Lower
    <2> QED
      BY <1>1, <1>3, <2>2 DEF j
  <1>4. ASSUME ty[s] \in {"bool", "tristate"}, NEW t \in {"eq", "neq"}, NEW v \in {"y", "m", "n"},
               test(t, v), (t = "eq" /\ v = "y") \/ (t = "neq" /\ v = "m"), j = Comp("eq", s, "y")
        PROVE  IsExpr(j) /\ Value(j) = Lower(Value(e), Value(f))
    <2> HIDE DEF s
    <2>1. /\ s \in Syms /\ cur[s].tri \in {0, 1, 2}
          /\ Lower(Value(e), Value(f)) =
                  IF (cur[s].tri = Means(v)) <=> (t = "eq") THEN cur[s].tri ELSE 0
      BY <1>4, SymAnd
    <2>2. Value(j) = IF cur[s].tri = 2 THEN 2 ELSE 0
      BY <1>4, <2>1, TestValue DEF Means
    <2>3. Lower(Value(e), Value(f)) = IF cur[s].tri = 2 THEN 2 ELSE 0
      BY <1>4, <2>1 DEF Means
    <2>4. "y" \in Syms /\ "eq" \in Relation
      BY DEF Calculated, Relation
    <2> QED
      BY <1>4, <2>1, <2>2, <2>3, <2>4, Built1
  <1>5. CASE ty[s] \in {"bool", "tristate"} /\ test("neq", "n") /\ j = Sym(s)
    <2> HIDE DEF s
    <2>1. /\ s \in Alone /\ cur[s].tri \in {0, 1, 2}
          /\ Lower(Value(e), Value(f)) =
                  IF (cur[s].tri = Means("n")) <=> ("neq" = "eq") THEN cur[s].tri ELSE 0
      BY <1>5, SymAnd
    <2>2. Lower(Value(e), Value(f)) = cur[s].tri
      BY <2>1 DEF Means
    <2> QED
      BY <1>1, <1>5, <2>1, <2>2, Built1, SymValue DEF j
  <1>6. CASE /\ ty[s] = "tristate" /\ s # "" /\ {e[1], f[1]} = {"eq", "neq"}
             /\ {eq[3], neq[3]} \subseteq ConstSym
             /\ j = IF eq[3] = neq[3] THEN Sym("n") ELSE eq
    <2>1. e[2] = s /\ f[2] = s
      BY <1>6 DEF JoinSym
    <2>2. eq[1] = "eq" /\ neq[1] = "neq" /\ eq[2] = s /\ neq[2] = s /\ IsExpr(eq) /\ IsExpr(neq)
      BY <1>6, <2>1
    <2>3. Lower(Value(e), Value(f)) = Lower(Value(eq), Value(neq))
      BY <1>1 DEF Lower, Tristate
    <2> HIDE DEF s, eq, neq
    <2>4. eq = Comp("eq", s, eq[3]) /\ neq = Comp("neq", s, neq[3]) /\ s \in Syms
      <3>1. eq[1] \in Relation /\ neq[1] \in Relation
        BY <2>2 DEF Relation
      <3> QED
        BY <2>2, <3>1, CompOf
    <2>5. eq[3] \in ConstSym /\ neq[3] \in ConstSym
      BY <1>6
    <2>6. Lower(Value(eq), Value(neq)) = IF eq[3] = neq[3] THEN 0 ELSE Value(eq)
      <3> DEFINE c == eq[3]
                 d == neq[3]
      <3>1. c \in ConstSym /\ d \in ConstSym
        BY <2>5
      <3>2. eq = Comp("eq", s, c) /\ neq = Comp("neq", s, d)
        BY <2>4
      <3> HIDE DEF c, d
      <3>3. Lower(Value(Comp("eq", s, c)), Value(Comp("neq", s, d))) =
                IF c = d THEN 0 ELSE Value(Comp("eq", s, c))
        BY <1>6, <2>4, <3>1, EqAndNeq
      <3>4. Lower(Value(eq), Value(neq)) = IF c = d THEN 0 ELSE Value(eq)
        BY <3>2, <3>3
      <3> QED
        BY <3>4 DEF c, d
    <2>7. "n" \in Alone /\ Value(Sym("n")) = 0 /\ IsExpr(Sym("n"))
      BY SymValue, Built1 DEF Calculated
    <2> QED
      BY <1>1, <1>6, <2>2, <2>3, <2>6, <2>7 DEF j
  <1>7. CASE /\ ty[s] = "tristate" /\ s # "" /\ e[1] = "neq" /\ f[1] = "neq" /\ Constants(e, f)
             /\ j = Comp("eq", s, Third(e[3], f[3]))
    <2>1. e[2] = s /\ f[2] = s
      BY <1>7 DEF JoinSym
    <2>2. /\ e = Comp("neq", s, e[3]) /\ f = Comp("neq", s, f[3]) /\ s \in Syms
      <3>1. e[1] \in Relation /\ f[1] \in Relation
        BY <1>7 DEF Relation
      <3> QED
        BY <1>7, <2>1, <3>1, CompOf
    <2>3. e[3] \in {"y", "m", "n"} /\ f[3] \in {"y", "m", "n"} /\ e[3] # f[3]
      BY <1>7 DEF Constants
    <2> DEFINE c == Third(e[3], f[3])
    <2>4. c \in {"y", "m", "n"} /\ c # e[3] /\ c # f[3]
      BY <2>3, ThirdConstant
    <2> HIDE DEF c, s
    <2>5. /\ Value(e) = IF cur[s].tri = Means(e[3]) THEN 0 ELSE 2
          /\ Value(f) = IF cur[s].tri = Means(f[3]) THEN 0 ELSE 2
          /\ Value(Comp("eq", s, c)) = IF cur[s].tri = Means(c) THEN 2 ELSE 0
      BY <1>7, <2>2, <2>3, <2>4, TestValue
    <2>6. cur[s].tri \in {0, 1, 2}
      BY <2>2 DEF Calculated, Tristate
    <2>7. Value(Comp("eq", s, c)) = Lower(Value(e), Value(f))
      BY <2>3, <2>4, <2>5, <2>6 DEF Means, Lower
    <2>8. c \in Syms /\ "eq" \in Relation
      BY <2>4 DEF Calculated, Relation
    <2>9. j = Comp("eq", s, c)
      BY <1>7 DEF c
    <2> QED
      BY <1>1, <2>2, <2>7, <2>8, <2>9, Built1 DEF j
  <1>8. CASE ty[s] \in {"bool", "tristate"} /\ (test("eq", "y") \/ test("neq", "m"))
             /\ j = Comp("eq", s, "y")
    <2>1. IsExpr(j) /\ Value(j) = Lower(Value(e), Value(f))
      BY <1>4, <1>8
    <2> QED
      BY <1>1, <2>1 DEF j
  <1> HIDE DEF s, eq, neq, test
  <1> QED
    BY <1>2, <1>3, <1>5, <1>6, <1>7, <1>8

-----------------------------------------------------------------------------
(***************************************************************************)
(* NothingLost is not inductive: a session that has nothing to save ends   *)
(* without saving, so that before the end a configuration that need not be *)
(* saved must be what the file holds.                                      *)
(***************************************************************************)
Saved == phase # "before" /\ ~dirty => file[current] = Shown
IndInv == TypeOK /\ Saved /\ (phase = "saved" => ~dirty)

\* What the session shows is what a file can hold.
LEMMA ShownIsAFile == ASSUME TypeOK PROVE Shown \in Files
  BY DEF TypeOK, Shown, Files

\* The invariant holds at first.
LEMMA InitInd == Init => IndInv
  BY DEF Init, IndInv, TypeOK, Saved

\* Storing the configuration keeps the invariant.
LEMMA StoreInd ==
    ASSUME IndInv, NEW n \in Names, Store(n), phase' \in {"open", "saved"}
    PROVE  IndInv'
  <1>1. TypeOK'
    BY ShownIsAFile DEF IndInv, TypeOK, Store
  <1>2. Shown' = Shown /\ file'[n] = Shown
    BY DEF Store, Shown, IndInv, TypeOK
  <1> QED
    BY <1>1, <1>2 DEF IndInv, Saved, Store

\* Every step keeps the invariant.
LEMMA StepInd == IndInv /\ [Next]_vars => IndInv'
  <1> SUFFICES ASSUME IndInv, [Next]_vars PROVE IndInv'
    OBVIOUS
  <1>1. CASE Start
    <2>1. TypeOK'
      BY <1>1 DEF Start, IndInv, TypeOK
    <2>2. Saved'
      BY <1>1 DEF Start, Saved
    <2> QED
      BY <1>1, <2>1, <2>2 DEF Start, IndInv
  <1>2. CASE Change
    <2>1. TypeOK'
      BY <1>2 DEF Change, IndInv, TypeOK
    <2>2. ASSUME ~dirty' PROVE Shown' = Shown /\ ~dirty
      <3>1. dirty' = dirty
        BY <1>2, <2>2, Zenon DEF Change
      <3>2. shown' = shown
        BY <1>2, <2>2, Zenon DEF Change
      <3> QED
        BY <2>2, <3>1, <3>2 DEF Shown
    <2> QED
      BY <1>2, <2>1, <2>2 DEF Change, IndInv, Saved
  <1>3. CASE Quit
    <2>1. CASE dirty /\ phase' = "saved" /\ Store(current)
      BY <2>1, StoreInd DEF IndInv, TypeOK
    <2>2. CASE UNCHANGED <<shown, file, current, dirty>> /\ phase' \in {"saved", "given up", "failed"}
               /\ (phase' = "saved" => ~dirty)
      BY <1>3, <2>2 DEF Quit, IndInv, TypeOK, Saved, Shown
    <2> QED
      BY <1>3, <2>1, <2>2 DEF Quit
  <1>4. ASSUME NEW n \in Names, Load(n) PROVE IndInv'
    BY <1>4 DEF Load, IndInv, TypeOK, Saved
  <1>5. ASSUME NEW n \in Names, Save(n) PROVE IndInv'
    BY <1>5, StoreInd DEF Save
  <1>6. CASE UNCHANGED vars
    BY <1>6 DEF vars, IndInv, TypeOK, Saved, Shown
  <1> QED
    BY <1>1, <1>2, <1>3, <1>4, <1>5, <1>6 DEF Next

(***************************************************************************)
(* TypeOK holds throughout a session.                                      *)
(***************************************************************************)
THEOREM TypeCorrect == Spec => []TypeOK
  BY InitInd, StepInd, PTL DEF Spec, IndInv

(***************************************************************************)
(* Nothing is lost without a word (handle_exit of mconf.c).                *)
(***************************************************************************)
THEOREM NothingIsLost == Spec => []NothingLost
  <1>1. IndInv => NothingLost
    BY DEF IndInv, NothingLost, Saved
  <1> QED
    BY <1>1, InitInd, StepInd, PTL DEF Spec
=============================================================================
