-------------------------- MODULE LxWidgets_proofs --------------------------
(***************************************************************************)
(* What the operators of LxLists do to a window, for lists and windows of  *)
(* any size: each key, and each drawing, gives a window that shows items   *)
(* of the list only, with the highlight where it is expected; and the rows *)
(* that it prints leave the screen as the window is.                       *)
(*                                                                         *)
(* What those of LxTexts do to a text box, for texts of any number of      *)
(* lines: the loops of get_line, back_lines and print_page, round by       *)
(* round, and the place in the text that is known before and after a key.  *)
(***************************************************************************)
EXTENDS LxLists, LxTexts, FiniteSetTheorems, WellFoundedInduction, TLAPS

\* A set of numbers has a least element, as the intervals from 0 to its
\* elements have a smallest one.
LEMMA LeastExists ==
    ASSUME NEW S \in SUBSET Nat, S # {}
    PROVE  \E i \in S : \A j \in S : i <= j
  <1> DEFINE T == {0 .. i : i \in S}
             R == StrictSubsetOrdering(Nat)
  <1>1. T \subseteq FiniteSubsetsOf(Nat)
    <2>1. \A i \in Nat : 0 .. i \in FiniteSubsetsOf(Nat)
      <3> TAKE i \in Nat
      <3>1. IsFiniteSet(0 .. i)
        BY FS_Interval
      <3>2. 0 .. i \in SUBSET Nat
        OBVIOUS
      <3> QED
        BY <3>1, <3>2, Zenon DEF FiniteSubsetsOf
    <2> QED
      BY <2>1, Zenon
  <1>2. T # {}
    OBVIOUS
  <1>3. ASSUME NEW x \in T PROVE \E i \in S : x = 0 .. i
    OBVIOUS
  <1>4. \A i \in S : 0 .. i \in T
    OBVIOUS
  <1> HIDE DEF T
  <1>5. \E x \in T : \A y \in T : ~(<<y, x>> \in R)
    <2>1. IsWellFoundedOn(R, FiniteSubsetsOf(Nat))
      BY FS_StrictSubsetOrderingWellFounded
    <2> HIDE DEF R
    <2> QED
      BY <1>1, <1>2, <2>1, WFMin, Zenon
  <1>6. PICK x \in T : \A y \in T : ~(<<y, x>> \in R)
    BY <1>5
  <1>7. PICK i \in S : x = 0 .. i
    BY <1>3
  <1>8. ASSUME NEW j \in S, j < i PROVE FALSE
    <2>1. 0 .. j \subseteq 0 .. i
      BY <1>8
    <2>2. 0 .. j # 0 .. i
      <3>1. i \in 0 .. i /\ i \notin 0 .. j
        BY <1>8
      <3> QED
        BY <3>1
    <2>3. 0 .. j \in SUBSET Nat /\ 0 .. i \in SUBSET Nat
      OBVIOUS
    <2>4. <<0 .. j, 0 .. i>> \in R
      BY <2>1, <2>2, <2>3, Zenon DEF StrictSubsetOrdering
    <2> QED
      BY <1>4, <1>6, <1>7, <2>4
  <1> QED
    BY <1>8

LEMMA LowestIn ==
    ASSUME NEW S \in SUBSET Nat, S # {}
    PROVE  Lowest(S) \in S
  BY LeastExists DEF Lowest

LEMMA HighestIn ==
    ASSUME NEW n \in Nat, NEW S \in SUBSET (0 .. n), S # {}
    PROVE  Highest(S) \in S
  <1> DEFINE R == {n - i : i \in S}
  <1>1. R \in SUBSET Nat /\ R # {}
    <2>1. \A i \in S : i \in Int /\ n - i \in Nat
      OBVIOUS
    <2> QED
      BY <2>1
  <1>2. \E r \in R : \A s \in R : r <= s
    BY <1>1, LeastExists
  <1>3. PICK i \in S : \A j \in S : n - i <= n - j
    BY <1>2
  <1>4. \A j \in S : j <= i
    BY <1>3
  <1> QED
    BY <1>4 DEF Highest

-----------------------------------------------------------------------------

Fields == {"items", "height", "max", "scroll", "choice", "first", "rows", "lit", "up", "down"}
Shape(l) == DOMAIN l = Fields

\* What drawing leaves alone.
SameWindow(l, m) ==
    /\ Shape(m)
    /\ m.items = l.items /\ m.height = l.height /\ m.max = l.max
    /\ m.scroll = l.scroll /\ m.choice = l.choice

LEMMA PrintSame ==
    ASSUME NEW l, Shape(l), NEW i, NEW row, NEW selected
    PROVE  SameWindow(l, print_item(l, i, row, selected))
  BY DEF Shape, Fields, SameWindow, print_item

LEMMA ArrowsSame ==
    ASSUME NEW l, Shape(l)
    PROVE  SameWindow(l, menu_arrows(l)) /\ SameWindow(l, check_arrows(l))
  BY DEF Shape, Fields, SameWindow, menu_arrows, check_arrows

LEMMA PrintAllSame ==
    ASSUME NEW l, Shape(l), NEW first
    PROVE  SameWindow(l, PrintAll(l, first))
  BY DEF Shape, Fields, SameWindow, PrintAll

LEMMA ScrollSame ==
    ASSUME NEW l, Shape(l), NEW n
    PROVE  LET u == ScrollUp(l, n) d == ScrollDown(l, n) IN
           /\ Shape(u) /\ u.items = l.items /\ u.height = l.height /\ u.max = l.max
           /\ u.choice = l.choice /\ u.scroll = l.scroll + n
           /\ Shape(d) /\ d.items = l.items /\ d.height = l.height /\ d.max = l.max
           /\ d.choice = l.choice /\ d.scroll = l.scroll + (-n)
  BY DEF Shape, Fields, ScrollUp, ScrollDown, do_scroll

-----------------------------------------------------------------------------
\* A window on a list that has an item to highlight, when it has items.
ListOK(l) ==
    /\ Shape(l) /\ Count(l) \in Nat /\ (l.items = <<>> <=> Count(l) = 0)
    /\ l.height \in Nat /\ l.max = MIN(l.height, Count(l))
    /\ l.scroll \in Nat /\ l.choice \in Nat
    /\ l.scroll + l.max <= Count(l)
    /\ IF l.items # <<>> THEN l.choice \in 0 .. l.max - 1 ELSE l.choice = 0

\* The numbers of such a list.
Numbers(l) ==
    /\ Count(l) \in Nat /\ l.max \in Nat /\ l.max <= Count(l)
    /\ l.scroll \in Nat /\ l.choice \in Nat /\ l.choice < l.max
    /\ l.scroll + l.max <= Count(l)

LEMMA Bounds ==
    ASSUME NEW l, ListOK(l), l.items # <<>>
    PROVE  Shape(l) /\ Numbers(l)
  BY DEF ListOK, Numbers, MIN

LEMMA SameIsOK ==
    ASSUME NEW l, NEW m, ListOK(l), SameWindow(l, m)
    PROVE  ListOK(m) /\ Cursor(m) = Cursor(l)
  BY DEF ListOK, SameWindow, Count, Cursor

\* The row of the highlight is changed, and drawn.
LEMMA Highlights ==
    ASSUME NEW l, Shape(l), NEW row
    PROVE  LET m == Lit([l EXCEPT !.choice = row]) IN
           /\ Shape(m) /\ m.items = l.items /\ m.height = l.height /\ m.max = l.max
           /\ m.scroll = l.scroll /\ m.choice = row
  <1> DEFINE x == [l EXCEPT !.choice = row]
  <1>1. Shape(x) /\ x.items = l.items /\ x.height = l.height /\ x.max = l.max
        /\ x.scroll = l.scroll /\ x.choice = row
    BY DEF Shape, Fields
  <1> HIDE DEF x
  <1>2. SameWindow(x, Lit(x))
    BY <1>1, PrintSame DEF Lit
  <1> QED
    BY <1>1, <1>2 DEF SameWindow, x

\* The same list, seen through a window of the same size.
SameList(l, m) ==
    Shape(m) /\ m.items = l.items /\ m.height = l.height /\ m.max = l.max

LEMMA MovedIsOK ==
    ASSUME NEW l, NEW m, ListOK(l), SameList(l, m),
           m.scroll \in Nat, m.scroll + m.max <= Count(l), m.choice \in 0 .. m.max - 1
    PROVE  ListOK(m)
  <1>1. l.items # <<>>
    BY DEF ListOK, SameList, MIN
  <1> QED
    BY <1>1 DEF ListOK, SameList, Count

\* What is drawn at the end of a key that moves.
LEMMA DrawnSame ==
    ASSUME NEW m, Shape(m)
    PROVE  SameWindow(m, menu_arrows(Lit(m))) /\ SameWindow(m, check_arrows(Lit(m)))
  <1>1. SameWindow(m, Lit(m))
    BY PrintSame DEF Lit
  <1>2. Shape(Lit(m))
    BY <1>1 DEF SameWindow
  <1> QED
    BY <1>1, <1>2, ArrowsSame DEF SameWindow

LEMMA UnlitSame ==
    ASSUME NEW l, Shape(l)
    PROVE  SameWindow(l, Unlit(l))
  BY PrintSame DEF Unlit

\* A key that moves the highlight to a row, or that scrolls by n.
LEMMA ToRow ==
    ASSUME NEW l, Shape(l), NEW row
    PROVE  LET m == [Unlit(l) EXCEPT !.choice = row] IN
           SameList(l, m) /\ m.scroll = l.scroll /\ m.choice = row
  BY UnlitSame DEF SameWindow, SameList, Shape, Fields

LEMMA Scrolled ==
    ASSUME NEW l, Shape(l), NEW n
    PROVE  LET u == ScrollUp(Unlit(l), n) d == ScrollDown(Unlit(l), n) IN
           /\ SameList(l, u) /\ u.choice = l.choice /\ u.scroll = l.scroll + n
           /\ SameList(l, d) /\ d.choice = l.choice /\ d.scroll = l.scroll + (-n)
  <1> DEFINE x == Unlit(l)
  <1>1. SameWindow(l, x) /\ Shape(x)
    BY UnlitSame DEF SameWindow
  <1> HIDE DEF x
  <1>2. LET u == ScrollUp(x, n) d == ScrollDown(x, n) IN
           /\ SameList(x, u) /\ u.choice = x.choice /\ u.scroll = x.scroll + n
           /\ SameList(x, d) /\ d.choice = x.choice /\ d.scroll = x.scroll + (-n)
    BY <1>1, ScrollSame DEF SameList
  <1>3. LET u == ScrollUp(x, n) d == ScrollDown(x, n) IN
           /\ SameList(l, u) /\ u.choice = l.choice /\ u.scroll = l.scroll + n
           /\ SameList(l, d) /\ d.choice = l.choice /\ d.scroll = l.scroll + (-n)
    BY <1>1, <1>2 DEF SameWindow, SameList
  <1> QED
    BY <1>3 DEF x

\* A window moved to m, with the highlight on a row of it, and drawn.
Moved(l, m, cursor) ==
    ListOK(m) /\ m.items = l.items /\ m.height = l.height /\ Cursor(m) = cursor

LEMMA DrawnIsMoved ==
    ASSUME NEW l, NEW m, ListOK(l), SameList(l, m),
           m.scroll \in Nat, m.scroll + m.max <= Count(l), m.choice \in 0 .. m.max - 1
    PROVE  /\ Moved(l, Lit(m), m.scroll + m.choice)
           /\ Moved(l, menu_arrows(Lit(m)), m.scroll + m.choice)
           /\ Moved(l, check_arrows(Lit(m)), m.scroll + m.choice)
  <1>1. ListOK(m) /\ m.items = l.items /\ m.height = l.height
        /\ Cursor(m) = m.scroll + m.choice /\ Shape(m)
    BY MovedIsOK DEF SameList, Cursor
  <1>2. SameWindow(m, Lit(m)) /\ SameWindow(m, menu_arrows(Lit(m))) /\ SameWindow(m, check_arrows(Lit(m)))
    BY <1>1, DrawnSame, PrintSame DEF Lit
  <1>3. ASSUME NEW k, SameWindow(m, k) PROVE Moved(l, k, m.scroll + m.choice)
    BY <1>1, <1>3, SameIsOK DEF Moved, SameWindow
  <1> QED
    BY <1>2, <1>3

-----------------------------------------------------------------------------
\* The keys of a menu.

LEMMA MenuUpOK ==
    ASSUME NEW l, ListOK(l), l.items # <<>>
    PROVE  Moved(l, MenuUp(l), MAX(Cursor(l) - 1, 0))
  <1> DEFINE scrolls == l.choice < 2 /\ l.scroll > 0
             row == MAX(Unlit(l).choice - 1, 0)
             m == IF scrolls THEN ScrollDown(Unlit(l), 1) ELSE [Unlit(l) EXCEPT !.choice = row]
  <1>0. Shape(l) /\ Numbers(l)
    BY Bounds
  <1>1. MenuUp(l) = menu_arrows(Lit(m))
    BY DEF MenuUp
  <1>2. Shape(l) /\ Unlit(l).choice = l.choice
    BY UnlitSame DEF SameWindow, ListOK
  <1>3. /\ SameList(l, m) /\ m.max = l.max
        /\ m.choice = IF scrolls THEN l.choice ELSE MAX(l.choice - 1, 0)
        /\ m.scroll = IF scrolls THEN l.scroll + (-1) ELSE l.scroll
    <2>1. CASE scrolls
      BY <2>1, <1>2, Scrolled DEF SameList
    <2>2. CASE ~scrolls
      <3>1. row = MAX(l.choice - 1, 0)
        BY <1>2
      <3> HIDE DEF row
      <3>2. m = [Unlit(l) EXCEPT !.choice = row]
        BY <2>2
      <3> QED
        BY <2>2, <3>1, <3>2, <1>2, ToRow DEF SameList
    <2> QED
      BY <2>1, <2>2
  <1> HIDE DEF m, row
  <1>4. m.scroll \in Nat /\ m.scroll + m.max <= Count(l) /\ m.choice \in 0 .. m.max - 1
        /\ m.scroll + m.choice = MAX(Cursor(l) - 1, 0)
    <2>1. m.scroll \in Nat
      BY <1>3, <1>0 DEF Numbers, Cursor, MAX, MIN
    <2>2. m.scroll + m.max <= Count(l)
      BY <1>3, <1>0 DEF Numbers, Cursor, MAX, MIN
    <2>3. m.choice \in 0 .. m.max - 1
      BY <1>3, <1>0 DEF Numbers, Cursor, MAX, MIN
    <2>4. m.scroll + m.choice = MAX(Cursor(l) - 1, 0)
      BY <1>3, <1>0 DEF Numbers, Cursor, MAX, MIN
    <2> QED
      BY <2>1, <2>2, <2>3, <2>4
  <1> QED
    BY <1>1, <1>3, <1>4, DrawnIsMoved

LEMMA MenuDownOK ==
    ASSUME NEW l, ListOK(l), l.items # <<>>
    PROVE  Moved(l, MenuDown(l), MIN(Cursor(l) + 1, Count(l) - 1))
  <1> DEFINE scrolls == l.choice > l.max - 3 /\ l.scroll + l.max < Count(l)
             row == MIN(Unlit(l).choice + 1, l.max - 1)
             m == IF scrolls THEN ScrollUp(Unlit(l), 1) ELSE [Unlit(l) EXCEPT !.choice = row]
  <1>0. Shape(l) /\ Numbers(l)
    BY Bounds
  <1>1. MenuDown(l) = menu_arrows(Lit(m))
    BY DEF MenuDown
  <1>2. Shape(l) /\ Unlit(l).choice = l.choice
    BY UnlitSame DEF SameWindow, ListOK
  <1>3. /\ SameList(l, m) /\ m.max = l.max
        /\ m.choice = IF scrolls THEN l.choice ELSE MIN(l.choice + 1, l.max - 1)
        /\ m.scroll = IF scrolls THEN l.scroll + 1 ELSE l.scroll
    <2>1. CASE scrolls
      BY <2>1, <1>2, Scrolled DEF SameList
    <2>2. CASE ~scrolls
      <3>1. row = MIN(l.choice + 1, l.max - 1)
        BY <1>2
      <3> HIDE DEF row
      <3>2. m = [Unlit(l) EXCEPT !.choice = row]
        BY <2>2
      <3> QED
        BY <2>2, <3>1, <3>2, <1>2, ToRow DEF SameList
    <2> QED
      BY <2>1, <2>2
  <1> HIDE DEF m, row
  <1>4. m.scroll \in Nat /\ m.scroll + m.max <= Count(l) /\ m.choice \in 0 .. m.max - 1
        /\ m.scroll + m.choice = MIN(Cursor(l) + 1, Count(l) - 1)
    <2>1. m.scroll \in Nat
      BY <1>3, <1>0 DEF Numbers, Cursor, MIN
    <2>2. m.scroll + m.max <= Count(l)
      BY <1>3, <1>0 DEF Numbers, Cursor, MIN
    <2>3. m.choice \in 0 .. m.max - 1
      BY <1>3, <1>0 DEF Numbers, Cursor, MIN
    <2>4. m.scroll + m.choice = MIN(Cursor(l) + 1, Count(l) - 1)
      BY SMTT(40), <1>3, <1>0 DEF Numbers, Cursor, MIN
    <2> QED
      BY <2>1, <2>2, <2>3, <2>4
  <1> QED
    BY <1>1, <1>3, <1>4, DrawnIsMoved

\* A page: the window scrolls, and the highlight goes to a row.
LEMMA WithRow ==
    ASSUME NEW l, NEW a, SameList(l, a), NEW row
    PROVE  LET m == [a EXCEPT !.choice = row] IN
           SameList(l, m) /\ m.max = l.max /\ m.choice = row /\ m.scroll = a.scroll
  BY DEF SameList, Shape, Fields

LEMMA MenuPageUpOK ==
    ASSUME NEW l, ListOK(l), l.items # <<>>
    PROVE  Moved(l, MenuPageUp(l), MAX(Cursor(l) - l.max, 0))
  <1> DEFINE n == MIN(l.scroll, l.max)
             a == ScrollDown(Unlit(l), n)
             row == MAX(a.choice - (l.max - n), 0)
             m == [a EXCEPT !.choice = row]
  <1>0. Shape(l) /\ Numbers(l)
    BY Bounds
  <1>1. MenuPageUp(l) = menu_arrows(Lit(m))
    BY DEF MenuPageUp
  <1>2. a.choice = l.choice
    BY Scrolled DEF ListOK
  <1>3. row = MAX(l.choice - (l.max - n), 0)
    BY <1>2
  <1> HIDE DEF row, n
  <1>4. SameList(l, a) /\ a.scroll = l.scroll + (-n)
    BY <1>0, Scrolled
  <1> HIDE DEF a
  <1>5. SameList(l, m) /\ m.max = l.max /\ m.choice = row /\ m.scroll = a.scroll
    BY <1>4, WithRow
  <1> HIDE DEF m
  <1> USE DEF n
  <1>6. m.scroll \in Nat /\ m.scroll + m.max <= Count(l) /\ m.choice \in 0 .. m.max - 1
        /\ m.scroll + m.choice = MAX(Cursor(l) - l.max, 0)
    <2>1. m.scroll \in Nat
      BY <1>3, <1>4, <1>5, <1>0 DEF Numbers, Cursor, MAX, MIN
    <2>2. m.scroll + m.max <= Count(l)
      BY <1>3, <1>4, <1>5, <1>0 DEF Numbers, Cursor, MAX, MIN
    <2>3. m.choice \in 0 .. m.max - 1
      BY <1>3, <1>4, <1>5, <1>0 DEF Numbers, Cursor, MAX, MIN
    <2>4. m.scroll + m.choice = MAX(Cursor(l) - l.max, 0)
      BY SMTT(40), <1>3, <1>4, <1>5, <1>0 DEF Numbers, Cursor, MAX, MIN
    <2> QED
      BY <2>1, <2>2, <2>3, <2>4
  <1> QED
    BY <1>1, <1>5, <1>6, DrawnIsMoved

LEMMA MenuPageDownOK ==
    ASSUME NEW l, ListOK(l), l.items # <<>>
    PROVE  Moved(l, MenuPageDown(l), MIN(Cursor(l) + l.max, Count(l) - 1))
  <1> DEFINE n == MIN(Count(l) - (l.scroll + l.max), l.max)
             a == ScrollUp(Unlit(l), n)
             row == MIN(a.choice + l.max - n, l.max - 1)
             m == [a EXCEPT !.choice = row]
  <1>0. Shape(l) /\ Numbers(l)
    BY Bounds
  <1>1. MenuPageDown(l) = menu_arrows(Lit(m))
    BY DEF MenuPageDown
  <1>2. a.choice = l.choice
    BY Scrolled DEF ListOK
  <1>3. row = MIN(l.choice + l.max - n, l.max - 1)
    BY <1>2
  <1> HIDE DEF row, n
  <1>4. SameList(l, a) /\ a.scroll = l.scroll + n
    BY <1>0, Scrolled
  <1> HIDE DEF a
  <1>5. SameList(l, m) /\ m.max = l.max /\ m.choice = row /\ m.scroll = a.scroll
    BY <1>4, WithRow
  <1> HIDE DEF m
  <1> USE DEF n
  <1>6. m.scroll \in Nat /\ m.scroll + m.max <= Count(l) /\ m.choice \in 0 .. m.max - 1
        /\ m.scroll + m.choice = MIN(Cursor(l) + l.max, Count(l) - 1)
    <2>1. m.scroll \in Nat
      BY <1>3, <1>4, <1>5, <1>0 DEF Numbers, Cursor, MIN
    <2>2. m.scroll + m.max <= Count(l)
      BY <1>3, <1>4, <1>5, <1>0 DEF Numbers, Cursor, MIN
    <2>3. m.choice \in 0 .. m.max - 1
      BY <1>3, <1>4, <1>5, <1>0 DEF Numbers, Cursor, MIN
    <2>4. m.scroll + m.choice = MIN(Cursor(l) + l.max, Count(l) - 1)
      BY SMTT(40), <1>3, <1>4, <1>5, <1>0 DEF Numbers, Cursor, MIN
    <2> QED
      BY <2>1, <2>2, <2>3, <2>4
  <1> QED
    BY <1>1, <1>5, <1>6, DrawnIsMoved

-----------------------------------------------------------------------------
\* The keys of a radiolist.

LEMMA CheckMoveOK ==
    ASSUME NEW l, ListOK(l), NEW row \in 0 .. l.max - 1
    PROVE  Moved(l, CheckMove(l, row), l.scroll + row)
  <1> DEFINE m == [Unlit(l) EXCEPT !.choice = row]
  <1>1. SameList(l, m) /\ m.scroll = l.scroll /\ m.choice = row /\ m.max = l.max
    BY ToRow DEF ListOK, SameList
  <1>2. CheckMove(l, row) = Lit(m)
    BY DEF CheckMove
  <1> HIDE DEF m
  <1> QED
    BY <1>1, <1>2, DrawnIsMoved DEF ListOK

LEMMA CheckUpOK ==
    ASSUME NEW l, ListOK(l), l.items # <<>>
    PROVE  Moved(l, CheckUp(l), MAX(Cursor(l) - 1, 0))
  <1>0. Shape(l) /\ Numbers(l)
    BY Bounds
  <1>1. CASE l.choice > 0
    <2>1. CheckUp(l) = CheckMove(l, l.choice - 1) /\ l.choice - 1 \in 0 .. l.max - 1
      BY <1>1, <1>0 DEF Numbers, CheckUp
    <2>2. l.scroll + (l.choice - 1) = MAX(Cursor(l) - 1, 0)
      BY <1>1 DEF ListOK, Cursor, MAX
    <2> QED
      BY <2>1, <2>2, CheckMoveOK
  <1>2. CASE ~(l.choice > 0) /\ l.scroll = 0
    BY <1>2 DEF CheckUp, ListOK, Cursor, MAX, Moved
  <1>3. CASE ~(l.choice > 0) /\ l.scroll # 0
    <2> DEFINE m == ScrollDown(Unlit(l), 1)
    <2>1. CheckUp(l) = check_arrows(Lit(m))
      BY <1>3 DEF CheckUp
    <2>2. SameList(l, m) /\ m.max = l.max /\ m.choice = l.choice /\ m.scroll = l.scroll + (-1)
      BY Scrolled DEF ListOK, SameList
    <2> HIDE DEF m
    <2>3. m.scroll \in Nat /\ m.scroll + m.max <= Count(l) /\ m.choice \in 0 .. m.max - 1
          /\ m.scroll + m.choice = MAX(Cursor(l) - 1, 0)
      <3>1. m.scroll \in Nat
        BY <1>3, <2>2, <1>0 DEF Numbers, Cursor, MAX, MIN
      <3>2. m.scroll + m.max <= Count(l)
        BY <1>3, <2>2, <1>0 DEF Numbers, Cursor, MAX, MIN
      <3>3. m.choice \in 0 .. m.max - 1
        BY <1>3, <2>2, <1>0 DEF Numbers, Cursor, MAX, MIN
      <3>4. m.scroll + m.choice = MAX(Cursor(l) - 1, 0)
        BY <1>3, <2>2, <1>0 DEF Numbers, Cursor, MAX, MIN
      <3> QED
        BY <3>1, <3>2, <3>3, <3>4
    <2> QED
      BY <2>1, <2>2, <2>3, DrawnIsMoved
  <1> QED
    BY <1>1, <1>2, <1>3

LEMMA CheckDownOK ==
    ASSUME NEW l, ListOK(l), l.items # <<>>
    PROVE  Moved(l, CheckDown(l), MIN(Cursor(l) + 1, Count(l) - 1))
  <1>0. Shape(l) /\ Numbers(l)
    BY Bounds
  <1>1. CASE l.choice # l.max - 1
    <2>1. CheckDown(l) = CheckMove(l, l.choice + 1) /\ l.choice + 1 \in 0 .. l.max - 1
      BY <1>1, <1>0 DEF Numbers, CheckDown
    <2>2. l.scroll + (l.choice + 1) = MIN(Cursor(l) + 1, Count(l) - 1)
      BY SMTT(40), <1>1, <1>0 DEF Numbers, Cursor, MIN
    <2> QED
      BY <2>1, <2>2, CheckMoveOK
  <1>2. CASE l.choice = l.max - 1 /\ Cursor(l) >= Count(l) - 1
    <2>1. CheckDown(l) = l
      BY <1>2 DEF CheckDown
    <2>2. Cursor(l) = MIN(Cursor(l) + 1, Count(l) - 1)
      BY <1>2, <1>0 DEF Numbers, Cursor, MIN
    <2> QED
      BY <2>1, <2>2 DEF Moved
  <1>3. CASE l.choice = l.max - 1 /\ ~(Cursor(l) >= Count(l) - 1)
    <2> DEFINE m == ScrollUp(Unlit(l), 1)
    <2>1. CheckDown(l) = check_arrows(Lit(m))
      BY <1>3 DEF CheckDown
    <2>2. SameList(l, m) /\ m.max = l.max /\ m.choice = l.choice /\ m.scroll = l.scroll + 1
      BY Scrolled DEF ListOK, SameList
    <2> HIDE DEF m
    <2>3. m.scroll \in Nat /\ m.scroll + m.max <= Count(l) /\ m.choice \in 0 .. m.max - 1
          /\ m.scroll + m.choice = MIN(Cursor(l) + 1, Count(l) - 1)
      <3>1. m.scroll \in Nat
        BY <1>3, <2>2, <1>0 DEF Numbers, Cursor, MIN
      <3>2. m.scroll + m.max <= Count(l)
        BY <1>3, <2>2, <1>0 DEF Numbers, Cursor, MIN
      <3>3. m.choice \in 0 .. m.max - 1
        BY <1>3, <2>2, <1>0 DEF Numbers, Cursor, MIN
      <3>4. m.scroll + m.choice = MIN(Cursor(l) + 1, Count(l) - 1)
        BY <1>3, <2>2, <1>0 DEF Numbers, Cursor, MIN
      <3> QED
        BY <3>1, <3>2, <3>3, <3>4
    <2> QED
      BY <2>1, <2>2, <2>3, DrawnIsMoved
  <1> QED
    BY <1>1, <1>2, <1>3

-----------------------------------------------------------------------------
\* Hotkeys.

LEMMA HitsAreRows ==
    ASSUME NEW l, ListOK(l), NEW c, NEW S \in SUBSET Hits(l, c), S # {}
    PROVE  /\ Lowest(S) \in 0 .. l.max - 1
           /\ item_str(l.items, l.scroll + Lowest(S)) = c
  <1>1. S \in SUBSET Nat
    BY DEF Hits
  <1>2. Lowest(S) \in S
    BY <1>1, LowestIn
  <1> QED
    BY <1>2 DEF Hits

LEMMA MenuHotkeyOK ==
    ASSUME NEW l, ListOK(l), NEW c, Hits(l, c) # {}
    PROVE  \E row \in 0 .. l.max - 1 :
               /\ item_str(l.items, l.scroll + row) = c
               /\ Moved(l, MenuHotkey(l, c), l.scroll + row)
  <1> DEFINE after == {r \in Hits(l, c) : r > l.choice}
             S == IF after # {} THEN after ELSE Hits(l, c)
             row == Lowest(S)
             m == [Unlit(l) EXCEPT !.choice = row]
  <1>1. MenuHotkey(l, c) = menu_arrows(Lit(m))
    BY DEF MenuHotkey
  <1>2. S \in SUBSET Hits(l, c) /\ S # {}
    OBVIOUS
  <1> HIDE DEF S
  <1>3. row \in 0 .. l.max - 1 /\ item_str(l.items, l.scroll + row) = c
    BY <1>2, HitsAreRows
  <1> HIDE DEF row
  <1>4. SameList(l, m) /\ m.scroll = l.scroll /\ m.choice = row /\ m.max = l.max
    BY ToRow DEF ListOK, SameList
  <1> HIDE DEF m
  <1>5. Moved(l, menu_arrows(Lit(m)), m.scroll + m.choice)
    BY <1>3, <1>4, DrawnIsMoved DEF ListOK
  <1> QED
    BY <1>1, <1>3, <1>4, <1>5

LEMMA CheckHotkeyOK ==
    ASSUME NEW l, ListOK(l), NEW c, Hits(l, c) # {}
    PROVE  \E row \in 0 .. l.max - 1 :
               /\ item_str(l.items, l.scroll + row) = c
               /\ Moved(l, CheckHotkey(l, c), l.scroll + row)
  BY HitsAreRows, CheckMoveOK DEF CheckHotkey

-----------------------------------------------------------------------------
\* Drawings.

LEMMA SizedIs ==
    ASSUME NEW l, Shape(l), NEW h
    PROVE  LET s == Sized(l, h) IN
           /\ Shape(s) /\ s.items = l.items /\ s.height = h /\ s.max = MIN(h, Count(l))
           /\ s.scroll = l.scroll /\ s.choice = l.choice
  BY DEF Sized, Shape, Fields

\* The window is put where the default item is on a row of it.
LEMMA PlaceArith ==
    ASSUME NEW n \in Nat, NEW max \in Nat, max <= n, NEW saved \in Int, NEW c \in 0 .. n - 1,
           max > 0
    PROVE  LET top == IF Fits(saved, c, max, n) THEN saved ELSE Middle(c, max, n) IN
           /\ top \in Nat /\ top + max <= n
           /\ c - top \in 0 .. max - 1
  <1> DEFINE half == max \div 2
  <1>1. half \in Nat /\ max - half <= half + 1 /\ half < max
    OBVIOUS
  <1> HIDE DEF half
  <1>2. CASE Fits(saved, c, max, n)
    BY <1>2 DEF Fits
  <1>3. CASE ~Fits(saved, c, max, n)
    <2>1. Middle(c, max, n) = IF c < max THEN 0 ELSE IF c >= n - half THEN n - max ELSE c - half
      BY DEF Middle, half
    <2>2. CASE c < max
      BY <1>3, <2>1, <2>2
    <2>3. CASE c >= max /\ c >= n - half
      BY <1>1, <1>3, <2>1, <2>3
    <2>4. CASE c >= max /\ ~(c >= n - half)
      BY <1>1, <1>3, <2>1, <2>4
    <2> QED
      BY <2>2, <2>3, <2>4
  <1> QED
    BY <1>2, <1>3

\* A window that is drawn: on the list, the default item highlighted.
Drawn(l, m, h) ==
    /\ ListOK(m) /\ m.items = l.items /\ m.height = h

LEMMA DefaultIn ==
    ASSUME NEW n \in Nat, NEW items, Len(items) = n, NEW data, NEW c \in Int,
           n > 0 => c \in 0 .. n - 1, n = 0 => c = 0
    PROVE  /\ DefaultItem(items, data, c) \in Int
           /\ n > 0 => DefaultItem(items, data, c) \in 0 .. n - 1
           /\ n = 0 => DefaultItem(items, data, c) = 0
  <1> DEFINE at == {i \in 0 .. Len(items) - 1 : item_data(items, i) = data}
  <1>1. CASE at = {}
    BY <1>1 DEF DefaultItem
  <1>2. CASE at # {}
    <2>1. n > 0 /\ n - 1 \in Nat
      BY <1>2
    <2>2. at \in SUBSET (0 .. (n - 1))
      OBVIOUS
    <2>3. DefaultItem(items, data, c) = Highest(at)
      BY <1>2 DEF DefaultItem
    <2> HIDE DEF at
    <2>4. Highest(at) \in at
      BY <1>2, <2>1, <2>2, HighestIn
    <2>5. DefaultItem(items, data, c) \in 0 .. (n - 1)
      BY <2>2, <2>3, <2>4, Zenon
    <2> QED
      BY <2>1, <2>5
  <1> QED
    BY <1>1, <1>2

LEMMA PlaceIs ==
    ASSUME NEW l, Shape(l), NEW c, NEW saved
    PROVE  LET m == MenuPlace(l, c, saved)
               top == IF Fits(saved, c, l.max, Count(l)) THEN saved ELSE Middle(c, l.max, Count(l)) IN
           SameList(l, m) /\ m.scroll = top /\ m.choice = c - top
  <1> DEFINE fits == Fits(saved, c, l.max, Count(l))
             top == IF fits THEN saved ELSE Middle(c, l.max, Count(l))
  <1> HIDE DEF fits, top
  <1> DEFINE x == [l EXCEPT !.scroll = top, !.choice = c - top,
                            !.first = IF fits \/ c >= l.max THEN top ELSE @]
  <1>1. SameList(l, x) /\ x.scroll = top /\ x.choice = c - top
    BY DEF SameList, Shape, Fields
  <1>2. MenuPlace(l, c, saved) = x
    BY DEF MenuPlace, fits, top
  <1> HIDE DEF x
  <1> QED
    BY <1>1, <1>2 DEF fits, top

LEMMA MenuDrawOK ==
    ASSUME NEW l, Shape(l), Count(l) \in Nat, l.items = <<>> <=> Count(l) = 0,
           l.choice \in Int, Count(l) > 0 => l.choice \in 0 .. Count(l) - 1,
           Count(l) = 0 => l.choice = 0,
           NEW n \in Nat, MenuFits(n), NEW data, NEW saved \in Int
    PROVE  Drawn(l, MenuDraw(l, n, data, saved), MenuHeight(n))
  <1> DEFINE h == MenuHeight(n)
             s == Sized(l, h)
             c == DefaultItem(l.items, data, l.choice)
             p == MenuPlace(s, c, saved)
  <1>1. h \in Nat /\ h > 0
    BY DEF MenuHeight, MenuFits, MENUBOX_HEIGTH_MIN
  <1>2. MenuDraw(l, n, data, saved) = menu_arrows(PrintAll(p, p.first))
    BY DEF MenuDraw
  <1> HIDE DEF h
  <1>3. /\ Shape(s) /\ s.items = l.items /\ s.height = h /\ s.max = MIN(h, Count(l))
        /\ s.choice = l.choice
    BY SizedIs
  <1> HIDE DEF s
  <1>4. /\ c \in Int
        /\ Count(l) > 0 => c \in 0 .. Count(l) - 1
        /\ Count(l) = 0 => c = 0
    BY DefaultIn DEF Count
  <1> HIDE DEF c
  <1> DEFINE top == IF Fits(saved, c, s.max, Count(s)) THEN saved ELSE Middle(c, s.max, Count(s))
  <1>5. SameList(s, p) /\ p.scroll = top /\ p.choice = c - top
    BY <1>3, PlaceIs
  <1>6. Count(s) = Count(l)
    BY <1>3 DEF Count
  <1>7. /\ top \in Nat /\ top + s.max <= Count(l) /\ c - top \in Nat
        /\ IF Count(l) > 0 THEN c - top \in 0 .. s.max - 1 ELSE c - top = 0
    <2>1. CASE Count(l) > 0
      <3>1. s.max \in Nat /\ s.max <= Count(l) /\ s.max > 0
        BY <1>1, <1>3, <2>1 DEF MIN
      <3> QED
        BY <1>4, <1>6, <2>1, <3>1, PlaceArith
    <2>2. CASE Count(l) = 0
      <3>1. s.max = 0 /\ c = 0
        BY <1>1, <1>3, <1>4, <2>2 DEF MIN
      <3>2. ~Fits(saved, 0, 0, 0) /\ Middle(0, 0, 0) = 0
        BY DEF Fits, Middle
      <3> QED
        BY <1>6, <2>2, <3>1, <3>2
    <2> QED
      BY <2>1, <2>2
  <1> HIDE DEF p, top
  <1>8. ListOK(p) /\ p.items = l.items /\ p.height = h
    <2>1. Shape(p) /\ p.items = l.items /\ p.height = h /\ p.max = MIN(h, Count(l))
      BY <1>3, <1>5 DEF SameList
    <2>2. Count(p) = Count(l)
      BY <2>1 DEF Count
    <2> QED
      BY <1>1, <1>3, <1>5, <1>7, <2>1, <2>2 DEF ListOK
  <1> DEFINE q == PrintAll(p, p.first)
  <1>9. SameWindow(p, q) /\ Shape(q)
    BY <1>8, PrintAllSame DEF ListOK, SameWindow
  <1> HIDE DEF q
  <1>10. SameWindow(q, menu_arrows(q))
    BY <1>9, ArrowsSame
  <1>11. SameWindow(p, menu_arrows(q))
    BY <1>9, <1>10 DEF SameWindow
  <1>12. Drawn(l, menu_arrows(q), h)
    BY <1>8, <1>11, SameIsOK DEF Drawn, SameWindow
  <1> QED
    BY <1>2, <1>12 DEF q, h

LEMMA CheckDrawOK ==
    ASSUME NEW l, Shape(l), Count(l) \in Nat, l.items = <<>> <=> Count(l) = 0,
           l.choice \in Nat, Count(l) > 0 => l.choice \in 0 .. Count(l) - 1,
           Count(l) = 0 => l.choice = 0,
           l.scroll \in Nat, l.scroll + MIN(ListHeight, Count(l)) <= Count(l)
    PROVE  Drawn(l, CheckDraw(l), ListHeight)
  <1> DEFINE s == Sized(l, ListHeight)
             p == CheckPlace(s)
             q == PrintAll(p, p.scroll)
  <1>1. CheckDraw(l) = check_arrows(q)
    BY DEF CheckDraw
  <1>2. /\ Shape(s) /\ s.items = l.items /\ s.height = 6 /\ s.max = MIN(6, Count(l))
        /\ s.scroll = l.scroll /\ s.choice = l.choice
    BY SizedIs DEF ListHeight, CHECKLIST_HEIGTH_MIN
  <1>3. l.scroll + MIN(6, Count(l)) <= Count(l)
    BY DEF ListHeight, CHECKLIST_HEIGTH_MIN
  <1> HIDE DEF s
  <1>4. ListOK(p) /\ p.items = l.items /\ p.height = 6
    <2>1. CASE s.choice >= s.height
      <3> DEFINE x == [s EXCEPT !.scroll = s.choice - s.height + 1, !.choice = s.height - 1]
      <3>1. SameList(s, x) /\ x.scroll = s.choice - s.height + 1 /\ x.choice = s.height - 1
        BY <1>2 DEF SameList, Shape, Fields
      <3>2. p = x
        BY <2>1 DEF CheckPlace
      <3> HIDE DEF x
      <3>3. /\ Shape(p) /\ p.items = l.items /\ p.height = 6 /\ p.max = MIN(6, Count(l))
            /\ p.scroll = l.choice - 6 + 1 /\ p.choice = 6 - 1
        BY <1>2, <3>1, <3>2 DEF SameList
      <3>4. Count(p) = Count(l)
        BY <3>3 DEF Count
      <3> HIDE DEF p
      <3>5. p.max = 6 /\ p.scroll + 6 <= Count(l) /\ p.scroll \in Nat
        BY <1>2, <2>1, <3>3 DEF MIN
      <3> QED
        BY <1>2, <2>1, <3>3, <3>4, <3>5 DEF ListOK
    <2>2. CASE ~(s.choice >= s.height)
      <3>1. p = s
        BY <2>2 DEF CheckPlace
      <3>2. Count(s) = Count(l)
        BY <1>2 DEF Count
      <3>3. Count(l) > 0 => s.choice \in 0 .. s.max - 1
        BY <1>2, <2>2 DEF MIN
      <3> QED
        BY <1>2, <1>3, <3>1, <3>2, <3>3 DEF ListOK
    <2> QED
      BY <2>1, <2>2
  <1> HIDE DEF p
  <1>5. SameWindow(p, q) /\ Shape(q)
    BY <1>4, PrintAllSame DEF ListOK, SameWindow
  <1> HIDE DEF q
  <1>6. SameWindow(q, check_arrows(q))
    BY <1>5, ArrowsSame
  <1>7. SameWindow(p, check_arrows(q))
    BY <1>5, <1>6 DEF SameWindow
  <1> QED
    BY <1>1, <1>4, <1>7, SameIsOK DEF Drawn, SameWindow, ListHeight, CHECKLIST_HEIGTH_MIN

-----------------------------------------------------------------------------
\* What is on the screen: the items of the window on its rows, the highlight on
\* one of them, and arrows where there is more.
RowsShow(l) ==
    /\ l.rows = [r \in 0 .. l.height - 1 |-> l.rows[r]]
    /\ \A r \in 0 .. l.max - 1 : l.rows[r] = l.scroll + r
LitShows(l) == l.items # <<>> => l.lit = {l.choice}
ArrowsShow(l) ==
    /\ (l.scroll > 0) = l.up
    /\ l.scroll + l.max < Count(l) => l.down
OnScreen(l) == RowsShow(l) /\ LitShows(l) /\ ArrowsShow(l)

\* A window while a key moves something in it: no row is highlighted.
Bare(l) == RowsShow(l) /\ l.lit = {}

LEMMA UnlitBare ==
    ASSUME NEW l, ListOK(l), l.items # <<>>, RowsShow(l), LitShows(l)
    PROVE  LET u == Unlit(l) IN
           SameWindow(l, u) /\ Bare(u) /\ u.up = l.up /\ u.down = l.down
  <1> DEFINE u == Unlit(l)
  <1>1. Shape(l) /\ Numbers(l)
    BY Bounds
  <1>2. SameWindow(l, u)
    BY <1>1, UnlitSame
  <1>3. /\ u.rows = [l.rows EXCEPT ![l.choice] = Cursor(l)]
        /\ u.lit = l.lit \ {l.choice} /\ u.up = l.up /\ u.down = l.down
    BY <1>1 DEF Unlit, print_item, Shape, Fields
  <1> HIDE DEF u
  <1>4. u.lit = {}
    BY <1>3 DEF LitShows
  <1>5. u.rows = [r \in 0 .. l.height - 1 |-> u.rows[r]]
    BY <1>3 DEF RowsShow
  <1>6. \A r \in 0 .. l.max - 1 : u.rows[r] = l.scroll + r
    <2>1. 0 .. l.max - 1 \subseteq 0 .. l.height - 1
      BY DEF ListOK, MIN
    <2> QED
      BY <1>3, <2>1 DEF RowsShow, Cursor
  <1> QED
    BY <1>2, <1>3, <1>4, <1>5, <1>6 DEF Bare, RowsShow, SameWindow, u

LEMMA LitShown ==
    ASSUME NEW m, ListOK(m), m.items # <<>>, Bare(m)
    PROVE  LET n == Lit(m) IN
           SameWindow(m, n) /\ RowsShow(n) /\ LitShows(n) /\ n.up = m.up /\ n.down = m.down
  <1> DEFINE n == Lit(m)
  <1>1. Shape(m) /\ Numbers(m)
    BY Bounds
  <1>2. SameWindow(m, n)
    BY <1>1, PrintSame DEF Lit
  <1>3. /\ n.rows = [m.rows EXCEPT ![m.choice] = Cursor(m)]
        /\ n.lit = m.lit \union {m.choice} /\ n.up = m.up /\ n.down = m.down
    BY <1>1 DEF Lit, print_item, Shape, Fields
  <1> HIDE DEF n
  <1>4. n.lit = {n.choice}
    BY <1>2, <1>3 DEF Bare, SameWindow
  <1>5. n.rows = [r \in 0 .. m.height - 1 |-> n.rows[r]]
    BY <1>3 DEF RowsShow, Bare
  <1>6. \A r \in 0 .. m.max - 1 : n.rows[r] = m.scroll + r
    <2>1. 0 .. m.max - 1 \subseteq 0 .. m.height - 1
      BY DEF ListOK, MIN
    <2> QED
      BY <1>3, <2>1 DEF RowsShow, Bare, Cursor
  <1> QED
    BY <1>2, <1>3, <1>4, <1>5, <1>6 DEF LitShows, RowsShow, SameWindow, n

\* The arrows are right once they are drawn.
LEMMA ArrowsShown ==
    ASSUME NEW l, ListOK(l), RowsShow(l), LitShows(l)
    PROVE  OnScreen(menu_arrows(l)) /\ OnScreen(check_arrows(l))
  <1>1. Shape(l) /\ Count(l) \in Nat /\ l.scroll \in Nat /\ l.choice \in Nat
        /\ l.height \in Nat /\ l.max = MIN(l.height, Count(l)) /\ l.scroll + l.max <= Count(l)
    BY DEF ListOK
  <1>2. ASSUME NEW m, SameWindow(l, m), m.rows = l.rows, m.lit = l.lit
        PROVE  RowsShow(m) /\ LitShows(m)
    BY <1>2 DEF RowsShow, LitShows, SameWindow
  <1>3. SameWindow(l, menu_arrows(l)) /\ SameWindow(l, check_arrows(l))
    BY <1>1, ArrowsSame
  <1>4. ArrowsShow(menu_arrows(l))
    <2>1. /\ menu_arrows(l).up = (l.scroll > 0)
          /\ menu_arrows(l).down = (l.height < Count(l) /\ l.scroll + l.height < Count(l))
      BY <1>1 DEF menu_arrows, Shape, Fields
    <2>2. l.scroll + l.max < Count(l) => l.height < Count(l) /\ l.scroll + l.height < Count(l)
      BY <1>1 DEF MIN
    <2> QED
      BY <1>3, <2>1, <2>2 DEF ArrowsShow, SameWindow, Count
  <1>5. ArrowsShow(check_arrows(l))
    <2>1. /\ check_arrows(l).up = (l.scroll > 0)
          /\ check_arrows(l).down = (l.height < Count(l) /\ l.scroll + l.choice < Count(l) - 1)
      BY <1>1 DEF check_arrows, Shape, Fields
    <2>2. l.scroll + l.max < Count(l) => l.height < Count(l) /\ l.scroll + l.choice < Count(l) - 1
      <3>1. l.scroll + l.max < Count(l) => l.items # <<>> /\ l.height < Count(l)
        BY <1>1 DEF MIN, ListOK
      <3>2. l.items # <<>> => l.choice < l.max /\ l.max \in Nat
        BY Bounds DEF Numbers
      <3> QED
        BY <1>1, <3>1, <3>2
    <2> QED
      BY <1>3, <2>1, <2>2 DEF ArrowsShow, SameWindow, Count
  <1>6. /\ menu_arrows(l).rows = l.rows /\ menu_arrows(l).lit = l.lit
        /\ check_arrows(l).rows = l.rows /\ check_arrows(l).lit = l.lit
    BY <1>1 DEF menu_arrows, check_arrows, Shape, Fields
  <1> QED
    BY <1>2, <1>3, <1>4, <1>5, <1>6 DEF OnScreen

\* The highlight drawn on a window that has none, and the arrows.
LEMMA KeyShown ==
    ASSUME NEW m, ListOK(m), m.items # <<>>, Bare(m)
    PROVE  OnScreen(menu_arrows(Lit(m))) /\ OnScreen(check_arrows(Lit(m)))
  <1> DEFINE n == Lit(m)
  <1>1. SameWindow(m, n) /\ RowsShow(n) /\ LitShows(n)
    BY LitShown
  <1> HIDE DEF n
  <1>2. ListOK(n)
    BY <1>1, SameIsOK
  <1>3. OnScreen(menu_arrows(n)) /\ OnScreen(check_arrows(n))
    BY <1>1, <1>2, ArrowsShown
  <1> QED
    BY <1>3 DEF n

\* The highlight goes to another row.
LEMMA RowBare ==
    ASSUME NEW l, Shape(l), Bare(l), NEW row
    PROVE  LET m == [l EXCEPT !.choice = row] IN Bare(m) /\ m.up = l.up /\ m.down = l.down
  BY DEF Bare, RowsShow, Shape, Fields

\* The window scrolls: the rows that move and those that are printed.
LEMMA ScrollBare ==
    ASSUME NEW l, ListOK(l), Bare(l), NEW n \in Nat, n <= l.max
    PROVE  Bare(ScrollUp(l, n)) /\ Bare(ScrollDown(l, n))
  <1> DEFINE h == l.height
  <1>1. Shape(l) /\ h \in Nat /\ l.max \in Nat /\ l.max <= h /\ l.scroll \in Nat
    BY DEF ListOK, MIN
  <1> DEFINE u == ScrollUp(l, n)
             d == ScrollDown(l, n)
  <1>2. /\ Shape(u) /\ u.height = h /\ u.max = l.max /\ u.scroll = l.scroll + n
        /\ Shape(d) /\ d.height = h /\ d.max = l.max /\ d.scroll = l.scroll + (-n)
    BY <1>1, ScrollSame
  <1>3. u.lit = {} /\ d.lit = {}
    BY <1>1 DEF ScrollUp, ScrollDown, do_scroll, Bare, Shape, Fields
  <1>4. u.rows = [r \in 0 .. h - 1 |->
                     IF r \in l.max - n .. l.max - 1 THEN l.scroll + n + r
                     ELSE IF r + n \in 0 .. h - 1 THEN l.rows[r + n] ELSE Nothing]
    BY <1>1 DEF ScrollUp, do_scroll, Shape, Fields
  <1>5. d.rows = [r \in 0 .. h - 1 |->
                     IF r < n THEN l.scroll + (-n) + r
                     ELSE IF r + (-n) \in 0 .. h - 1 THEN l.rows[r + (-n)] ELSE Nothing]
    BY <1>1 DEF ScrollDown, do_scroll, Shape, Fields
  <1> HIDE DEF u, d
  <1>6. ASSUME NEW r \in 0 .. l.max - 1
        PROVE  u.rows[r] = u.scroll + r /\ d.rows[r] = d.scroll + r
    <2>0. r \in 0 .. h - 1 /\ r \in Int
      BY <1>1
    <2>1. u.rows[r] = l.scroll + n + r
      <3>1. CASE r \in l.max - n .. l.max - 1
        BY <1>4, <2>0, <3>1
      <3>2. CASE r \notin l.max - n .. l.max - 1
        <4>1. r + n \in 0 .. l.max - 1 /\ r + n \in 0 .. h - 1
          BY <1>1, <3>2
        <4>2. l.rows[r + n] = l.scroll + (r + n)
          BY <4>1 DEF Bare, RowsShow
        <4> QED
          BY <1>1, <1>4, <2>0, <3>2, <4>1, <4>2
      <3> QED
        BY <3>1, <3>2
    <2>2. d.rows[r] = l.scroll + (-n) + r
      <3>1. CASE r < n
        BY <1>5, <2>0, <3>1
      <3>2. CASE ~(r < n)
        <4>1. r + (-n) \in 0 .. l.max - 1 /\ r + (-n) \in 0 .. h - 1
          BY <1>1, <3>2
        <4>2. l.rows[r + (-n)] = l.scroll + (r + (-n))
          BY <4>1 DEF Bare, RowsShow
        <4> QED
          BY <1>1, <1>5, <2>0, <3>2, <4>1, <4>2
      <3> QED
        BY <3>1, <3>2
    <2> QED
      BY <1>1, <1>2, <2>1, <2>2
  <1>7. /\ u.rows = [r \in 0 .. h - 1 |-> u.rows[r]]
        /\ d.rows = [r \in 0 .. h - 1 |-> d.rows[r]]
    BY <1>4, <1>5
  <1> QED
    BY <1>2, <1>3, <1>6, <1>7 DEF Bare, RowsShow, u, d

\* A window of the list l on which only the highlight is still to be drawn.
Ready(l, m) == Shape(m) /\ Bare(m) /\ m.items = l.items

LEMMA ReadyRow ==
    ASSUME NEW l, NEW a, Ready(l, a), NEW row
    PROVE  Ready(l, [a EXCEPT !.choice = row])
  <1> DEFINE m == [a EXCEPT !.choice = row]
  <1>1. Bare(m)
    BY RowBare DEF Ready
  <1>2. Shape(m) /\ m.items = a.items
    BY DEF Ready, Shape, Fields
  <1> HIDE DEF m
  <1>3. Ready(l, m)
    BY <1>1, <1>2 DEF Ready
  <1> QED
    BY <1>3 DEF m

LEMMA ReadyUnlit ==
    ASSUME NEW l, ListOK(l), l.items # <<>>, OnScreen(l)
    PROVE  Ready(l, Unlit(l))
  BY UnlitBare DEF Ready, OnScreen, SameWindow

LEMMA ReadyScrolled ==
    ASSUME NEW l, ListOK(l), l.items # <<>>, OnScreen(l), NEW n \in Nat, n <= l.max
    PROVE  Ready(l, ScrollUp(Unlit(l), n)) /\ Ready(l, ScrollDown(Unlit(l), n))
  <1> DEFINE u == Unlit(l)
  <1>1. SameWindow(l, u) /\ Bare(u)
    BY UnlitBare DEF OnScreen
  <1> HIDE DEF u
  <1>2. ListOK(u) /\ n <= u.max /\ Shape(u) /\ u.items = l.items
    BY <1>1, SameIsOK DEF SameWindow
  <1>3. Bare(ScrollUp(u, n)) /\ Bare(ScrollDown(u, n))
    BY <1>1, <1>2, ScrollBare
  <1>4. /\ Shape(ScrollUp(u, n)) /\ ScrollUp(u, n).items = u.items
        /\ Shape(ScrollDown(u, n)) /\ ScrollDown(u, n).items = u.items
    BY <1>2, ScrollSame
  <1>5. Ready(l, ScrollUp(u, n)) /\ Ready(l, ScrollDown(u, n))
    BY <1>2, <1>3, <1>4 DEF Ready
  <1> QED
    BY <1>5 DEF u

\* The highlight is drawn where there is an item.
LEMMA ReadyShown ==
    ASSUME NEW l, l.items # <<>>, NEW m, Ready(l, m),
           ListOK(menu_arrows(Lit(m))) \/ ListOK(check_arrows(Lit(m)))
    PROVE  OnScreen(menu_arrows(Lit(m))) /\ OnScreen(check_arrows(Lit(m)))
  <1>1. SameWindow(m, menu_arrows(Lit(m))) /\ SameWindow(m, check_arrows(Lit(m)))
    BY DrawnSame DEF Ready
  <1>2. ASSUME NEW n, SameWindow(m, n), ListOK(n) PROVE ListOK(m)
    <2>1. SameWindow(n, m)
      BY <1>2 DEF SameWindow, Ready
    <2> QED
      BY <1>2, <2>1, SameIsOK
  <1>3. ListOK(m)
    BY <1>1, <1>2
  <1> QED
    BY <1>3, KeyShown DEF Ready

\* What a key of a menu leaves on the screen is what there is.
LEMMA MenuKeysShown ==
    ASSUME NEW l, ListOK(l), l.items # <<>>, OnScreen(l)
    PROVE  /\ OnScreen(MenuUp(l)) /\ OnScreen(MenuDown(l))
           /\ OnScreen(MenuPageUp(l)) /\ OnScreen(MenuPageDown(l))
  <1>0. Numbers(l)
    BY Bounds
  <1>1. OnScreen(MenuUp(l))
    <2> DEFINE row == MAX(Unlit(l).choice - 1, 0)
               m == IF l.choice < 2 /\ l.scroll > 0 THEN ScrollDown(Unlit(l), 1)
                    ELSE [Unlit(l) EXCEPT !.choice = row]
    <2>1. MenuUp(l) = menu_arrows(Lit(m))
      BY DEF MenuUp
    <2> HIDE DEF row
    <2>2. Ready(l, m)
      <3>1. 1 \in Nat /\ 1 <= l.max
        BY <1>0 DEF Numbers
      <3>2. Ready(l, ScrollDown(Unlit(l), 1))
        BY <3>1, ReadyScrolled
      <3>3. Ready(l, [Unlit(l) EXCEPT !.choice = row])
        BY ReadyUnlit, ReadyRow
      <3> QED
        BY <3>2, <3>3
    <2> HIDE DEF m
    <2> QED
      BY <2>1, <2>2, MenuUpOK, ReadyShown DEF Moved
  <1>2. OnScreen(MenuDown(l))
    <2> DEFINE row == MIN(Unlit(l).choice + 1, l.max - 1)
               m == IF l.choice > l.max - 3 /\ l.scroll + l.max < Count(l)
                    THEN ScrollUp(Unlit(l), 1) ELSE [Unlit(l) EXCEPT !.choice = row]
    <2>1. MenuDown(l) = menu_arrows(Lit(m))
      BY DEF MenuDown
    <2> HIDE DEF row
    <2>2. Ready(l, m)
      <3>1. 1 \in Nat /\ 1 <= l.max
        BY <1>0 DEF Numbers
      <3>2. Ready(l, ScrollUp(Unlit(l), 1))
        BY <3>1, ReadyScrolled
      <3>3. Ready(l, [Unlit(l) EXCEPT !.choice = row])
        BY ReadyUnlit, ReadyRow
      <3> QED
        BY <3>2, <3>3
    <2> HIDE DEF m
    <2> QED
      BY <2>1, <2>2, MenuDownOK, ReadyShown DEF Moved
  <1>3. OnScreen(MenuPageUp(l))
    <2> DEFINE n == MIN(l.scroll, l.max)
               a == ScrollDown(Unlit(l), n)
               row == MAX(a.choice - (l.max - n), 0)
               m == [a EXCEPT !.choice = row]
    <2>1. MenuPageUp(l) = menu_arrows(Lit(m))
      BY DEF MenuPageUp
    <2> HIDE DEF row
    <2>2. n \in Nat /\ n <= l.max
      BY <1>0 DEF Numbers, MIN
    <2> HIDE DEF n
    <2>3. Ready(l, a)
      BY <2>2, ReadyScrolled
    <2> HIDE DEF a
    <2>4. Ready(l, m)
      BY <2>3, ReadyRow
    <2> HIDE DEF m
    <2> QED
      BY <2>1, <2>4, MenuPageUpOK, ReadyShown DEF Moved
  <1>4. OnScreen(MenuPageDown(l))
    <2> DEFINE n == MIN(Count(l) - (l.scroll + l.max), l.max)
               a == ScrollUp(Unlit(l), n)
               row == MIN(a.choice + l.max - n, l.max - 1)
               m == [a EXCEPT !.choice = row]
    <2>1. MenuPageDown(l) = menu_arrows(Lit(m))
      BY DEF MenuPageDown
    <2> HIDE DEF row
    <2>2. n \in Nat /\ n <= l.max
      BY <1>0 DEF Numbers, MIN
    <2> HIDE DEF n
    <2>3. Ready(l, a)
      BY <2>2, ReadyScrolled
    <2> HIDE DEF a
    <2>4. Ready(l, m)
      BY <2>3, ReadyRow
    <2> HIDE DEF m
    <2> QED
      BY <2>1, <2>4, MenuPageDownOK, ReadyShown DEF Moved
  <1> QED
    BY <1>1, <1>2, <1>3, <1>4

LEMMA MenuHotkeyShown ==
    ASSUME NEW l, ListOK(l), l.items # <<>>, OnScreen(l), NEW c, Hits(l, c) # {}
    PROVE  OnScreen(MenuHotkey(l, c))
  <1> DEFINE after == {r \in Hits(l, c) : r > l.choice}
             row == Lowest(IF after # {} THEN after ELSE Hits(l, c))
             m == [Unlit(l) EXCEPT !.choice = row]
  <1>1. MenuHotkey(l, c) = menu_arrows(Lit(m))
    BY DEF MenuHotkey
  <1> HIDE DEF row
  <1>2. Ready(l, m)
    BY ReadyUnlit, ReadyRow
  <1> HIDE DEF m
  <1> QED
    BY <1>1, <1>2, MenuHotkeyOK, ReadyShown DEF Moved

\* A radiolist moves its highlight without drawing the arrows again: it has not
\* scrolled.
LEMMA CheckMoveShown ==
    ASSUME NEW l, ListOK(l), l.items # <<>>, OnScreen(l), NEW row \in 0 .. l.max - 1
    PROVE  OnScreen(CheckMove(l, row))
  <1> DEFINE u == Unlit(l)
             m == [u EXCEPT !.choice = row]
             n == Lit(m)
  <1>1. CheckMove(l, row) = n
    BY DEF CheckMove
  <1>2. SameWindow(l, u) /\ Bare(u) /\ u.up = l.up /\ u.down = l.down /\ Shape(u)
    BY UnlitBare DEF OnScreen, SameWindow
  <1> HIDE DEF u
  <1>3. Bare(m) /\ m.up = u.up /\ m.down = u.down
    BY <1>2, RowBare
  <1>4. SameList(l, m) /\ m.scroll = l.scroll /\ m.choice = row
    BY <1>2 DEF SameWindow, SameList, Shape, Fields
  <1> HIDE DEF m
  <1>5. m.scroll \in Nat /\ m.scroll + m.max <= Count(l) /\ m.choice \in 0 .. m.max - 1
    BY <1>4 DEF ListOK, SameList
  <1>6. ListOK(m) /\ m.items # <<>>
    BY <1>4, <1>5, MovedIsOK DEF SameList
  <1>7. SameWindow(m, n) /\ RowsShow(n) /\ LitShows(n) /\ n.up = m.up /\ n.down = m.down
    BY <1>3, <1>6, LitShown
  <1> HIDE DEF n
  <1>8. ArrowsShow(n)
    BY <1>2, <1>3, <1>4, <1>7 DEF OnScreen, ArrowsShow, SameWindow, SameList, Count
  <1> QED
    BY <1>1, <1>7, <1>8 DEF OnScreen

LEMMA CheckKeysShown ==
    ASSUME NEW l, ListOK(l), l.items # <<>>, OnScreen(l)
    PROVE  OnScreen(CheckUp(l)) /\ OnScreen(CheckDown(l))
  <1>0. Numbers(l) /\ 1 \in Nat /\ 1 <= l.max
    BY Bounds DEF Numbers
  <1>1. OnScreen(CheckUp(l))
    <2>1. CASE l.choice > 0
      <3>1. l.choice - 1 \in 0 .. l.max - 1
        BY <1>0, <2>1 DEF Numbers
      <3> QED
        BY <2>1, <3>1, CheckMoveShown DEF CheckUp
    <2>2. CASE ~(l.choice > 0) /\ l.scroll = 0
      BY <2>2 DEF CheckUp
    <2>3. CASE ~(l.choice > 0) /\ l.scroll # 0
      <3> DEFINE m == ScrollDown(Unlit(l), 1)
      <3>1. CheckUp(l) = check_arrows(Lit(m))
        BY <2>3 DEF CheckUp
      <3>2. Ready(l, m)
        BY <1>0, ReadyScrolled
      <3> HIDE DEF m
      <3> QED
        BY <3>1, <3>2, CheckUpOK, ReadyShown DEF Moved
    <2> QED
      BY <2>1, <2>2, <2>3
  <1>2. OnScreen(CheckDown(l))
    <2>1. CASE l.choice # l.max - 1
      <3>1. l.choice + 1 \in 0 .. l.max - 1
        BY <1>0, <2>1 DEF Numbers
      <3> QED
        BY <2>1, <3>1, CheckMoveShown DEF CheckDown
    <2>2. CASE l.choice = l.max - 1 /\ Cursor(l) >= Count(l) - 1
      BY <2>2 DEF CheckDown
    <2>3. CASE l.choice = l.max - 1 /\ ~(Cursor(l) >= Count(l) - 1)
      <3> DEFINE m == ScrollUp(Unlit(l), 1)
      <3>1. CheckDown(l) = check_arrows(Lit(m))
        BY <2>3 DEF CheckDown
      <3>2. Ready(l, m)
        BY <1>0, ReadyScrolled
      <3> HIDE DEF m
      <3> QED
        BY <3>1, <3>2, CheckDownOK, ReadyShown DEF Moved
    <2> QED
      BY <2>1, <2>2, <2>3
  <1> QED
    BY <1>1, <1>2

LEMMA CheckHotkeyShown ==
    ASSUME NEW l, ListOK(l), l.items # <<>>, OnScreen(l), NEW c, Hits(l, c) # {}
    PROVE  OnScreen(CheckHotkey(l, c))
  <1>1. Lowest(Hits(l, c)) \in 0 .. l.max - 1
    BY HitsAreRows
  <1> QED
    BY <1>1, CheckMoveShown DEF CheckHotkey

\* A window drawn anew shows what there is when the first row is that of the
\* window: always for a radiolist, and for a menu that is drawn the first time.
LEMMA PrintedShown ==
    ASSUME NEW p, ListOK(p)
    PROVE  LET q == PrintAll(p, p.scroll) IN
           OnScreen(menu_arrows(q)) /\ OnScreen(check_arrows(q))
  <1> DEFINE q == PrintAll(p, p.scroll)
  <1>1. Shape(p) /\ p.max <= p.height /\ p.height \in Nat /\ p.max \in Nat
    BY DEF ListOK, MIN
  <1>2. SameWindow(p, q)
    BY <1>1, PrintAllSame
  <1>3. /\ q.rows = [r \in 0 .. p.height - 1 |-> IF r < p.max THEN p.scroll + r ELSE Nothing]
        /\ q.lit = IF p.choice < p.max THEN {p.choice} ELSE {}
    BY <1>1 DEF PrintAll, Shape, Fields
  <1> HIDE DEF q
  <1>4. RowsShow(q)
    <2>1. \A r \in 0 .. p.max - 1 : r \in 0 .. p.height - 1 /\ r < p.max
      BY <1>1
    <2>2. q.rows = [r \in 0 .. p.height - 1 |-> q.rows[r]]
      BY <1>3
    <2>3. \A r \in 0 .. p.max - 1 : q.rows[r] = p.scroll + r
      BY <1>3, <2>1
    <2> QED
      BY <1>2, <2>2, <2>3 DEF RowsShow, SameWindow
  <1>5. LitShows(q)
    <2>1. p.items # <<>> => p.choice < p.max
      BY Bounds DEF Numbers
    <2> QED
      BY <1>2, <1>3, <2>1 DEF LitShows, SameWindow
  <1>6. ListOK(q)
    BY <1>2, SameIsOK
  <1>7. OnScreen(menu_arrows(q)) /\ OnScreen(check_arrows(q))
    BY <1>4, <1>5, <1>6, ArrowsShown
  <1> QED
    BY <1>7 DEF q

LEMMA MenuDrawShown ==
    ASSUME NEW l, Shape(l), Count(l) \in Nat, l.items = <<>> <=> Count(l) = 0,
           l.choice \in Int, Count(l) > 0 => l.choice \in 0 .. Count(l) - 1,
           Count(l) = 0 => l.choice = 0, l.first = 0,
           NEW n \in Nat, MenuFits(n), NEW data, NEW saved \in Int
    PROVE  OnScreen(MenuDraw(l, n, data, saved))
  <1> DEFINE h == MenuHeight(n)
             s == Sized(l, h)
             c == DefaultItem(l.items, data, l.choice)
             p == MenuPlace(s, c, saved)
             q == PrintAll(p, p.first)
  <1>1. h \in Nat
    BY DEF MenuHeight, MenuFits, MENUBOX_HEIGTH_MIN
  <1>2. MenuDraw(l, n, data, saved) = menu_arrows(q) /\ s.items = l.items
    BY SizedIs DEF MenuDraw
  <1>3. ListOK(menu_arrows(q))
    BY <1>2, MenuDrawOK DEF Drawn
  <1> HIDE DEF h
  <1>4. Shape(s) /\ s.max = MIN(h, Count(l)) /\ s.first = 0
    BY DEF Sized, Shape, Fields
  <1> HIDE DEF s
  <1>5. c \in Int /\ s.max \in Int
    BY <1>1, <1>4, DefaultIn DEF Count, MIN
  <1> HIDE DEF c
  <1>6. Shape(p) /\ p.first = p.scroll
    <2> DEFINE fits == Fits(saved, c, s.max, Count(s))
               top == IF fits THEN saved ELSE Middle(c, s.max, Count(s))
    <2>1. ~(fits \/ c >= s.max) => top = 0
      BY <1>5 DEF Middle
    <2> HIDE DEF fits, top
    <2>2. p = [s EXCEPT !.scroll = top, !.choice = c - top,
                        !.first = IF fits \/ c >= s.max THEN top ELSE @]
      BY DEF MenuPlace, fits, top
    <2>3. Shape(p) /\ p.scroll = top /\ p.first = IF fits \/ c >= s.max THEN top ELSE s.first
      BY <1>4, <2>2 DEF Shape, Fields
    <2> QED
      BY <1>4, <2>1, <2>3
  <1> HIDE DEF p
  <1>7. ListOK(p)
    <2>1. SameWindow(p, q) /\ Shape(q)
      BY <1>6, PrintAllSame DEF SameWindow
    <2>2. SameWindow(q, menu_arrows(q))
      BY <2>1, ArrowsSame
    <2>3. SameWindow(menu_arrows(q), p)
      BY <1>6, <2>1, <2>2 DEF SameWindow
    <2> QED
      BY <1>3, <2>3, SameIsOK
  <1>8. q = PrintAll(p, p.scroll)
    BY <1>6
  <1> QED
    BY <1>2, <1>7, <1>8, PrintedShown

LEMMA CheckDrawShown ==
    ASSUME NEW l, Shape(l), ListOK(CheckDraw(l))
    PROVE  OnScreen(CheckDraw(l))
  <1> DEFINE s == Sized(l, ListHeight)
             p == CheckPlace(s)
             q == PrintAll(p, p.scroll)
  <1>1. CheckDraw(l) = check_arrows(q)
    BY DEF CheckDraw
  <1>2. Shape(s)
    BY SizedIs
  <1> HIDE DEF s
  <1>3. Shape(p)
    BY <1>2 DEF CheckPlace, Shape, Fields
  <1> HIDE DEF p
  <1>4. ListOK(p)
    <2>1. SameWindow(p, q) /\ Shape(q)
      BY <1>3, PrintAllSame DEF SameWindow
    <2>2. SameWindow(q, check_arrows(q))
      BY <2>1, ArrowsSame
    <2>3. SameWindow(check_arrows(q), p)
      BY <1>3, <2>1, <2>2 DEF SameWindow
    <2> QED
      BY <1>1, <2>3, SameIsOK
  <1> QED
    BY <1>1, <1>4, PrintedShown

-----------------------------------------------------------------------------
\* A menu that was drawn again for another size may show other rows than those
\* of its window.  When all of them are items of the list, the keys keep it so.
RowsOn(l) ==
    /\ l.rows = [r \in 0 .. l.height - 1 |-> l.rows[r]]
    /\ ~Broken(l)

\* The rows that a window has are on the screen.
LEMMA RowsAreDrawn ==
    ASSUME NEW l, ListOK(l), NEW r \in 0 .. l.max - 1
    PROVE  r \in 0 .. l.height - 1 /\ r \in Int
  BY DEF ListOK, MIN

LEMMA ShownIsOn ==
    ASSUME NEW l, ListOK(l), RowsShow(l)
    PROVE  RowsOn(l)
  <1>1. ASSUME NEW r \in 0 .. l.max - 1 PROVE ~(l.rows[r] >= Count(l))
    <2>1. l.rows[r] = l.scroll + r
      BY DEF RowsShow
    <2>2. l.max \in Int /\ l.scroll \in Int /\ Count(l) \in Int /\ l.scroll + l.max <= Count(l)
      BY DEF ListOK, MIN
    <2> QED
      BY <2>1, <2>2
  <1> QED
    BY <1>1 DEF RowsOn, RowsShow, Broken

\* An item of the list is printed on a row.
LEMMA PrintOn ==
    ASSUME NEW l, ListOK(l), RowsOn(l), NEW i \in Int, i < Count(l), NEW row, NEW selected
    PROVE  RowsOn(print_item(l, i, row, selected))
  <1> DEFINE p == print_item(l, i, row, selected)
  <1>1. p.rows = [l.rows EXCEPT ![row] = i]
    BY DEF print_item, ListOK, Shape, Fields
  <1>2. p.max = l.max /\ p.height = l.height /\ p.items = l.items
    BY PrintSame DEF SameWindow, ListOK
  <1> HIDE DEF p
  <1>3. ASSUME NEW r \in 0 .. l.max - 1 PROVE ~(p.rows[r] >= Count(l))
    <2>1. r \in DOMAIN l.rows
      <3>1. DOMAIN l.rows = 0 .. l.height - 1
        BY DEF RowsOn
      <3> QED
        BY <3>1, RowsAreDrawn
    <2>2. p.rows[r] = IF r = row THEN i ELSE l.rows[r]
      BY <1>1, <2>1
    <2>3. ~(i >= Count(l))
      BY DEF ListOK
    <2>4. ~(l.rows[r] >= Count(l))
      BY DEF RowsOn, Broken
    <2> QED
      BY <2>2, <2>3, <2>4
  <1>4. p.rows = [r \in 0 .. p.height - 1 |-> p.rows[r]]
    BY <1>1, <1>2 DEF RowsOn
  <1>5. RowsOn(p)
    BY <1>2, <1>3, <1>4 DEF RowsOn, Broken, Count
  <1> QED
    BY <1>5 DEF p

\* The window scrolls: the items that come up are items of the list.
LEMMA ScrollOn ==
    ASSUME NEW l, ListOK(l), RowsOn(l), NEW n \in Nat, n <= l.max
    PROVE  /\ l.scroll + n + l.max <= Count(l) => RowsOn(ScrollUp(l, n))
           /\ RowsOn(ScrollDown(l, n))
  <1> DEFINE h == l.height
             u == ScrollUp(l, n)
             d == ScrollDown(l, n)
  <1>1. /\ Shape(l) /\ h \in Nat /\ l.max \in Nat /\ l.max <= h /\ l.scroll \in Nat
        /\ Count(l) \in Nat /\ l.scroll + l.max <= Count(l)
    BY DEF ListOK, MIN
  <1>2. /\ u.height = h /\ u.max = l.max /\ u.items = l.items
        /\ d.height = h /\ d.max = l.max /\ d.items = l.items
    BY <1>1, ScrollSame
  <1>3. u.rows = [r \in 0 .. h - 1 |->
                     IF r \in l.max - n .. l.max - 1 THEN l.scroll + n + r
                     ELSE IF r + n \in 0 .. h - 1 THEN l.rows[r + n] ELSE Nothing]
    BY <1>1 DEF ScrollUp, do_scroll, Shape, Fields
  <1>4. d.rows = [r \in 0 .. h - 1 |->
                     IF r < n THEN l.scroll + (-n) + r
                     ELSE IF r + (-n) \in 0 .. h - 1 THEN l.rows[r + (-n)] ELSE Nothing]
    BY <1>1 DEF ScrollDown, do_scroll, Shape, Fields
  <1> HIDE DEF u, d
  <1>5. \A r \in 0 .. l.max - 1 : ~(l.rows[r] >= Count(l))
    BY DEF RowsOn, Broken
  <1>6. ASSUME NEW r \in 0 .. l.max - 1, l.scroll + n + l.max <= Count(l)
        PROVE  ~(u.rows[r] >= Count(l))
    <2>0. r \in 0 .. h - 1 /\ r \in Int
      BY <1>1
    <2>1. CASE r \in l.max - n .. l.max - 1
      <3>1. u.rows[r] = l.scroll + n + r
        BY <1>3, <2>0, <2>1
      <3> QED
        BY <1>1, <1>6, <3>1
    <2>2. CASE r \notin l.max - n .. l.max - 1
      <3>1. r + n \in 0 .. l.max - 1 /\ r + n \in 0 .. h - 1
        BY <1>1, <2>2
      <3>2. u.rows[r] = l.rows[r + n]
        BY <1>3, <2>0, <2>2, <3>1
      <3> QED
        BY <1>5, <3>1, <3>2
    <2> QED
      BY <2>1, <2>2
  <1>7. ASSUME NEW r \in 0 .. l.max - 1 PROVE ~(d.rows[r] >= Count(l))
    <2>0. r \in 0 .. h - 1 /\ r \in Int
      BY <1>1
    <2>1. CASE r < n
      <3>1. d.rows[r] = l.scroll + (-n) + r
        BY <1>4, <2>0, <2>1
      <3> QED
        BY <1>1, <2>1, <3>1
    <2>2. CASE ~(r < n)
      <3>1. r + (-n) \in 0 .. l.max - 1 /\ r + (-n) \in 0 .. h - 1
        BY <1>1, <2>2
      <3>2. d.rows[r] = l.rows[r + (-n)]
        BY <1>4, <2>0, <2>2, <3>1
      <3> QED
        BY <1>5, <3>1, <3>2
    <2> QED
      BY <2>1, <2>2
  <1>8. /\ u.rows = [r \in 0 .. u.height - 1 |-> u.rows[r]]
        /\ d.rows = [r \in 0 .. d.height - 1 |-> d.rows[r]]
    BY <1>2, <1>3, <1>4
  <1> QED
    BY <1>2, <1>6, <1>7, <1>8 DEF RowsOn, Broken, Count, u, d

\* A window of the list l while a key moves something in it.
Kept(l, m) == Shape(m) /\ RowsOn(m) /\ m.items = l.items

LEMMA KeptUnlit ==
    ASSUME NEW l, ListOK(l), l.items # <<>>, RowsOn(l)
    PROVE  Kept(l, Unlit(l)) /\ ListOK(Unlit(l)) /\ SameWindow(l, Unlit(l))
  <1>1. Shape(l) /\ Numbers(l)
    BY Bounds
  <1>2. SameWindow(l, Unlit(l))
    BY <1>1, UnlitSame
  <1>3. Cursor(l) \in Int /\ Cursor(l) < Count(l)
    BY <1>1 DEF Numbers, Cursor
  <1>4. RowsOn(Unlit(l))
    BY <1>3, PrintOn DEF Unlit
  <1> QED
    BY <1>2, <1>4, SameIsOK DEF Kept, SameWindow

LEMMA KeptRow ==
    ASSUME NEW l, NEW a, Kept(l, a), NEW row
    PROVE  Kept(l, [a EXCEPT !.choice = row])
  <1> DEFINE m == [a EXCEPT !.choice = row]
  <1>1. Shape(m) /\ m.items = a.items /\ m.rows = a.rows /\ m.height = a.height /\ m.max = a.max
    BY DEF Kept, Shape, Fields
  <1> HIDE DEF m
  <1>2. Kept(l, m)
    BY <1>1 DEF Kept, RowsOn, Broken, Count
  <1> QED
    BY <1>2 DEF m

LEMMA KeptScrolled ==
    ASSUME NEW l, ListOK(l), l.items # <<>>, RowsOn(l), NEW n \in Nat, n <= l.max
    PROVE  /\ l.scroll + n + l.max <= Count(l) => Kept(l, ScrollUp(Unlit(l), n))
           /\ Kept(l, ScrollDown(Unlit(l), n))
  <1> DEFINE x == Unlit(l)
  <1>1. Kept(l, x) /\ ListOK(x) /\ SameWindow(l, x)
    BY KeptUnlit
  <1> HIDE DEF x
  <1>2. /\ x.scroll = l.scroll /\ x.max = l.max /\ Count(x) = Count(l) /\ Shape(x)
        /\ x.items = l.items /\ RowsOn(x)
    BY <1>1 DEF SameWindow, Kept, Count
  <1>3. /\ l.scroll + n + l.max <= Count(l) => RowsOn(ScrollUp(x, n))
        /\ RowsOn(ScrollDown(x, n))
    BY <1>1, <1>2, ScrollOn
  <1>4. /\ Shape(ScrollUp(x, n)) /\ ScrollUp(x, n).items = x.items
        /\ Shape(ScrollDown(x, n)) /\ ScrollDown(x, n).items = x.items
    BY <1>2, ScrollSame
  <1>5. /\ l.scroll + n + l.max <= Count(l) => Kept(l, ScrollUp(x, n))
        /\ Kept(l, ScrollDown(x, n))
    BY <1>2, <1>3, <1>4 DEF Kept
  <1> QED
    BY <1>5 DEF x

\* The highlight and the arrows are drawn.
LEMMA KeptDrawn ==
    ASSUME NEW l, l.items # <<>>, NEW m, Kept(l, m), ListOK(menu_arrows(Lit(m)))
    PROVE  RowsOn(menu_arrows(Lit(m)))
  <1> DEFINE n == Lit(m)
             a == menu_arrows(n)
  <1>1. SameWindow(m, a) /\ Shape(m)
    BY DrawnSame DEF Kept
  <1>2. SameWindow(m, n) /\ Shape(n)
    <2>1. SameWindow(m, n)
      BY <1>1, PrintSame DEF Lit
    <2> HIDE DEF n
    <2> QED
      BY <2>1 DEF SameWindow
  <1>3. ListOK(m) /\ m.items # <<>>
    <2>1. SameWindow(a, m)
      BY <1>1 DEF SameWindow
    <2> QED
      BY <2>1, SameIsOK DEF Kept
  <1>4. Cursor(m) \in Int /\ Cursor(m) < Count(m)
    BY <1>3, Bounds DEF Numbers, Cursor
  <1>5. RowsOn(n)
    BY <1>3, <1>4, PrintOn DEF Lit, Kept
  <1> HIDE DEF n
  <1>6. a.rows = n.rows /\ a.height = n.height /\ a.max = n.max /\ a.items = n.items
    BY <1>2 DEF menu_arrows, Shape, Fields
  <1> HIDE DEF a
  <1>7. RowsOn(a)
    BY <1>5, <1>6 DEF RowsOn, Broken, Count
  <1> QED
    BY <1>7 DEF a, n

\* Each key of a menu keeps items on the rows, whichever they are.
LEMMA MenuKeysOn ==
    ASSUME NEW l, ListOK(l), l.items # <<>>, RowsOn(l)
    PROVE  /\ RowsOn(MenuUp(l)) /\ RowsOn(MenuDown(l))
           /\ RowsOn(MenuPageUp(l)) /\ RowsOn(MenuPageDown(l))
  <1>0. Numbers(l) /\ 1 \in Nat /\ 1 <= l.max
    BY Bounds DEF Numbers
  <1>1. RowsOn(MenuUp(l))
    <2> DEFINE row == MAX(Unlit(l).choice - 1, 0)
               m == IF l.choice < 2 /\ l.scroll > 0 THEN ScrollDown(Unlit(l), 1)
                    ELSE [Unlit(l) EXCEPT !.choice = row]
    <2>1. MenuUp(l) = menu_arrows(Lit(m))
      BY DEF MenuUp
    <2> HIDE DEF row
    <2>2. Kept(l, ScrollDown(Unlit(l), 1)) /\ Kept(l, [Unlit(l) EXCEPT !.choice = row])
      BY <1>0, KeptScrolled, KeptUnlit, KeptRow
    <2>3. Kept(l, m)
      BY <2>2
    <2> HIDE DEF m
    <2> QED
      BY <2>1, <2>3, MenuUpOK, KeptDrawn DEF Moved
  <1>2. RowsOn(MenuDown(l))
    <2> DEFINE row == MIN(Unlit(l).choice + 1, l.max - 1)
               m == IF l.choice > l.max - 3 /\ l.scroll + l.max < Count(l)
                    THEN ScrollUp(Unlit(l), 1) ELSE [Unlit(l) EXCEPT !.choice = row]
    <2>1. MenuDown(l) = menu_arrows(Lit(m))
      BY DEF MenuDown
    <2> HIDE DEF row
    <2>2. l.scroll + l.max < Count(l) => l.scroll + 1 + l.max <= Count(l)
      BY <1>0 DEF Numbers
    <2>3. /\ l.scroll + l.max < Count(l) => Kept(l, ScrollUp(Unlit(l), 1))
          /\ Kept(l, [Unlit(l) EXCEPT !.choice = row])
      BY <1>0, <2>2, KeptScrolled, KeptUnlit, KeptRow
    <2>4. Kept(l, m)
      BY <2>3
    <2> HIDE DEF m
    <2> QED
      BY <2>1, <2>4, MenuDownOK, KeptDrawn DEF Moved
  <1>3. RowsOn(MenuPageUp(l))
    <2> DEFINE n == MIN(l.scroll, l.max)
               a == ScrollDown(Unlit(l), n)
               row == MAX(a.choice - (l.max - n), 0)
               m == [a EXCEPT !.choice = row]
    <2>1. MenuPageUp(l) = menu_arrows(Lit(m))
      BY DEF MenuPageUp
    <2> HIDE DEF row
    <2>2. n \in Nat /\ n <= l.max
      BY <1>0 DEF Numbers, MIN
    <2> HIDE DEF n
    <2>3. Kept(l, a)
      BY <2>2, KeptScrolled
    <2> HIDE DEF a
    <2>4. Kept(l, m)
      BY <2>3, KeptRow
    <2> HIDE DEF m
    <2> QED
      BY <2>1, <2>4, MenuPageUpOK, KeptDrawn DEF Moved
  <1>4. RowsOn(MenuPageDown(l))
    <2> DEFINE n == MIN(Count(l) - (l.scroll + l.max), l.max)
               a == ScrollUp(Unlit(l), n)
               row == MIN(a.choice + l.max - n, l.max - 1)
               m == [a EXCEPT !.choice = row]
    <2>1. MenuPageDown(l) = menu_arrows(Lit(m))
      BY DEF MenuPageDown
    <2> HIDE DEF row
    <2>2. n \in Nat /\ n <= l.max /\ l.scroll + n + l.max <= Count(l)
      BY <1>0 DEF Numbers, MIN
    <2> HIDE DEF n
    <2>3. Kept(l, a)
      BY <2>2, KeptScrolled
    <2> HIDE DEF a
    <2>4. Kept(l, m)
      BY <2>3, KeptRow
    <2> HIDE DEF m
    <2> QED
      BY <2>1, <2>4, MenuPageDownOK, KeptDrawn DEF Moved
  <1> QED
    BY <1>1, <1>2, <1>3, <1>4

LEMMA MenuHotkeyOn ==
    ASSUME NEW l, ListOK(l), l.items # <<>>, RowsOn(l), NEW c, Hits(l, c) # {}
    PROVE  RowsOn(MenuHotkey(l, c))
  <1> DEFINE after == {r \in Hits(l, c) : r > l.choice}
             row == Lowest(IF after # {} THEN after ELSE Hits(l, c))
             m == [Unlit(l) EXCEPT !.choice = row]
  <1>1. MenuHotkey(l, c) = menu_arrows(Lit(m))
    BY DEF MenuHotkey
  <1> HIDE DEF row
  <1>2. Kept(l, m)
    BY KeptUnlit, KeptRow
  <1> HIDE DEF m
  <1> QED
    BY <1>1, <1>2, MenuHotkeyOK, KeptDrawn DEF Moved

\* A menu that is drawn runs off the list only when its window begins at the
\* top and the item it is printed from does not.
LEMMA MenuDrawOn ==
    ASSUME NEW l, Shape(l), Count(l) \in Nat, l.items = <<>> <=> Count(l) = 0,
           l.choice \in Int, Count(l) > 0 => l.choice \in 0 .. Count(l) - 1,
           Count(l) = 0 => l.choice = 0,
           NEW n \in Nat, MenuFits(n), NEW data, NEW saved \in Int
    PROVE  LET m == MenuDraw(l, n, data, saved) IN
           RowsOn(m) \/ (m.scroll = 0 /\ m.first # 0)
  <1> DEFINE h == MenuHeight(n)
             s == Sized(l, h)
             c == DefaultItem(l.items, data, l.choice)
             p == MenuPlace(s, c, saved)
             q == PrintAll(p, p.first)
             m == menu_arrows(q)
  <1>1. m = MenuDraw(l, n, data, saved)
    BY DEF MenuDraw
  <1>2. ListOK(m)
    BY <1>1, MenuDrawOK DEF Drawn
  <1>3. Shape(s) /\ s.max = MIN(h, Count(l)) /\ h \in Nat
    BY SizedIs DEF MenuHeight, MenuFits, MENUBOX_HEIGTH_MIN
  <1>4. c \in Int /\ s.max \in Int
    BY <1>3, DefaultIn DEF Count, MIN
  <1> HIDE DEF h, s, c
  <1>5. Shape(p) /\ (p.first = p.scroll \/ p.scroll = 0)
    <2> DEFINE fits == Fits(saved, c, s.max, Count(s))
               top == IF fits THEN saved ELSE Middle(c, s.max, Count(s))
    <2>1. ~(fits \/ c >= s.max) => top = 0
      BY <1>4 DEF Middle
    <2> HIDE DEF fits, top
    <2>2. p = [s EXCEPT !.scroll = top, !.choice = c - top,
                        !.first = IF fits \/ c >= s.max THEN top ELSE @]
      BY DEF MenuPlace, fits, top
    <2>3. Shape(p) /\ p.scroll = top /\ p.first = IF fits \/ c >= s.max THEN top ELSE s.first
      BY <1>3, <2>2 DEF Shape, Fields
    <2> QED
      BY <2>1, <2>3
  <1> HIDE DEF p
  <1>6. SameWindow(p, q) /\ q.first = p.first
    BY <1>5, PrintAllSame DEF PrintAll, Shape, Fields
  <1>7. SameWindow(q, m) /\ m.first = q.first /\ m.rows = q.rows
    BY <1>6, ArrowsSame DEF SameWindow, menu_arrows, Shape, Fields
  <1>8. SameWindow(p, m) /\ m.first = p.first /\ SameWindow(m, p)
    BY <1>5, <1>6, <1>7 DEF SameWindow
  <1>9. CASE p.first = p.scroll
    <2>1. ListOK(p)
      BY <1>2, <1>8, SameIsOK
    <2>2. OnScreen(m)
      BY <1>9, <2>1, PrintedShown
    <2>3. RowsOn(m)
      BY <1>2, <2>2, ShownIsOn DEF OnScreen
    <2> QED
      BY <1>1, <2>3
  <1>10. CASE p.first # p.scroll
    <2>1. m.scroll = 0 /\ m.first # 0
      BY <1>5, <1>8, <1>10 DEF SameWindow
    <2> QED
      BY <1>1, <2>1
  <1> QED
    BY <1>9, <1>10

\* The rows of a menu that is drawn are those of its window on the screen.
LEMMA MenuDrawRows ==
    ASSUME NEW l, Shape(l), NEW n, NEW data, NEW saved
    PROVE  LET m == MenuDraw(l, n, data, saved) IN
           ~Broken(m) => RowsOn(m)
  <1> DEFINE s == Sized(l, MenuHeight(n))
             c == DefaultItem(l.items, data, l.choice)
             p == MenuPlace(s, c, saved)
             q == PrintAll(p, p.first)
             m == menu_arrows(q)
  <1>1. m = MenuDraw(l, n, data, saved)
    BY DEF MenuDraw
  <1>2. Shape(p)
    <2>1. Shape(s)
      BY SizedIs
    <2> HIDE DEF s, c
    <2> QED
      BY <2>1, PlaceIs DEF SameList
  <1> HIDE DEF p
  <1>3. q.rows = [r \in 0 .. p.height - 1 |-> IF r < p.max THEN p.first + r ELSE Nothing]
        /\ q.height = p.height /\ Shape(q)
    BY <1>2 DEF PrintAll, Shape, Fields
  <1> HIDE DEF q
  <1>4. m.rows = q.rows /\ m.height = q.height
    BY <1>3 DEF menu_arrows, Shape, Fields
  <1>5. m.rows = [r \in 0 .. m.height - 1 |-> m.rows[r]]
    BY <1>3, <1>4
  <1> QED
    BY <1>1, <1>5 DEF RowsOn

-----------------------------------------------------------------------------
(***************************************************************************)
(* Loops.                                                                  *)
(***************************************************************************)

\* The numbers up to n, one after the other.
LEMMA UpTo ==
    ASSUME NEW n \in Nat, NEW S, 0 \in S, \A i \in 0 .. n - 1 : i \in S => i + 1 \in S
    PROVE  0 .. n \subseteq S
  <1> SUFFICES ASSUME (0 .. n) \ S # {} PROVE FALSE
    OBVIOUS
  <1> DEFINE D == (0 .. n) \ S
  <1>1. D \in SUBSET Nat /\ D # {}
    OBVIOUS
  <1>2. \E m \in D : \A i \in D : m <= i
    BY <1>1, LeastExists
  <1>3. PICK m \in D : \A i \in D : m <= i
    BY <1>2
  <1>4. m # 0 /\ m - 1 \in 0 .. n - 1
    BY <1>3
  <1>5. m - 1 \in S
    BY <1>3, <1>4
  <1>6. m - 1 + 1 \in S
    BY <1>4, <1>5
  <1> QED
    BY <1>3, <1>4, <1>6

\* What a loop leaves after each round.
Rounds(f, g, s, n) == f[0] = s /\ \A i \in 1 .. n : f[i] = g[f[i - 1]]

\* A loop can be run: there is a function of the number of rounds.
LEMMA Iterates ==
    ASSUME NEW S, NEW g \in [S -> S], NEW s \in S, NEW n \in Nat
    PROVE  \E f \in [0 .. n -> S] : Rounds(f, g, s, n)
  <1> DEFINE D == {m \in 0 .. n : \E f \in [0 .. m -> S] : Rounds(f, g, s, m)}
  <1>1. 0 \in D
    <2> DEFINE f == [i \in 0 .. 0 |-> s]
    <2>1. f \in [0 .. 0 -> S] /\ f[0] = s
      OBVIOUS
    <2>2. 1 .. 0 = {}
      OBVIOUS
    <2> HIDE DEF f
    <2>3. Rounds(f, g, s, 0)
      BY <2>1, <2>2 DEF Rounds
    <2> QED
      BY <2>1, <2>3
  <1>2. ASSUME NEW m \in 0 .. n - 1, m \in D PROVE m + 1 \in D
    <2>1. PICK f \in [0 .. m -> S] : Rounds(f, g, s, m)
      BY <1>2
    <2> DEFINE h == [i \in 0 .. m + 1 |-> IF i = m + 1 THEN g[f[m]] ELSE f[i]]
    <2>2. h \in [0 .. m + 1 -> S]
      OBVIOUS
    <2>3. h[0] = s
      BY <2>1 DEF Rounds
    <2>4. ASSUME NEW i \in 1 .. m + 1 PROVE h[i] = g[h[i - 1]]
      <3>1. i - 1 \in 0 .. m /\ h[i - 1] = f[i - 1]
        OBVIOUS
      <3>2. CASE i = m + 1
        <4>1. h[i] = g[f[m]]
          BY <3>2
        <4> QED
          BY <3>1, <3>2, <4>1
      <3>3. CASE i # m + 1
        <4>1. i \in 1 .. m /\ h[i] = f[i]
          BY <3>3
        <4>2. f[i] = g[f[i - 1]]
          BY <2>1, <4>1 DEF Rounds
        <4> QED
          BY <3>1, <4>1, <4>2
      <3> QED
        BY <3>2, <3>3
    <2>5. m + 1 \in 0 .. n
      OBVIOUS
    <2> HIDE DEF h
    <2>6. Rounds(h, g, s, m + 1)
      BY <2>3, <2>4 DEF Rounds
    <2> QED
      BY <2>2, <2>5, <2>6
  <1>3. n \in D
    <2> HIDE DEF D
    <2>1. 0 .. n \subseteq D
      BY <1>1, <1>2, UpTo
    <2> QED
      BY <2>1
  <1> QED
    BY <1>3

-----------------------------------------------------------------------------
\* The places of a text where a line begins; the end of a text that ends with
\* a newline is one of them.
Starts(text) == {p \in 0 .. Len(text) : p = 0 \/ text[p] = NL}
\* The number of lines.
Lines(text) == LineAt(text, Len(text))
WholeText(text) == text \in Seq(STRING) /\ text # <<>> /\ text[Len(text)] = NL

\* The number of a line is a number.
LEMMA EndsFinite ==
    ASSUME NEW text \in Seq(STRING), NEW p \in 0 .. Len(text)
    PROVE  IsFiniteSet(Ends(text, 0, p - 1)) /\ LineAt(text, p) \in Nat
  <1>1. Ends(text, 0, p - 1) \subseteq 0 .. p - 1
    BY DEF Ends
  <1>2. IsFiniteSet(0 .. p - 1)
    BY FS_Interval
  <1>3. IsFiniteSet(Ends(text, 0, p - 1))
    BY <1>1, <1>2, FS_Subset
  <1> QED
    BY <1>3, FS_CardinalityType DEF LineAt

\* The first line begins at the first place, and is line 0.
LEMMA FirstLine ==
    ASSUME NEW text \in Seq(STRING)
    PROVE  0 \in Starts(text) /\ LineAt(text, 0) = 0
  <1>1. Ends(text, 0, 0 - 1) = {}
    BY DEF Ends
  <1>2. LineAt(text, 0) = 0
    BY <1>1, FS_EmptySet, Zenon DEF LineAt
  <1> QED
    BY <1>2 DEF Starts

\* Two lines one after the other.
LEMMA NextRow ==
    ASSUME NEW text \in Seq(STRING), NEW p \in Starts(text), NEW q \in Starts(text),
           p < q, \A i \in p .. q - 2 : text[i + 1] # NL
    PROVE  LineAt(text, q) = LineAt(text, p) + 1
  <1>1. p \in 0 .. Len(text) /\ q \in 1 .. Len(text) /\ text[q] = NL
    BY DEF Starts
  <1>2. Ends(text, 0, q - 1) = Ends(text, 0, p - 1) \union {q - 1}
    <2>1. q - 1 \in Ends(text, 0, q - 1)
      BY <1>1 DEF Ends
    <2>2. Ends(text, 0, p - 1) \subseteq Ends(text, 0, q - 1)
      BY <1>1 DEF Ends
    <2>3. ASSUME NEW i \in Ends(text, 0, q - 1), i # q - 1
          PROVE  i \in Ends(text, 0, p - 1)
      <3>1. i \in 0 .. q - 2 /\ i < Len(text) /\ text[i + 1] = NL
        BY <1>1, <2>3 DEF Ends
      <3>2. i \notin p .. q - 2
        BY <3>1
      <3>3. i \in 0 .. p - 1
        BY <1>1, <3>1, <3>2
      <3> QED
        BY <3>1, <3>3 DEF Ends
    <2> QED
      BY <2>1, <2>2, <2>3
  <1>3. q - 1 \notin Ends(text, 0, p - 1)
    BY <1>1 DEF Ends
  <1>4. IsFiniteSet(Ends(text, 0, p - 1))
    BY <1>1, EndsFinite
  <1> QED
    BY <1>2, <1>3, <1>4, FS_AddElement DEF LineAt

\* The lines are in the order of their places.
LEMMA RowLess ==
    ASSUME NEW text \in Seq(STRING), NEW p \in Starts(text), NEW q \in Starts(text), p < q
    PROVE  LineAt(text, p) < LineAt(text, q)
  <1>1. p \in 0 .. Len(text) /\ q \in 1 .. Len(text) /\ text[q] = NL
    BY DEF Starts
  <1>2. Ends(text, 0, p - 1) \subseteq Ends(text, 0, q - 1)
    BY <1>1 DEF Ends
  <1>3. q - 1 \in Ends(text, 0, q - 1) /\ q - 1 \notin Ends(text, 0, p - 1)
    BY <1>1 DEF Ends
  <1>4. IsFiniteSet(Ends(text, 0, q - 1)) /\ LineAt(text, p) \in Nat /\ LineAt(text, q) \in Nat
    BY <1>1, EndsFinite
  <1>5. LineAt(text, p) <= LineAt(text, q) /\ LineAt(text, p) # LineAt(text, q)
    BY <1>2, <1>3, <1>4, FS_Subset DEF LineAt
  <1> QED
    BY <1>4, <1>5

\* A line begins at one place.
LEMMA RowOnce ==
    ASSUME NEW text \in Seq(STRING), NEW p \in Starts(text), NEW q \in Starts(text),
           LineAt(text, p) = LineAt(text, q)
    PROVE  p = q
  <1>1. p \in Int /\ q \in Int /\ LineAt(text, p) \in Nat
    BY EndsFinite DEF Starts
  <1> QED
    BY <1>1, RowLess

\* The end of a text is the beginning of the line behind the last one.
LEMMA LastRow ==
    ASSUME NEW text, WholeText(text), NEW p \in Starts(text)
    PROVE  /\ Len(text) \in Starts(text) /\ Lines(text) \in Nat \ {0}
           /\ LineAt(text, p) \in 0 .. Lines(text)
           /\ LineAt(text, p) = Lines(text) <=> p = Len(text)
           /\ LineAt(text, p) = 0 <=> p = 0
  <1>1. text \in Seq(STRING) /\ Len(text) \in Nat \ {0} /\ text[Len(text)] = NL
    BY DEF WholeText
  <1>2. Len(text) \in Starts(text) /\ p \in 0 .. Len(text)
    BY <1>1 DEF Starts
  <1>3. 0 \in Starts(text) /\ LineAt(text, 0) = 0
    BY <1>1, FirstLine
  <1>4. LineAt(text, p) \in Nat /\ Lines(text) \in Nat
    BY <1>1, <1>2, EndsFinite DEF Lines
  <1>5. 0 < Lines(text)
    BY <1>1, <1>2, <1>3, RowLess DEF Lines
  <1>6. p < Len(text) => LineAt(text, p) < Lines(text)
    BY <1>1, <1>2, RowLess DEF Lines
  <1>7. 0 < p => 0 < LineAt(text, p)
    BY <1>1, <1>3, RowLess
  <1>8. p = Len(text) => LineAt(text, p) = Lines(text)
    BY DEF Lines
  <1>9. p \in Int /\ p <= Len(text) /\ 0 <= p
    BY <1>2
  <1> QED
    BY <1>1, <1>2, <1>3, <1>4, <1>5, <1>6, <1>7, <1>8, <1>9

-----------------------------------------------------------------------------
\* A text box on a text, its page at the beginning of a line.
TextBox(text) ==
    [text : {text}, page : Starts(text), begin_reached : BOOLEAN,
     end_reached : BOOLEAN, page_length : Nat, top : Starts(text)]

Row(s) == LineAt(s.text, s.page)
\* The end counts as a line of its own once it has been reached.
Spot(s) == IF s.page = Len(s.text) /\ s.end_reached THEN Row(s) + 1 ELSE Row(s)

SamePage(s, a) == a.top = s.top /\ a.page_length = s.page_length

\* get_line goes to the next line, and finds the end when there is none.
LEMMA GetLine ==
    ASSUME NEW text, WholeText(text), NEW s \in TextBox(text)
    PROVE  LET a == get_line(s) IN
           /\ a \in TextBox(text) /\ SamePage(s, a) /\ a.begin_reached = s.begin_reached
           /\ Row(a) = IF Row(s) = Lines(text) THEN Lines(text) ELSE Row(s) + 1
           /\ a.end_reached = (Row(s) = Lines(text))
  <1> DEFINE a == get_line(s)
             ends == Ends(text, s.page, Len(text) - 1)
  <1>1. text \in Seq(STRING) /\ Len(text) \in Nat \ {0} /\ text[Len(text)] = NL
    BY DEF WholeText
  <1>2. s.text = text /\ s.page \in Starts(text) /\ s.page \in 0 .. Len(text)
    BY <1>1 DEF TextBox, Starts
  <1>3. Len(text) \in Starts(text)
    BY LastRow, <1>2
  <1>4. a = [s EXCEPT !.page = IF ends = {} THEN Len(text) ELSE Least(ends) + 1,
                      !.end_reached = ends = {}]
    BY <1>2, Zenon DEF get_line
  <1>5. CASE ends = {}
    <2>1. s.page = Len(text)
      <3>1. Len(text) - 1 \notin ends
        BY <1>5
      <3> QED
        BY <1>1, <1>2, <3>1 DEF Ends
    <2>2. a = [s EXCEPT !.page = Len(text), !.end_reached = TRUE]
      BY <1>4, <1>5, Zenon
    <2>3. a \in TextBox(text) /\ SamePage(s, a) /\ a.begin_reached = s.begin_reached
          /\ a.text = text /\ a.page = Len(text) /\ a.end_reached = TRUE
      BY <1>3, <2>2 DEF TextBox, SamePage
    <2>4. Row(a) = Lines(text) /\ Row(s) = Lines(text)
      BY <1>2, <2>1, <2>3, Zenon DEF Row, Lines
    <2> QED
      BY <2>3, <2>4
  <1>6. CASE ends # {}
    <2> DEFINE q == Least(ends) + 1
    <2>1. ends \in SUBSET Nat
      BY <1>1, <1>2 DEF Ends
    <2>2. Least(ends) \in ends /\ \A j \in ends : Least(ends) <= j
      <3>1. \E i \in ends : \A j \in ends : i <= j
        BY <1>6, <2>1, LeastExists
      <3> QED
        BY <3>1, Zenon DEF Least
    <2>3. Least(ends) \in s.page .. Len(text) - 1 /\ Least(ends) < Len(text)
          /\ text[Least(ends) + 1] = NL
      BY <2>2 DEF Ends
    <2>4. \A i \in s.page .. Least(ends) - 1 : text[i + 1] # NL
      <3> SUFFICES ASSUME NEW i \in s.page .. Least(ends) - 1, text[i + 1] = NL PROVE FALSE
        OBVIOUS
      <3>1. i \in s.page .. Len(text) - 1 /\ i < Len(text)
        BY <1>1, <1>2, <2>3
      <3>2. i \in ends
        BY <3>1 DEF Ends
      <3> QED
        BY <1>2, <2>2, <2>3, <3>2
    <2>5. a = [s EXCEPT !.page = q, !.end_reached = FALSE]
      BY <1>4, <1>6, Zenon
    <2> HIDE DEF ends
    <2>6. q \in Starts(text) /\ s.page < q
      BY <1>1, <1>2, <2>3 DEF Starts
    <2>7. \A i \in s.page .. q - 2 : text[i + 1] # NL
      <3>1. q - 2 = Least(ends) - 1
        BY <1>2, <2>3
      <3> QED
        BY <2>4, <3>1
    <2> HIDE DEF q
    <2>8. LineAt(text, q) = LineAt(text, s.page) + 1
      BY <1>1, <1>2, <2>6, <2>7, NextRow
    <2>9. a \in TextBox(text) /\ SamePage(s, a) /\ a.begin_reached = s.begin_reached
          /\ a.text = text /\ a.page = q /\ a.end_reached = FALSE
      BY <2>5, <2>6 DEF TextBox, SamePage
    <2>10. Row(a) = Row(s) + 1
      BY <1>2, <2>8, <2>9 DEF Row
    <2>11. Row(s) # Lines(text)
      <3>1. Row(a) \in 0 .. Lines(text) /\ Row(s) \in 0 .. Lines(text)
        BY <1>2, <2>6, <2>9, LastRow DEF Row
      <3> QED
        BY <2>10, <3>1
    <2> QED
      BY <2>9, <2>10, <2>11
  <1> QED
    BY <1>5, <1>6

\* A set of numbers below a bound has a greatest one.
LEMMA GreatestIn ==
    ASSUME NEW n \in Nat, NEW S \in SUBSET (0 .. n), S # {}
    PROVE  Greatest(S) \in S /\ \A j \in S : j <= Greatest(S)
  <1> DEFINE R == {n - i : i \in S}
  <1>1. R \in SUBSET Nat /\ R # {}
    <2>1. \A i \in S : i \in Int /\ n - i \in Nat
      OBVIOUS
    <2> QED
      BY <2>1
  <1>2. \E r \in R : \A i \in R : r <= i
    BY <1>1, LeastExists
  <1>3. PICK i \in S : \A j \in S : n - i <= n - j
    BY <1>2
  <1>4. \A j \in S : j <= i
    BY <1>3
  <1> QED
    BY <1>4, Zenon DEF Greatest

\* A round of back_lines goes one spot back.
LEMMA BackOne ==
    ASSUME NEW text, WholeText(text), NEW s \in TextBox(text)
    PROVE  LET b == LineBack(s) IN
           /\ b \in TextBox(text) /\ SamePage(s, b)
           /\ Spot(b) = IF Spot(s) = 0 THEN 0 ELSE Spot(s) - 1
           /\ b.begin_reached = IF Spot(b) = 0 THEN TRUE ELSE s.begin_reached
  <1> DEFINE b == LineBack(s)
             ends == Ends(text, 0, s.page - 2)
  <1>1. text \in Seq(STRING) /\ Len(text) \in Nat \ {0} /\ text[Len(text)] = NL
    BY DEF WholeText
  <1>2. s.text = text /\ s.page \in Starts(text) /\ s.page \in 0 .. Len(text)
    BY <1>1 DEF TextBox, Starts
  <1>3. Row(s) \in 0 .. Lines(text) /\ (Row(s) = Lines(text) <=> s.page = Len(text))
        /\ (Row(s) = 0 <=> s.page = 0) /\ Lines(text) \in Nat \ {0}
    BY <1>2, LastRow DEF Row
  <1>4. b = IF s.page = Len(text) /\ s.end_reached THEN [s EXCEPT !.end_reached = FALSE]
            ELSE IF ends = {} THEN [s EXCEPT !.page = 0, !.begin_reached = TRUE]
            ELSE [s EXCEPT !.page = Greatest(ends) + 1]
    BY <1>2, Zenon DEF LineBack
  <1>5. CASE s.page = Len(text) /\ s.end_reached
    <2>1. b = [s EXCEPT !.end_reached = FALSE]
      BY <1>4, <1>5, Zenon
    <2>2. b \in TextBox(text) /\ SamePage(s, b) /\ b.begin_reached = s.begin_reached
          /\ b.text = text /\ b.page = s.page /\ b.end_reached = FALSE
      BY <1>2, <2>1 DEF TextBox, SamePage
    <2>3. Spot(s) = Lines(text) + 1 /\ Spot(b) = Lines(text)
      BY <1>2, <1>3, <1>5, <2>2 DEF Spot, Row
    <2> QED
      BY <1>3, <2>2, <2>3
  <1>6. CASE ~(s.page = Len(text) /\ s.end_reached) /\ ends = {}
    <2>1. b = [s EXCEPT !.page = 0, !.begin_reached = TRUE]
      BY <1>4, <1>6, Zenon
    <2>2. 0 \in Starts(text) /\ LineAt(text, 0) = 0
      BY <1>1, FirstLine
    <2>3. b \in TextBox(text) /\ SamePage(s, b) /\ b.begin_reached = TRUE
          /\ b.text = text /\ b.page = 0
      BY <2>1, <2>2 DEF TextBox, SamePage
    <2>4. Spot(b) = 0
      BY <1>1, <2>2, <2>3 DEF Spot, Row
    <2>5. Spot(s) = Row(s)
      BY <1>2, <1>6 DEF Spot
    <2>6. s.page = 0 \/ Row(s) = 1
      <3> SUFFICES ASSUME 0 < s.page PROVE Row(s) = 1
        BY <1>2
      <3>1. \A i \in 0 .. s.page - 2 : text[i + 1] # NL
        BY <1>1, <1>2, <1>6 DEF Ends
      <3>2. LineAt(text, s.page) = LineAt(text, 0) + 1
        BY <1>1, <1>2, <2>2, <3>1, NextRow
      <3> QED
        BY <1>2, <2>2, <3>2 DEF Row
    <2>7. Spot(s) = 0 \/ Spot(s) = 1
      BY <1>3, <2>5, <2>6
    <2>8. Spot(b) = IF Spot(s) = 0 THEN 0 ELSE Spot(s) - 1
      BY <2>4, <2>7
    <2> HIDE DEF b
    <2> QED
      BY <2>3, <2>4, <2>8 DEF b
  <1>7. CASE ~(s.page = Len(text) /\ s.end_reached) /\ ends # {}
    <2> DEFINE q == Greatest(ends) + 1
    <2>1. ends \in SUBSET (0 .. Len(text))
      BY <1>1, <1>2 DEF Ends
    <2>2. Greatest(ends) \in ends /\ \A j \in ends : j <= Greatest(ends)
      BY <1>1, <1>7, <2>1, GreatestIn
    <2>3. Greatest(ends) \in 0 .. s.page - 2 /\ Greatest(ends) < Len(text)
          /\ text[Greatest(ends) + 1] = NL
      BY <2>2 DEF Ends
    <2>4. \A i \in Greatest(ends) + 1 .. s.page - 2 : text[i + 1] # NL
      <3> SUFFICES ASSUME NEW i \in Greatest(ends) + 1 .. s.page - 2, text[i + 1] = NL
                   PROVE  FALSE
        OBVIOUS
      <3>1. i \in 0 .. s.page - 2 /\ i < Len(text)
        BY <1>1, <1>2, <2>3
      <3>2. i \in ends
        BY <3>1 DEF Ends
      <3> QED
        BY <1>2, <2>2, <2>3, <3>2
    <2>5. b = [s EXCEPT !.page = q]
      BY <1>4, <1>7, Zenon
    <2> HIDE DEF ends
    <2>6. q \in Starts(text) /\ 0 < q /\ q < s.page
      BY <1>1, <1>2, <2>3 DEF Starts
    <2>7. \A i \in q .. s.page - 2 : text[i + 1] # NL
      BY <2>4
    <2> HIDE DEF q
    <2>8. LineAt(text, s.page) = LineAt(text, q) + 1
      BY <1>1, <1>2, <2>6, <2>7, NextRow
    <2>9. b \in TextBox(text) /\ SamePage(s, b) /\ b.begin_reached = s.begin_reached
          /\ b.text = text /\ b.page = q /\ b.end_reached = s.end_reached
      BY <2>5, <2>6 DEF TextBox, SamePage
    <2>10. Row(s) = Row(b) + 1 /\ Row(b) \in Nat /\ Row(b) # 0
      <3>1. LineAt(text, q) \in Nat /\ LineAt(text, q) # 0
        BY <1>1, <2>6, LastRow
      <3> QED
        BY <1>2, <2>8, <2>9, <3>1 DEF Row
    <2>11. Spot(s) = Row(s) /\ Spot(b) = Row(b)
      BY <1>1, <1>2, <1>7, <2>6, <2>9 DEF Spot
    <2> QED
      BY <2>9, <2>10, <2>11
  <1> QED
    BY <1>5, <1>6, <1>7

-----------------------------------------------------------------------------
\* The loops of a text box, as functions of the rounds.
GetRounds(f, s, n) ==
    /\ f[0] = s /\ Times(get_line, n, s) = f[n]
    /\ \A i \in 1 .. n : f[i] = get_line(f[i - 1])
BackRounds(f, s, n) ==
    /\ f[0] = s /\ Times(BackStep, n, s) = f[n]
    /\ \A i \in 1 .. n : f[i] = BackStep(f[i - 1])
PrintRounds(f, s, n) ==
    /\ f[0] = s /\ Times(print_line, n, s) = f[n]
    /\ \A i \in 1 .. n : f[i] = print_line(f[i - 1])

\* A loop of get_line, with what every round keeps.
LEMMA GetLoop ==
    ASSUME NEW S, \A b \in S : get_line(b) \in S, NEW s \in S, NEW n \in Nat \ {0}
    PROVE  \E f : GetRounds(f, s, n) /\ \A i \in 0 .. n : f[i] \in S
  <1> DEFINE g == [b \in S |-> get_line(b)]
             Eq(f) == f = [i \in 0 .. n |-> IF i = 0 THEN s ELSE get_line(f[i - 1])]
  <1>1. g \in [S -> S] /\ \A b \in S : g[b] = get_line(b)
    OBVIOUS
  <1> HIDE DEF g
  <1>2. n \in Nat
    OBVIOUS
  <1>3. \E f \in [0 .. n -> S] : Rounds(f, g, s, n)
    BY <1>1, <1>2, Iterates
  <1>4. PICK f \in [0 .. n -> S] : f[0] = s /\ \A i \in 1 .. n : f[i] = g[f[i - 1]]
    BY <1>3 DEF Rounds
  <1>5. \A i \in 1 .. n : f[i] = get_line(f[i - 1])
    <2> TAKE i \in 1 .. n
    <2>1. f[i - 1] \in S
      BY <1>4
    <2> QED
      BY <1>1, <1>4, <2>1
  <1>6. Eq(f)
    BY <1>4, <1>5
  <1>7. PICK h : Times(get_line, n, s) = h[n] /\ Eq(h)
    <2>1. Eq(CHOOSE h : Eq(h))
      BY <1>6, Zenon
    <2>2. Times(get_line, n, s) = (CHOOSE h : Eq(h))[n]
      BY DEF Times
    <2> QED
      BY <2>1, <2>2, Zenon
  <1>8. \A i \in 0 .. n : h[i] = IF i = 0 THEN s ELSE get_line(h[i - 1])
    BY <1>7
  <1>9. \A i \in 0 .. n : h[i] \in S
    <2> DEFINE D == {i \in 0 .. n : h[i] \in S}
    <2>1. 0 \in D /\ \A i \in 0 .. n - 1 : i \in D => i + 1 \in D
      BY <1>8
    <2> HIDE DEF D
    <2>2. 0 .. n \subseteq D
      BY <1>2, <2>1, UpTo
    <2> QED
      BY <2>2 DEF D
  <1>10. GetRounds(h, s, n)
    BY <1>7, <1>8 DEF GetRounds
  <1> QED
    BY <1>9, <1>10

\* One round of back_lines.
LEMMA BackRound ==
    ASSUME NEW text, WholeText(text), NEW s \in TextBox(text)
    PROVE  LET b == BackStep(s) IN
           /\ b \in TextBox(text) /\ SamePage(s, b)
           /\ s.begin_reached => b = s
           /\ ~s.begin_reached =>
                  /\ Spot(b) = IF Spot(s) = 0 THEN 0 ELSE Spot(s) - 1
                  /\ b.begin_reached = IF Spot(b) = 0 THEN TRUE ELSE FALSE
  <1>1. CASE s.begin_reached
    <2>1. BackStep(s) = s
      BY <1>1, Zenon DEF BackStep
    <2>2. s.begin_reached = TRUE
      BY <1>1 DEF TextBox
    <2> QED
      BY <1>1, <2>1, <2>2, Zenon DEF SamePage
  <1>2. CASE ~s.begin_reached
    <2>1. BackStep(s) = LineBack(s)
      BY <1>2, Zenon DEF BackStep
    <2>2. s.begin_reached = FALSE
      BY <1>2 DEF TextBox
    <2> QED
      BY <1>2, <2>1, <2>2, BackOne
  <1> QED
    BY <1>1, <1>2

\* A loop of back_lines, with what every round keeps.
LEMMA BackLoop ==
    ASSUME NEW S, \A b \in S : BackStep(b) \in S, NEW s \in S, NEW n \in Nat \ {0}
    PROVE  \E f : BackRounds(f, s, n) /\ \A i \in 0 .. n : f[i] \in S
  <1> DEFINE g == [b \in S |-> BackStep(b)]
             Eq(f) == f = [i \in 0 .. n |-> IF i = 0 THEN s ELSE BackStep(f[i - 1])]
  <1>1. g \in [S -> S] /\ \A b \in S : g[b] = BackStep(b)
    OBVIOUS
  <1> HIDE DEF g
  <1>2. n \in Nat
    OBVIOUS
  <1>3. \E f \in [0 .. n -> S] : Rounds(f, g, s, n)
    BY <1>1, <1>2, Iterates
  <1>4. PICK f \in [0 .. n -> S] : f[0] = s /\ \A i \in 1 .. n : f[i] = g[f[i - 1]]
    BY <1>3 DEF Rounds
  <1>5. \A i \in 1 .. n : f[i] = BackStep(f[i - 1])
    <2> TAKE i \in 1 .. n
    <2>1. f[i - 1] \in S
      BY <1>4
    <2> QED
      BY <1>1, <1>4, <2>1
  <1>6. Eq(f)
    BY <1>4, <1>5
  <1>7. PICK h : Times(BackStep, n, s) = h[n] /\ Eq(h)
    <2>1. Eq(CHOOSE h : Eq(h))
      BY <1>6, Zenon
    <2>2. Times(BackStep, n, s) = (CHOOSE h : Eq(h))[n]
      BY DEF Times
    <2> QED
      BY <2>1, <2>2, Zenon
  <1>8. \A i \in 0 .. n : h[i] = IF i = 0 THEN s ELSE BackStep(h[i - 1])
    BY <1>7
  <1>9. \A i \in 0 .. n : h[i] \in S
    <2> DEFINE D == {i \in 0 .. n : h[i] \in S}
    <2>1. 0 \in D /\ \A i \in 0 .. n - 1 : i \in D => i + 1 \in D
      BY <1>8
    <2> HIDE DEF D
    <2>2. 0 .. n \subseteq D
      BY <1>2, <2>1, UpTo
    <2> QED
      BY <2>2 DEF D
  <1>10. BackRounds(h, s, n)
    BY <1>7, <1>8 DEF BackRounds
  <1> QED
    BY <1>9, <1>10

\* One round of print_page.
LEMMA PrintLine ==
    ASSUME NEW text, WholeText(text), NEW s \in TextBox(text)
    PROVE  LET a == print_line(s) IN
           /\ a \in TextBox(text) /\ a.top = s.top /\ a.begin_reached = s.begin_reached
           /\ Row(a) = IF Row(s) = Lines(text) THEN Lines(text) ELSE Row(s) + 1
           /\ a.end_reached = (Row(s) = Lines(text))
           /\ a.page_length = IF s.end_reached /\ s.page_length > 0 THEN s.page_length
                              ELSE s.page_length + 1
  <1> DEFINE after == get_line(s)
  <1>1. /\ after \in TextBox(text) /\ SamePage(s, after)
        /\ after.begin_reached = s.begin_reached
        /\ Row(after) = IF Row(s) = Lines(text) THEN Lines(text) ELSE Row(s) + 1
        /\ after.end_reached = (Row(s) = Lines(text))
    BY GetLine
  <1>2. print_line(s) = IF s.end_reached /\ s.page_length > 0 THEN after
                        ELSE [after EXCEPT !.page_length = @ + 1]
    BY Zenon DEF print_line
  <1> HIDE DEF after
  <1>3. CASE s.end_reached /\ s.page_length > 0
    <2>1. print_line(s) = after
      BY <1>2, <1>3, Zenon
    <2> QED
      BY <1>1, <1>3, <2>1 DEF SamePage
  <1>4. CASE ~(s.end_reached /\ s.page_length > 0)
    <2> DEFINE a == print_line(s)
    <2>1. a = [after EXCEPT !.page_length = after.page_length + 1]
      BY <1>2, <1>4, Zenon
    <2> HIDE DEF a
    <2>2. a \in TextBox(text) /\ a.top = s.top /\ a.begin_reached = s.begin_reached
          /\ a.text = after.text /\ a.page = after.page /\ a.end_reached = after.end_reached
          /\ a.page_length = s.page_length + 1
      BY <1>1, <2>1 DEF TextBox, SamePage
    <2>3. Row(a) = Row(after)
      BY <2>2, Zenon DEF Row
    <2> QED
      BY <1>1, <1>4, <2>2, <2>3 DEF a
  <1> QED
    BY <1>3, <1>4

\* A loop of print_line, with what every round keeps.
LEMMA PrintLoop ==
    ASSUME NEW S, \A b \in S : print_line(b) \in S, NEW s \in S, NEW n \in Nat \ {0}
    PROVE  \E f : PrintRounds(f, s, n) /\ \A i \in 0 .. n : f[i] \in S
  <1> DEFINE g == [b \in S |-> print_line(b)]
             Eq(f) == f = [i \in 0 .. n |-> IF i = 0 THEN s ELSE print_line(f[i - 1])]
  <1>1. g \in [S -> S] /\ \A b \in S : g[b] = print_line(b)
    OBVIOUS
  <1> HIDE DEF g
  <1>2. n \in Nat
    OBVIOUS
  <1>3. \E f \in [0 .. n -> S] : Rounds(f, g, s, n)
    BY <1>1, <1>2, Iterates
  <1>4. PICK f \in [0 .. n -> S] : f[0] = s /\ \A i \in 1 .. n : f[i] = g[f[i - 1]]
    BY <1>3 DEF Rounds
  <1>5. \A i \in 1 .. n : f[i] = print_line(f[i - 1])
    <2> TAKE i \in 1 .. n
    <2>1. f[i - 1] \in S
      BY <1>4
    <2> QED
      BY <1>1, <1>4, <2>1
  <1>6. Eq(f)
    BY <1>4, <1>5
  <1>7. PICK h : Times(print_line, n, s) = h[n] /\ Eq(h)
    <2>1. Eq(CHOOSE h : Eq(h))
      BY <1>6, Zenon
    <2>2. Times(print_line, n, s) = (CHOOSE h : Eq(h))[n]
      BY DEF Times
    <2> QED
      BY <2>1, <2>2, Zenon
  <1>8. \A i \in 0 .. n : h[i] = IF i = 0 THEN s ELSE print_line(h[i - 1])
    BY <1>7
  <1>9. \A i \in 0 .. n : h[i] \in S
    <2> DEFINE D == {i \in 0 .. n : h[i] \in S}
    <2>1. 0 \in D /\ \A i \in 0 .. n - 1 : i \in D => i + 1 \in D
      BY <1>8
    <2> HIDE DEF D
    <2>2. 0 .. n \subseteq D
      BY <1>2, <2>1, UpTo
    <2> QED
      BY <2>2 DEF D
  <1>10. PrintRounds(h, s, n)
    BY <1>7, <1>8 DEF PrintRounds
  <1> QED
    BY <1>9, <1>10

-----------------------------------------------------------------------------
\* n times get_line: n lines on, or the end.
LEMMA GetLines ==
    ASSUME NEW text, WholeText(text), NEW s \in TextBox(text), NEW n \in Nat
    PROVE  LET a == Times(get_line, n, s) IN
           /\ a \in TextBox(text) /\ SamePage(s, a) /\ a.begin_reached = s.begin_reached
           /\ Row(a) = IF Row(s) + n <= Lines(text) THEN Row(s) + n ELSE Lines(text)
           /\ n # 0 => a.end_reached = (Row(s) + n > Lines(text))
  <1> DEFINE L == Lines(text)
             P(a, i) ==
                 /\ a \in TextBox(text) /\ SamePage(s, a) /\ a.begin_reached = s.begin_reached
                 /\ Row(a) = IF Row(s) + i <= L THEN Row(s) + i ELSE L
                 /\ i # 0 => a.end_reached = (Row(s) + i > L)
  <1>1. Row(s) \in 0 .. L /\ L \in Nat
    BY LastRow DEF TextBox, Row
  <1>2. P(s, 0)
    BY <1>1 DEF SamePage
  <1>3. CASE n = 0
    <2>1. Times(get_line, n, s) = s
      BY <1>3 DEF Times
    <2> HIDE DEF P
    <2>2. P(Times(get_line, n, s), n)
      BY <1>2, <1>3, <2>1
    <2> QED
      BY <2>2 DEF P
  <1>4. CASE n # 0
    <2>1. PICK f : GetRounds(f, s, n)
      <3>1. n \in Nat \ {0}
        BY <1>4
      <3>2. \A b \in TextBox(text) : get_line(b) \in TextBox(text)
        BY GetLine
      <3> QED
        BY <3>1, <3>2, GetLoop
    <2> DEFINE D == {i \in 0 .. n : P(f[i], i)}
    <2>2. 0 \in D
      BY <1>2, <2>1 DEF GetRounds
    <2>3. ASSUME NEW i \in 0 .. n - 1, i \in D PROVE i + 1 \in D
      <3>1. f[i + 1] = get_line(f[i])
        BY <2>1 DEF GetRounds
      <3>2. P(f[i], i)
        BY <2>3
      <3> DEFINE a == f[i]
                 b == f[i + 1]
      <3>3. /\ b \in TextBox(text) /\ SamePage(a, b) /\ b.begin_reached = a.begin_reached
            /\ Row(b) = IF Row(a) = L THEN L ELSE Row(a) + 1
            /\ b.end_reached = (Row(a) = L)
        BY <3>1, <3>2, GetLine
      <3> HIDE DEF a, b
      <3>4. SamePage(s, b) /\ b.begin_reached = s.begin_reached
        BY <3>2, <3>3 DEF SamePage, a
      <3>5. Row(b) = IF Row(s) + (i + 1) <= L THEN Row(s) + (i + 1) ELSE L
        BY <1>1, <3>2, <3>3 DEF a
      <3>6. b.end_reached = (Row(s) + (i + 1) > L)
        BY <1>1, <3>2, <3>3 DEF a
      <3>7. P(b, i + 1)
        BY <3>3, <3>4, <3>5, <3>6
      <3> QED
        BY <3>7 DEF b
    <2>4. n \in D
      <3> HIDE DEF D
      <3>1. 0 .. n \subseteq D
        BY <2>2, <2>3, UpTo
      <3> QED
        BY <3>1
    <2> HIDE DEF P
    <2>5. P(Times(get_line, n, s), n)
      BY <2>1, <2>4 DEF GetRounds
    <2> QED
      BY <2>5 DEF P
  <1> QED
    BY <1>3, <1>4

\* back_lines goes back n lines, or to the beginning, and says so.
LEMMA BackLines ==
    ASSUME NEW text, WholeText(text), NEW s \in TextBox(text), NEW n \in Int
    PROVE  LET a == back_lines(s, n) IN
           /\ a \in TextBox(text) /\ SamePage(s, a)
           /\ Spot(a) = IF n <= 0 THEN Spot(s) ELSE IF n <= Spot(s) THEN Spot(s) - n ELSE 0
           /\ a.begin_reached <=> n > 0 /\ Spot(a) = 0
  <1> DEFINE L == Lines(text)
             from == [s EXCEPT !.begin_reached = FALSE]
             P(a, i) ==
                 /\ a \in TextBox(text) /\ SamePage(s, a)
                 /\ Spot(a) = IF i <= Spot(s) THEN Spot(s) - i ELSE 0
                 /\ a.begin_reached <=> i > 0 /\ Spot(a) = 0
  <1>1. Row(s) \in 0 .. L /\ L \in Nat /\ Spot(s) \in Nat
    <2>1. Row(s) \in 0 .. L /\ L \in Nat
      BY LastRow DEF TextBox, Row
    <2> QED
      BY <2>1 DEF Spot
  <1>2. P(from, 0)
    <2>1. from \in TextBox(text) /\ SamePage(s, from) /\ from.text = s.text
          /\ from.page = s.page /\ from.end_reached = s.end_reached
          /\ from.begin_reached = FALSE
      BY DEF TextBox, SamePage
    <2> HIDE DEF from
    <2>2. Spot(from) = Spot(s)
      BY <2>1, Zenon DEF Spot, Row
    <2> QED
      BY <1>1, <2>1, <2>2
  <1>3. back_lines(s, n) = Times(BackStep, n, from)
    BY Zenon DEF back_lines
  <1> HIDE DEF from
  <1>4. CASE n <= 0
    <2>1. Times(BackStep, n, from) = from
      BY <1>4, Zenon DEF Times
    <2>2. from \in TextBox(text) /\ SamePage(s, from) /\ Spot(from) = Spot(s)
          /\ from.begin_reached = FALSE
      BY <1>1, <1>2
    <2> HIDE DEF P
    <2> QED
      BY <1>3, <1>4, <2>1, <2>2
  <1>5. CASE n > 0
    <2>1. n \in Nat \ {0} /\ from \in TextBox(text)
      BY <1>2, <1>5
    <2>2. PICK f : BackRounds(f, from, n)
      <3>1. \A b \in TextBox(text) : BackStep(b) \in TextBox(text)
        BY BackRound
      <3> QED
        BY <2>1, <3>1, BackLoop
    <2> DEFINE D == {i \in 0 .. n : P(f[i], i)}
    <2>3. 0 \in D
      BY <1>2, <2>1, <2>2 DEF BackRounds
    <2>4. ASSUME NEW i \in 0 .. n - 1, i \in D PROVE i + 1 \in D
      <3>1. f[i + 1] = BackStep(f[i])
        BY <2>2 DEF BackRounds
      <3>2. P(f[i], i)
        BY <2>4
      <3> DEFINE a == f[i]
                 b == f[i + 1]
      <3>3. a \in TextBox(text) /\ b = BackStep(a)
        BY <3>1, <3>2
      <3> HIDE DEF a, b
      <3>4. /\ b \in TextBox(text) /\ SamePage(a, b)
            /\ a.begin_reached => b = a
            /\ ~a.begin_reached =>
                   /\ Spot(b) = IF Spot(a) = 0 THEN 0 ELSE Spot(a) - 1
                   /\ b.begin_reached = IF Spot(b) = 0 THEN TRUE ELSE FALSE
        BY <3>3, BackRound
      <3>5. SamePage(s, b)
        BY <3>2, <3>4 DEF SamePage, a
      <3>6. /\ Spot(a) = IF i <= Spot(s) THEN Spot(s) - i ELSE 0
            /\ a.begin_reached <=> i > 0 /\ Spot(a) = 0
        BY <3>2 DEF a
      <3>7. /\ Spot(b) = IF i + 1 <= Spot(s) THEN Spot(s) - (i + 1) ELSE 0
            /\ b.begin_reached <=> Spot(b) = 0
        <4>1. CASE a.begin_reached
          <5>1. i > 0 /\ Spot(a) = 0 /\ b = a
            BY <3>6, <3>4, <4>1
          <5> QED
            BY <1>1, <3>6, <5>1
        <4>2. CASE ~a.begin_reached
          <5>1. i = 0 \/ Spot(a) # 0
            BY <1>1, <3>6, <4>2
          <5>2. Spot(a) = 0 => i = 0
            BY <5>1
          <5>3. Spot(b) = IF Spot(a) = 0 THEN 0 ELSE Spot(a) - 1
            BY <3>4, <4>2
          <5>4. b.begin_reached <=> Spot(b) = 0
            BY <3>4, <4>2
          <5> QED
            BY <1>1, <3>6, <5>2, <5>3, <5>4
        <4> QED
          BY <4>1, <4>2
      <3>8. P(b, i + 1)
        BY <3>5, <3>7, <3>4
      <3> QED
        BY <3>8 DEF b
    <2>5. n \in D
      <3> HIDE DEF D
      <3>1. 0 .. n \subseteq D
        BY <2>1, <2>3, <2>4, UpTo
      <3> QED
        BY <2>1, <3>1
    <2>6. P(f[n], n)
      BY <2>5
    <2> HIDE DEF P
    <2>7. P(back_lines(s, n), n)
      BY <1>3, <2>2, <2>6 DEF BackRounds
    <2> QED
      BY <1>5, <2>7 DEF P
  <1> QED
    BY <1>4, <1>5

\* n times print_line: page_length is the number of lines there were.
LEMMA PrintLines ==
    ASSUME NEW text, WholeText(text), NEW s \in TextBox(text), NEW n \in Nat \ {0},
           s.page_length = 0
    PROVE  LET a == Times(print_line, n, s) IN
           /\ a \in TextBox(text) /\ a.top = s.top /\ a.begin_reached = s.begin_reached
           /\ Row(a) = IF Row(s) + n <= Lines(text) THEN Row(s) + n ELSE Lines(text)
           /\ a.end_reached = (Row(s) + n > Lines(text))
           /\ a.page_length = IF Row(s) + n <= Lines(text) THEN n ELSE Lines(text) + 1 - Row(s)
  <1> DEFINE L == Lines(text)
             P(a, i) ==
                 /\ a \in TextBox(text) /\ a.top = s.top /\ a.begin_reached = s.begin_reached
                 /\ Row(a) = IF Row(s) + i <= L THEN Row(s) + i ELSE L
                 /\ i # 0 => a.end_reached = (Row(s) + i > L)
                 /\ a.page_length = IF Row(s) + i <= L THEN i ELSE L + 1 - Row(s)
  <1>1. Row(s) \in 0 .. L /\ L \in Nat
    BY LastRow DEF TextBox, Row
  <1>2. P(s, 0)
    BY <1>1
  <1>3. PICK f : PrintRounds(f, s, n)
    <2>1. \A b \in TextBox(text) : print_line(b) \in TextBox(text)
      BY PrintLine
    <2> QED
      BY <2>1, PrintLoop
  <1> DEFINE D == {i \in 0 .. n : P(f[i], i)}
  <1>4. 0 \in D
    BY <1>2, <1>3 DEF PrintRounds
  <1>5. ASSUME NEW i \in 0 .. n - 1, i \in D PROVE i + 1 \in D
    <2>1. f[i + 1] = print_line(f[i])
      BY <1>3 DEF PrintRounds
    <2>2. P(f[i], i)
      BY <1>5
    <2> DEFINE a == f[i]
               b == f[i + 1]
    <2>3. /\ b \in TextBox(text) /\ b.top = a.top /\ b.begin_reached = a.begin_reached
          /\ Row(b) = IF Row(a) = L THEN L ELSE Row(a) + 1
          /\ b.end_reached = (Row(a) = L)
          /\ b.page_length = IF a.end_reached /\ a.page_length > 0 THEN a.page_length
                             ELSE a.page_length + 1
      BY <2>1, <2>2, PrintLine
    <2> HIDE DEF a, b
    <2>4. /\ a.top = s.top /\ a.begin_reached = s.begin_reached
          /\ Row(a) = IF Row(s) + i <= L THEN Row(s) + i ELSE L
          /\ i # 0 => a.end_reached = (Row(s) + i > L)
          /\ a.page_length = IF Row(s) + i <= L THEN i ELSE L + 1 - Row(s)
          /\ a.end_reached \in BOOLEAN /\ a.page_length \in Nat
      BY <2>2 DEF a, TextBox
    <2>5. Row(b) = IF Row(s) + (i + 1) <= L THEN Row(s) + (i + 1) ELSE L
      BY <1>1, <2>3, <2>4
    <2>6. b.end_reached = (Row(s) + (i + 1) > L)
      BY <1>1, <2>3, <2>4
    <2>7. b.page_length = IF Row(s) + (i + 1) <= L THEN i + 1 ELSE L + 1 - Row(s)
      <3>1. CASE i = 0
        BY <1>1, <2>3, <2>4, <3>1
      <3>2. CASE i # 0 /\ Row(s) + i > L
        <4>1. a.end_reached /\ a.page_length = L + 1 - Row(s) /\ a.page_length > 0
          BY <1>1, <2>4, <3>2
        <4> QED
          BY <1>1, <2>3, <3>2, <4>1
      <3>3. CASE i # 0 /\ Row(s) + i <= L
        <4>1. ~a.end_reached /\ a.page_length = i
          BY <1>1, <2>4, <3>3
        <4> QED
          BY <1>1, <2>3, <3>3, <4>1
      <3> QED
        BY <1>1, <3>1, <3>2, <3>3
    <2>8. P(b, i + 1)
      BY <2>3, <2>4, <2>5, <2>6, <2>7
    <2> QED
      BY <2>8 DEF b
  <1>6. n \in D
    <2> HIDE DEF D
    <2>1. 0 .. n \subseteq D
      BY <1>4, <1>5, UpTo
    <2> QED
      BY <2>1
  <1> HIDE DEF P
  <1>7. P(Times(print_line, n, s), n)
    BY <1>3, <1>6 DEF PrintRounds
  <1> QED
    BY <1>7 DEF P

-----------------------------------------------------------------------------
\* Any text, with the page anywhere in it.
AnyBox(text) ==
    [text : {text}, page : 0 .. Len(text), begin_reached : BOOLEAN,
     end_reached : BOOLEAN, page_length : Nat, top : 0 .. Len(text)]

\* In a text without a newline at its end a step still stays in the text.
LEMMA GetInBox ==
    ASSUME NEW text \in Seq(STRING), NEW s \in AnyBox(text)
    PROVE  get_line(s) \in AnyBox(text)
  <1> DEFINE ends == Ends(text, s.page, Len(text) - 1)
             p == IF ends = {} THEN Len(text) ELSE Least(ends) + 1
  <1>1. s.text = text /\ s.page \in 0 .. Len(text) /\ Len(text) \in Nat
    BY DEF AnyBox
  <1>2. get_line(s) = [s EXCEPT !.page = p, !.end_reached = ends = {}]
    BY <1>1, Zenon DEF get_line
  <1>3. p \in 0 .. Len(text)
    <2>1. ends \in SUBSET Nat
      BY <1>1 DEF Ends
    <2>2. ends # {} => Least(ends) \in ends
      <3>1. ends # {} => \E i \in ends : \A j \in ends : i <= j
        BY <2>1, LeastExists
      <3> QED
        BY <3>1, Zenon DEF Least
    <2>3. \A i \in ends : i + 1 \in 0 .. Len(text)
      BY <1>1 DEF Ends
    <2> HIDE DEF ends
    <2> QED
      BY <1>1, <2>2, <2>3
  <1> HIDE DEF p, ends
  <1>4. (ends = {}) \in BOOLEAN
    OBVIOUS
  <1> QED
    BY <1>2, <1>3, <1>4 DEF AnyBox

\* The same of a round of back_lines,
LEMMA BackInBox ==
    ASSUME NEW text \in Seq(STRING), NEW s \in AnyBox(text)
    PROVE  BackStep(s) \in AnyBox(text)
  <1> DEFINE ends == Ends(text, 0, s.page - 2)
  <1>1. s.text = text /\ s.page \in 0 .. Len(text) /\ Len(text) \in Nat
        /\ 0 \in 0 .. Len(text)
    BY DEF AnyBox
  <1>2. BackStep(s) = IF s.begin_reached THEN s
                      ELSE IF s.page = Len(text) /\ s.end_reached
                           THEN [s EXCEPT !.end_reached = FALSE]
                      ELSE IF ends = {} THEN [s EXCEPT !.page = 0, !.begin_reached = TRUE]
                      ELSE [s EXCEPT !.page = Greatest(ends) + 1]
    BY <1>1, Zenon DEF BackStep, LineBack
  <1>3. ends # {} => Greatest(ends) + 1 \in 0 .. Len(text)
    <2>1. ends \in SUBSET (0 .. Len(text))
      BY <1>1 DEF Ends
    <2>2. ends # {} => Greatest(ends) \in ends
      BY <1>1, <2>1, GreatestIn
    <2>3. \A i \in ends : i + 1 \in 0 .. Len(text)
      BY <1>1 DEF Ends
    <2> HIDE DEF ends
    <2> QED
      BY <2>2, <2>3
  <1> HIDE DEF ends
  <1>4. [s EXCEPT !.end_reached = FALSE] \in AnyBox(text)
    BY DEF AnyBox
  <1>5. [s EXCEPT !.page = 0, !.begin_reached = TRUE] \in AnyBox(text)
    BY <1>1 DEF AnyBox
  <1>6. ends # {} => [s EXCEPT !.page = Greatest(ends) + 1] \in AnyBox(text)
    BY <1>3 DEF AnyBox
  <1> QED
    BY <1>2, <1>4, <1>5, <1>6, Zenon

\* of a line that is printed,
LEMMA PrintInBox ==
    ASSUME NEW text \in Seq(STRING), NEW s \in AnyBox(text)
    PROVE  print_line(s) \in AnyBox(text)
  <1> DEFINE after == get_line(s)
  <1>1. after \in AnyBox(text)
    BY GetInBox
  <1>2. print_line(s) = IF s.end_reached /\ s.page_length > 0 THEN after
                        ELSE [after EXCEPT !.page_length = after.page_length + 1]
    BY Zenon DEF print_line
  <1> HIDE DEF after
  <1>3. [after EXCEPT !.page_length = after.page_length + 1] \in AnyBox(text)
    BY <1>1 DEF AnyBox
  <1> QED
    BY <1>1, <1>2, <1>3, Zenon

\* of the loops,
LEMMA LoopsInBox ==
    ASSUME NEW text \in Seq(STRING), NEW s \in AnyBox(text), NEW n \in Int
    PROVE  /\ Times(get_line, n, s) \in AnyBox(text)
           /\ Times(print_line, n, s) \in AnyBox(text)
           /\ back_lines(s, n) \in AnyBox(text)
  <1> DEFINE from == [s EXCEPT !.begin_reached = FALSE]
  <1>1. from \in AnyBox(text)
    BY DEF AnyBox
  <1>2. back_lines(s, n) = Times(BackStep, n, from)
    BY Zenon DEF back_lines
  <1> HIDE DEF from
  <1>3. CASE n <= 0
    <2>1. Times(get_line, n, s) = s /\ Times(print_line, n, s) = s
          /\ Times(BackStep, n, from) = from
      BY <1>3, Zenon DEF Times
    <2> QED
      BY <1>1, <1>2, <2>1
  <1>4. CASE n > 0
    <2>1. n \in Nat \ {0} /\ n \in 0 .. n
      BY <1>4
    <2>2. Times(get_line, n, s) \in AnyBox(text)
      <3>1. \A b \in AnyBox(text) : get_line(b) \in AnyBox(text)
        BY GetInBox
      <3>2. PICK f : GetRounds(f, s, n) /\ \A i \in 0 .. n : f[i] \in AnyBox(text)
        BY <2>1, <3>1, GetLoop
      <3> QED
        BY <2>1, <3>2 DEF GetRounds
    <2>3. Times(print_line, n, s) \in AnyBox(text)
      <3>1. \A b \in AnyBox(text) : print_line(b) \in AnyBox(text)
        BY PrintInBox
      <3>2. PICK f : PrintRounds(f, s, n) /\ \A i \in 0 .. n : f[i] \in AnyBox(text)
        BY <2>1, <3>1, PrintLoop
      <3> QED
        BY <2>1, <3>2 DEF PrintRounds
    <2>4. back_lines(s, n) \in AnyBox(text)
      <3>1. \A b \in AnyBox(text) : BackStep(b) \in AnyBox(text)
        BY BackInBox
      <3>2. PICK f : BackRounds(f, from, n) /\ \A i \in 0 .. n : f[i] \in AnyBox(text)
        BY <1>1, <2>1, <3>1, BackLoop
      <3> QED
        BY <1>2, <2>1, <3>2 DEF BackRounds
    <2> QED
      BY <2>2, <2>3, <2>4
  <1> QED
    BY <1>3, <1>4

\* of a page,
LEMMA PageInBox ==
    ASSUME NEW text \in Seq(STRING), NEW s \in AnyBox(text), NEW h \in Int, NEW updated
    PROVE  print_page(s, h, updated) \in AnyBox(text)
  <1> DEFINE ahead == Times(get_line, h, s)
             from == IF updated THEN back_lines(ahead, h) ELSE s
             first == [from EXCEPT !.page_length = 0, !.top = from.page]
  <1>1. from \in AnyBox(text)
    <2>1. ahead \in AnyBox(text)
      BY LoopsInBox
    <2> HIDE DEF ahead
    <2>2. back_lines(ahead, h) \in AnyBox(text)
      BY <2>1, LoopsInBox
    <2> QED
      BY <2>2
  <1>2. first \in AnyBox(text)
    <2> HIDE DEF from
    <2> QED
      BY <1>1 DEF AnyBox
  <1>3. print_page(s, h, updated) = Times(print_line, h, first)
    BY Zenon DEF print_page
  <1> HIDE DEF first
  <1> QED
    BY <1>2, <1>3, LoopsInBox

\* What the keys make of a text before the page is printed again.
Nexts(s, h, lines) ==
    {TextFirst(s), TextLast(s, h), TextUp(s), TextDown(s), TextPageUp(s, h),
     TextPageDown(s), TextSame(s), TextResize(s, lines)}

\* and of a key.
LEMMA KeysInBox ==
    ASSUME NEW text \in Seq(STRING), NEW s \in AnyBox(text), NEW h \in Int, NEW lines \in Int,
           NEW next \in Nexts(s, h, lines)
    PROVE  next \in AnyBox(text)
  <1>1. s.text = text /\ s.page_length \in Nat /\ Len(text) \in Nat
        /\ 0 \in 0 .. Len(text) /\ Len(text) \in 0 .. Len(text)
    BY DEF AnyBox
  <1>2. TextFirst(s) \in AnyBox(text)
    BY <1>1 DEF TextFirst, AnyBox
  <1>3. TextPageDown(s) \in AnyBox(text)
    BY DEF TextPageDown, AnyBox
  <1>4. TextLast(s, h) \in AnyBox(text)
    <2> DEFINE last == [s EXCEPT !.end_reached = TRUE, !.page = Len(s.text)]
    <2>1. last \in AnyBox(text)
      <3>1. last = [s EXCEPT !.end_reached = TRUE, !.page = Len(text)]
        BY <1>1
      <3> HIDE DEF last
      <3> QED
        BY <1>1, <3>1 DEF AnyBox
    <2> HIDE DEF last
    <2>2. back_lines(last, h) \in AnyBox(text)
      BY <2>1, LoopsInBox
    <2> QED
      BY <2>2 DEF last, TextLast
  <1>5. \A n \in Int : back_lines(s, n) \in AnyBox(text)
    BY LoopsInBox
  <1>6. /\ s.page_length + 1 \in Int /\ s.page_length - 1 \in Int
        /\ s.page_length + h \in Int /\ s.page_length \in Int /\ lines - 4 \in Int
    BY <1>1
  <1>7. /\ TextUp(s) \in AnyBox(text) /\ TextDown(s) \in AnyBox(text)
        /\ TextPageUp(s, h) \in AnyBox(text) /\ TextSame(s) \in AnyBox(text)
        /\ TextResize(s, lines) \in AnyBox(text)
    BY <1>5, <1>6, Zenon DEF TextUp, TextDown, TextPageUp, TextSame, TextResize
  <1> QED
    BY <1>2, <1>3, <1>4, <1>7, Zenon DEF Nexts

-----------------------------------------------------------------------------
\* A page of h lines that has been printed: its length and the two flags are
\* those of the line it begins with.
PageKnown(s, h) ==
    LET r == LineAt(s.text, s.top)
        L == Lines(s.text)
    IN  /\ s.page_length = IF r + h <= L THEN h ELSE L + 1 - r
        /\ Row(s) = IF r + h <= L THEN r + h ELSE L
        /\ s.end_reached <=> r + h > L
        /\ s.begin_reached <=> s.top = 0

\* The spot of a page: its line, and one more when the end was read.
LEMMA Spots ==
    ASSUME NEW text, WholeText(text), NEW s \in TextBox(text)
    PROVE  /\ s.text = text /\ Lines(text) \in Nat \ {0} /\ Row(s) \in 0 .. Lines(text)
           /\ s.page \in Starts(text)
           /\ Spot(s) \in Nat /\ (Spot(s) = 0 <=> s.page = 0)
           /\ Spot(s) = Row(s) \/ (Row(s) = Lines(text) /\ Spot(s) = Lines(text) + 1)
  <1>1. s.text = text /\ s.page \in Starts(text)
    BY DEF TextBox
  <1>2. /\ Row(s) \in 0 .. Lines(text) /\ Lines(text) \in Nat \ {0}
        /\ (Row(s) = Lines(text) <=> s.page = Len(text)) /\ (Row(s) = 0 <=> s.page = 0)
    BY <1>1, LastRow DEF Row
  <1> QED
    BY <1>1, <1>2 DEF Spot

\* Behind a page that is known stands its last line and one.
LEMMA SpotBehind ==
    ASSUME NEW text, WholeText(text), NEW s \in TextBox(text), NEW h \in Nat \ {0},
           PageKnown(s, h)
    PROVE  LET r == LineAt(text, s.top) IN
           /\ r \in 0 .. Lines(text) /\ s.page_length \in Nat \ {0}
           /\ Spot(s) = r + s.page_length
           /\ s.end_reached <=> r + s.page_length = Lines(text) + 1
           /\ s.top \in Starts(text) /\ s.text = text
  <1> DEFINE r == LineAt(text, s.top)
             L == Lines(text)
  <1>1. s.text = text /\ s.top \in Starts(text) /\ s.page \in Starts(text)
        /\ s.end_reached \in BOOLEAN
    BY DEF TextBox
  <1>2. r \in 0 .. L /\ L \in Nat \ {0} /\ (Row(s) = L <=> s.page = Len(text))
    BY <1>1, LastRow DEF Row
  <1>3. /\ s.page_length = IF r + h <= L THEN h ELSE L + 1 - r
        /\ Row(s) = IF r + h <= L THEN r + h ELSE L
        /\ s.end_reached <=> r + h > L
    BY <1>1 DEF PageKnown
  <1>4. Spot(s) = IF s.page = Len(text) /\ s.end_reached THEN Row(s) + 1 ELSE Row(s)
    BY <1>1, Zenon DEF Spot
  <1> HIDE DEF r, L
  <1>5. CASE r + h <= L
    BY <1>1, <1>2, <1>3, <1>4, <1>5 DEF r, L
  <1>6. CASE r + h > L
    BY <1>1, <1>2, <1>3, <1>4, <1>6 DEF r, L
  <1>7. r + h <= L \/ r + h > L
    BY <1>2
  <1> QED
    BY <1>5, <1>6, <1>7

\* A page can be printed when the first line is known to be the first.
FirstKnown(s, h) == h > 0 => (s.begin_reached <=> s.page = 0)

\* A page that is printed is known, wherever it was before.
LEMMA PrintPage ==
    ASSUME NEW text, WholeText(text), NEW s \in TextBox(text), NEW h \in Nat, NEW updated,
           updated \/ FirstKnown(s, h)
    PROVE  LET a == print_page(s, h, updated) IN
           a \in TextBox(text) /\ (h > 0 => PageKnown(a, h))
  <1> DEFINE ahead == Times(get_line, h, s)
             from == IF updated THEN back_lines(ahead, h) ELSE s
             first == [from EXCEPT !.page_length = 0, !.top = from.page]
             a == print_page(s, h, updated)
  <1>1. from \in TextBox(text) /\ FirstKnown(from, h)
    <2>1. CASE updated
      <3>1. ahead \in TextBox(text)
        BY GetLines
      <3> HIDE DEF ahead
      <3> DEFINE b == back_lines(ahead, h)
      <3>2. h \in Int
        OBVIOUS
      <3>3. b \in TextBox(text) /\ (b.begin_reached <=> h > 0 /\ Spot(b) = 0)
        BY <3>1, <3>2, BackLines
      <3> HIDE DEF b
      <3>4. Spot(b) = 0 <=> b.page = 0
        BY <3>3, Spots
      <3>5. from = b
        BY <2>1 DEF b
      <3> HIDE DEF from
      <3> QED
        BY <3>3, <3>4, <3>5 DEF FirstKnown
    <2>2. CASE ~updated
      <3>1. from = s
        BY <2>2
      <3> HIDE DEF from
      <3> QED
        BY <2>2, <3>1
    <2> QED
      BY <2>1, <2>2
  <1>2. a = Times(print_line, h, first)
    BY Zenon DEF print_page
  <1> HIDE DEF from
  <1>3. /\ first \in TextBox(text) /\ first.page_length = 0 /\ first.top = from.page
        /\ first.page = from.page /\ first.text = text
        /\ first.begin_reached = from.begin_reached
    BY <1>1 DEF TextBox
  <1> HIDE DEF first, a
  <1>4. CASE h = 0
    <2>1. a = first
      BY <1>2, <1>4 DEF Times
    <2> QED
      BY <1>3, <1>4, <2>1 DEF a
  <1>5. CASE h # 0
    <2>1. h \in Nat \ {0}
      BY <1>5
    <2>2. /\ a \in TextBox(text) /\ a.top = first.top /\ a.begin_reached = first.begin_reached
          /\ Row(a) = IF Row(first) + h <= Lines(text) THEN Row(first) + h ELSE Lines(text)
          /\ a.end_reached = (Row(first) + h > Lines(text))
          /\ a.page_length = IF Row(first) + h <= Lines(text) THEN h
                             ELSE Lines(text) + 1 - Row(first)
      BY <1>2, <1>3, <2>1, PrintLines
    <2>3. a.text = text /\ a.top = from.page
      BY <1>3, <2>2 DEF TextBox
    <2>4. Row(first) = LineAt(a.text, a.top)
      BY <1>3, <2>3, Zenon DEF Row
    <2>5. a.begin_reached <=> a.top = 0
      BY <1>1, <1>3, <2>1, <2>2, <2>3 DEF FirstKnown
    <2>6. PageKnown(a, h)
      <3> DEFINE r == LineAt(a.text, a.top)
                 L == Lines(a.text)
      <3>1. /\ a.page_length = IF r + h <= L THEN h ELSE L + 1 - r
            /\ Row(a) = IF r + h <= L THEN r + h ELSE L
            /\ a.end_reached <=> r + h > L
        BY <2>2, <2>3, <2>4
      <3> QED
        BY <2>5, <3>1 DEF PageKnown
    <2> QED
      BY <2>2, <2>6 DEF a
  <1> QED
    BY <1>4, <1>5

\* What a key makes of a page that is known can be printed.
LEMMA KeysKnown ==
    ASSUME NEW text, WholeText(text), NEW s \in TextBox(text), NEW h \in Nat,
           h > 0 => PageKnown(s, h), NEW lines \in Nat, lines > 4,
           NEW next \in Nexts(s, h, lines)
    PROVE  next \in TextBox(text) /\ FirstKnown(next, h)
  <1>1. /\ s.text = text /\ s.page \in Starts(text) /\ s.page_length \in Nat
        /\ text \in Seq(STRING)
    BY DEF TextBox, WholeText
  <1>2. /\ Spot(s) \in Nat /\ 0 \in Starts(text) /\ Len(text) \in Starts(text)
    BY <1>1, Spots, FirstLine, LastRow
  <1>3. ASSUME NEW n \in Int, h > 0 => n > 0 \/ (n = 0 /\ Spot(s) # 0)
        PROVE  back_lines(s, n) \in TextBox(text) /\ FirstKnown(back_lines(s, n), h)
    <2> DEFINE b == back_lines(s, n)
    <2>1. /\ b \in TextBox(text)
          /\ Spot(b) = IF n <= 0 THEN Spot(s) ELSE IF n <= Spot(s) THEN Spot(s) - n ELSE 0
          /\ b.begin_reached <=> n > 0 /\ Spot(b) = 0
      BY BackLines
    <2> HIDE DEF b
    <2>2. Spot(b) = 0 <=> b.page = 0
      BY <2>1, Spots
    <2>3. FirstKnown(b, h)
      BY <1>3, <2>1, <2>2 DEF FirstKnown
    <2> QED
      BY <2>1, <2>3 DEF b
  <1>4. h > 0 => s.page_length > 0 /\ Spot(s) > 0
    <2> SUFFICES ASSUME h > 0 PROVE s.page_length > 0 /\ Spot(s) > 0
      OBVIOUS
    <2>1. h \in Nat \ {0} /\ PageKnown(s, h)
      OBVIOUS
    <2>2. LineAt(text, s.top) \in Nat /\ s.page_length \in Nat \ {0}
          /\ Spot(s) = LineAt(text, s.top) + s.page_length
      BY <2>1, SpotBehind
    <2> QED
      BY <2>2
  <1>5. CASE next = TextFirst(s)
    <2>1. next = [s EXCEPT !.begin_reached = TRUE, !.page = 0]
      BY <1>5, Zenon DEF TextFirst
    <2>2. next \in TextBox(text) /\ next.page = 0 /\ next.begin_reached = TRUE
      BY <1>2, <2>1 DEF TextBox
    <2> QED
      BY <2>2 DEF FirstKnown
  <1>6. CASE next = TextPageDown(s)
    <2>1. next = [s EXCEPT !.begin_reached = FALSE]
      BY <1>6, Zenon DEF TextPageDown
    <2>2. next \in TextBox(text) /\ next.page = s.page /\ next.begin_reached = FALSE
      BY <2>1 DEF TextBox
    <2>3. h > 0 => s.page # 0
      BY <1>4, Spots
    <2> QED
      BY <2>2, <2>3 DEF FirstKnown
  <1>7. CASE next = TextLast(s, h)
    <2> DEFINE last == [s EXCEPT !.end_reached = TRUE, !.page = Len(text)]
    <2>1. last \in TextBox(text)
      BY <1>2 DEF TextBox
    <2>2. next = back_lines(last, h)
      BY <1>1, <1>7, Zenon DEF TextLast
    <2> HIDE DEF last
    <2>3. next \in TextBox(text) /\ (next.begin_reached <=> h > 0 /\ Spot(next) = 0)
      <3>1. h \in Int
        OBVIOUS
      <3> QED
        BY <2>1, <2>2, <3>1, BackLines
    <2>4. Spot(next) = 0 <=> next.page = 0
      BY <2>3, Spots
    <2> QED
      BY <2>3, <2>4 DEF FirstKnown
  <1>8. CASE next \in {TextUp(s), TextDown(s), TextPageUp(s, h), TextSame(s), TextResize(s, lines)}
    <2>1. \E n \in Int : next = back_lines(s, n)
                         /\ (h > 0 => n > 0 \/ (n = 0 /\ Spot(s) # 0))
      <3>1. CASE next = TextUp(s)
        BY <1>1, <1>4, <3>1 DEF TextUp
      <3>2. CASE next = TextDown(s)
        BY <1>1, <1>2, <1>4, <3>2 DEF TextDown
      <3>3. CASE next = TextPageUp(s, h)
        BY <1>1, <1>4, <3>3 DEF TextPageUp
      <3>4. CASE next = TextSame(s)
        BY <1>1, <1>4, <3>4 DEF TextSame
      <3>5. CASE next = TextResize(s, lines)
        BY <3>5 DEF TextResize
      <3> QED
        BY <1>8, <3>1, <3>2, <3>3, <3>4, <3>5
    <2>2. PICK n \in Int : next = back_lines(s, n)
                          /\ (h > 0 => n > 0 \/ (n = 0 /\ Spot(s) # 0))
      BY <2>1
    <2> QED
      BY <1>3, <2>2
  <1> QED
    BY <1>5, <1>6, <1>7, <1>8, Zenon DEF Nexts

\* A text is opened at a line, or at its beginning.
LEMMA OpenKnown ==
    ASSUME NEW text \in Seq(STRING), NEW vscroll \in Nat
    PROVE  LET s == TextOpen(text, vscroll) IN
           /\ s \in AnyBox(text)
           /\ WholeText(text) => s \in TextBox(text)
           /\ vscroll = 0 => \A h : FirstKnown(s, h)
  <1> DEFINE new == NewText(text)
             read == Times(get_line, vscroll, new)
             s == TextOpen(text, vscroll)
  <1>1. 0 \in Starts(text) /\ 0 \in 0 .. Len(text)
    BY FirstLine DEF Starts
  <1>2. new \in AnyBox(text) /\ new \in TextBox(text)
    BY <1>1 DEF NewText, AnyBox, TextBox
  <1>3. new.page = 0
    BY DEF NewText
  <1> HIDE DEF new
  <1>4. s = [read EXCEPT !.begin_reached = (vscroll = 0)]
    BY Zenon DEF TextOpen, new
  <1>5. read \in AnyBox(text)
    BY <1>2, LoopsInBox
  <1>6. WholeText(text) => read \in TextBox(text)
    BY <1>2, GetLines
  <1>7. vscroll = 0 => read.page = 0
    BY <1>3 DEF Times
  <1> HIDE DEF read, s
  <1>8. s \in AnyBox(text) /\ s.page = read.page /\ s.begin_reached = (vscroll = 0)
    BY <1>4, <1>5 DEF AnyBox
  <1>9. read \in TextBox(text) => s \in TextBox(text)
    BY <1>4 DEF TextBox
  <1> QED
    BY <1>6, <1>7, <1>8, <1>9 DEF s, FirstKnown

\* Behind a page that is known, back_lines finds its first line again, and the
\* flags are right.
LEMMA PlaceIsKnown ==
    ASSUME NEW text, WholeText(text), NEW s \in TextBox(text), NEW h \in Nat \ {0},
           PageKnown(s, h)
    PROVE  /\ TextSame(s).page = s.top
           /\ s.begin_reached = (s.top = 0)
           /\ s.end_reached = (LineAt(s.text, s.top) + s.page_length
                               = LineAt(s.text, Len(s.text)) + 1)
  <1> DEFINE r == LineAt(text, s.top)
             b == TextSame(s)
  <1>1. /\ r \in 0 .. Lines(text) /\ s.page_length \in Nat \ {0}
        /\ Spot(s) = r + s.page_length
        /\ s.end_reached <=> r + s.page_length = Lines(text) + 1
        /\ s.top \in Starts(text) /\ s.text = text
    BY SpotBehind
  <1>2. s.begin_reached \in BOOLEAN /\ s.end_reached \in BOOLEAN
    BY DEF TextBox
  <1>3. b.page = s.top
    <2>1. b = back_lines(s, s.page_length) /\ s.page_length \in Int
      BY <1>1 DEF TextSame
    <2> HIDE DEF b
    <2>2. /\ b \in TextBox(text)
          /\ Spot(b) = IF s.page_length <= 0 THEN Spot(s)
                       ELSE IF s.page_length <= Spot(s) THEN Spot(s) - s.page_length ELSE 0
      BY <2>1, BackLines
    <2>3. Spot(b) = r
      BY <1>1, <2>2
    <2>4. Row(b) = r
      BY <1>1, <2>2, <2>3, Spots
    <2>5. b.text = text /\ b.page \in Starts(text)
      BY <2>2, Spots
    <2>6. LineAt(text, b.page) = LineAt(text, s.top)
      BY <2>4, <2>5 DEF Row
    <2> QED
      BY <1>1, <2>5, <2>6, RowOnce DEF WholeText
  <1>4. s.begin_reached <=> s.top = 0
    BY DEF PageKnown
  <1> QED
    BY <1>1, <1>2, <1>3, <1>4 DEF Lines
=============================================================================
