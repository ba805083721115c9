------------------------------- MODULE LxLists -------------------------------
(***************************************************************************)
(* The two dialogs of menuconfig that show a list:                         *)
(* support/kconfig/lxdialog/menubox.c and checklist.c, with the list of    *)
(* items of util.c.                                                        *)
(*                                                                         *)
(* A dialog shows max consecutive items from the item scroll on; choice is *)
(* the row of the highlighted one.  It draws a row when it thinks it has   *)
(* changed, so that what is on the screen is state of its own: the item on *)
(* each row, the rows that are highlighted, the arrows.  Items and rows    *)
(* are counted from 0.                                                     *)
(***************************************************************************)
EXTENDS Integers, Sequences

MIN(x, y) == IF x < y THEN x ELSE y
MAX(x, y) == IF x > y THEN x ELSE y

\* An item: what it stands for, its hotkey, and whether it has the tag X.
item_str(items, i) == items[i + 1].letter
item_data(items, i) == items[i + 1].data

\* The first and the last element of a set of numbers.
Lowest(S)  == CHOOSE i \in S : \A j \in S : i <= j
Highest(S) == CHOOSE i \in S : \A j \in S : j <= i

Nothing == -1   \* on a row

\* A dialog before its first drawing.
NewList(items, choice) ==
    [items |-> items, height |-> 0, max |-> 0, scroll |-> 0, choice |-> choice,
     first |-> 0, rows |-> <<>>, lit |-> {}, up |-> FALSE, down |-> FALSE]

Count(w) == Len(w.items)
Cursor(w) == w.scroll + w.choice

-----------------------------------------------------------------------------
\* The screen.

print_item(w, i, row, selected) ==
    [w EXCEPT !.rows = [@ EXCEPT ![row] = i],
              !.lit = IF selected THEN @ \union {row} ELSE @ \ {row}]

\* The window drawn anew, from the item first on.
PrintAll(w, first) ==
    [w EXCEPT !.rows = [r \in 0 .. w.height - 1 |-> IF r < w.max THEN first + r ELSE Nothing],
              !.lit = IF w.choice < w.max THEN {w.choice} ELSE {}]

\* wscrl: the rows move up by n, or down when n is negative.
do_scroll(w, n) ==
    [w EXCEPT
        !.scroll = @ + n,
        !.rows = [r \in 0 .. w.height - 1 |->
                     IF r + n \in 0 .. w.height - 1 THEN w.rows[r + n] ELSE Nothing],
        !.lit = {r - n : r \in w.lit} \intersect (0 .. w.height - 1)]

\* Scrolled down by n items, the n first rows printed as they come up; or up.
ScrollDown(w, n) ==
    LET s == do_scroll(w, -n)
    IN  [s EXCEPT !.rows = [r \in DOMAIN @ |-> IF r < n THEN s.scroll + r ELSE @[r]]]
ScrollUp(w, n) ==
    LET s == do_scroll(w, n)
    IN  [s EXCEPT !.rows = [r \in DOMAIN @ |->
                               IF r \in w.max - n .. w.max - 1 THEN s.scroll + r ELSE @[r]]]

menu_arrows(w) ==
    [w EXCEPT !.up = w.scroll > 0,
              !.down = w.height < Count(w) /\ w.scroll + w.height < Count(w)]
check_arrows(w) ==
    [w EXCEPT !.up = w.scroll > 0,
              !.down = w.height < Count(w) /\ w.scroll + w.choice < Count(w) - 1]

-----------------------------------------------------------------------------
\* dialog_menu.

MENUBOX_HEIGTH_MIN == 15
MenuFits(lines) == lines >= MENUBOX_HEIGTH_MIN
MenuHeight(lines) == lines - 4 - 10

\* The default item: the last one that stands for what the caller selected.
DefaultItem(items, selected, choice) ==
    LET at == {i \in 0 .. Len(items) - 1 : item_data(items, i) = selected}
    IN  IF at = {} THEN choice ELSE Highest(at)

\* Mutant: bogus scroll info is not rejected.
FitsWhenAhead(saved, choice, max, count) == saved <= choice /\ saved >= 0

\* The saved scroll info is used when it shows the default item in a full window.
Fits(saved, choice, max, count) ==
    saved <= choice /\ saved + max > choice /\ saved >= 0 /\ saved + max <= count

\* Otherwise the default item is put in the middle, or on the last page.
Middle(choice, max, count) ==
    IF choice < max THEN 0
    ELSE IF choice >= count - max \div 2 THEN count - max
    ELSE choice - max \div 2

\* do_resize: where the window is put.  When it begins at the top, because the
\* saved scroll info is not used, first_item is what it was before.
MenuPlace(w, choice, saved) ==
    LET fits == Fits(saved, choice, w.max, Count(w))
        top  == IF fits THEN saved ELSE Middle(choice, w.max, Count(w))
    IN  [w EXCEPT !.scroll = top, !.choice = choice - top,
                  !.first = IF fits \/ choice >= w.max THEN top ELSE @]

Sized(w, height) == [w EXCEPT !.height = height, !.max = MIN(height, Count(w))]

MenuDraw(w, lines, selected, saved) ==
    LET p == MenuPlace(Sized(w, MenuHeight(lines)),
                       DefaultItem(w.items, selected, w.choice), saved)
    IN  menu_arrows(PrintAll(p, p.first))

\* Printing an item past the end reads through a null pointer.
Broken(w) == \E r \in 0 .. w.max - 1 : w.rows[r] >= Count(w)

\* A key that moves: the highlight goes from the old item to the new one.
Unlit(w) == print_item(w, Cursor(w), w.choice, FALSE)
Lit(w)   == print_item(w, Cursor(w), w.choice, TRUE)

MenuUp(w) ==
    LET u == Unlit(w)
    IN  menu_arrows(Lit(IF w.choice < 2 /\ w.scroll > 0 THEN ScrollDown(u, 1)
                        ELSE [u EXCEPT !.choice = MAX(@ - 1, 0)]))

MenuDown(w) ==
    LET u == Unlit(w)
    IN  menu_arrows(Lit(IF w.choice > w.max - 3 /\ w.scroll + w.max < Count(w)
                        THEN ScrollUp(u, 1)
                        ELSE [u EXCEPT !.choice = MIN(@ + 1, w.max - 1)]))

\* KEY_PPAGE, KEY_NPAGE: max times, scroll while there are items to scroll to,
\* then move the highlight.
MenuPageUp(w) ==
    LET n == MIN(w.scroll, w.max)
    IN  menu_arrows(Lit([ScrollDown(Unlit(w), n) EXCEPT !.choice = MAX(@ - (w.max - n), 0)]))

MenuPageDown(w) ==
    LET n == MIN(Count(w) - (w.scroll + w.max), w.max)
    IN  menu_arrows(Lit([ScrollUp(Unlit(w), n) EXCEPT !.choice = MIN(@ + w.max - n, w.max - 1)]))

\* The rows whose item has the hotkey c.
Hits(w, c) == {r \in 0 .. w.max - 1 : item_str(w.items, w.scroll + r) = c}

\* The next row with the hotkey, from the top again after the last one.
MenuHotkey(w, c) ==
    LET after == {r \in Hits(w, c) : r > w.choice}
    IN  menu_arrows(Lit([Unlit(w) EXCEPT !.choice =
                            Lowest(IF after # {} THEN after ELSE Hits(w, c))]))

-----------------------------------------------------------------------------
\* dialog_checklist.

CHECKLIST_HEIGTH_MIN == 6
\* conf_choice asks for the height of the smallest menu.
CheckFits(lines) == lines >= MENUBOX_HEIGTH_MIN + CHECKLIST_HEIGTH_MIN
ListHeight == CHECKLIST_HEIGTH_MIN

\* Which item to highlight: the selected one, else the last with the tag X.
ActiveItem(items, selected) ==
    LET at     == {i \in 0 .. Len(items) - 1 : item_data(items, i) = selected}
        tagged == {i \in 0 .. Len(items) - 1 : items[i + 1].tagged}
    IN  IF at # {} THEN Lowest(at) ELSE IF tagged # {} THEN Highest(tagged) ELSE 0

CheckPlace(w) ==
    IF w.choice >= w.height
    THEN [w EXCEPT !.scroll = w.choice - w.height + 1, !.choice = w.height - 1]
    ELSE w

CheckDraw(w) ==
    LET p == CheckPlace(Sized(w, ListHeight)) IN check_arrows(PrintAll(p, p.scroll))

\* The highlight moves to another row of the window.
CheckMove(w, row) == Lit([Unlit(w) EXCEPT !.choice = row])

\* KEY_UP on the first row, KEY_DOWN on the last one: the list scrolls, and the
\* arrows are drawn again.
CheckUp(w) ==
    IF w.choice > 0 THEN CheckMove(w, w.choice - 1)
    ELSE IF w.scroll = 0 THEN w
    ELSE check_arrows(Lit(ScrollDown(Unlit(w), 1)))

\* Mutant: the highlight stays on the row the item scrolls away from.
CheckDownLeavesLit(w) ==
    IF w.choice # w.max - 1 THEN CheckMove(w, w.choice + 1)
    ELSE IF Cursor(w) >= Count(w) - 1 THEN w
    ELSE check_arrows(Lit(ScrollUp(w, 1)))

CheckDown(w) ==
    IF w.choice # w.max - 1 THEN CheckMove(w, w.choice + 1)
    ELSE IF Cursor(w) >= Count(w) - 1 THEN w
    ELSE check_arrows(Lit(ScrollUp(Unlit(w), 1)))

\* The first row of the window whose item begins with the letter.
CheckHotkey(w, c) == CheckMove(w, Lowest(Hits(w, c)))
=============================================================================
