------------------------------ MODULE LxCursor ------------------------------
(***************************************************************************)
(* What a list on the screen promises, whatever part of it there is room   *)
(* for: one item is highlighted, each key moves the highlight as the       *)
(* instructions say, and <Enter> takes the highlighted item.               *)
(***************************************************************************)
EXTENDS Integers, Sequences

CONSTANTS
    Lists,      \* the lists: sequences of records with a letter
    NoItem      \* what is taken from an empty list

VARIABLES
    open,    \* a list is shown
    items,   \* the list
    cursor,  \* the highlighted item, counted from 0; 0 in an empty list
    key,     \* the key pressed last
    taken    \* the item that was taken last
vars == <<open, items, cursor, key, taken>>

Last == IF items = <<>> THEN 0 ELSE Len(items) - 1
Place(list) == IF list = <<>> THEN {0} ELSE 0 .. Len(list) - 1

Init ==
    /\ open = FALSE /\ items \in Lists /\ cursor \in Place(items)
    /\ key = "" /\ taken \in Int

\* A list is shown, from any item on.
Show ==
    /\ ~open /\ open' \in BOOLEAN
    /\ items' \in Lists /\ cursor' \in Place(items')
    /\ UNCHANGED <<key, taken>>

Pressed(k) == open /\ key' = k

MoveTo(item) == cursor' = item /\ UNCHANGED <<open, items, taken>>

\* One item, or a page of some items, up or down; no further than the ends.
Up   == Pressed("up")   /\ MoveTo(IF cursor > 0 THEN cursor - 1 ELSE 0)
Down == Pressed("down") /\ MoveTo(IF cursor < Last THEN cursor + 1 ELSE Last)
PageUp ==
    \E n \in 0 .. Len(items) :
        Pressed("ppage") /\ MoveTo(IF cursor > n THEN cursor - n ELSE 0)
PageDown ==
    \E n \in 0 .. Len(items) :
        Pressed("npage") /\ MoveTo(IF cursor + n < Last THEN cursor + n ELSE Last)

\* To an item with the letter that was pressed.
Hotkey ==
    \E i \in 0 .. Len(items) - 1 :
        Pressed(items[i + 1].letter) /\ MoveTo(i)

\* Other keys leave the highlight alone, but for a new size of the screen.
Other == /\ open /\ key' \in {"left", "right"}
         /\ UNCHANGED <<open, items, cursor, taken>>
Resize == /\ Pressed("resize") /\ open' \in BOOLEAN /\ cursor' \in Place(items)
          /\ UNCHANGED <<items, taken>>

\* The highlighted item is taken, if there is one.
Take ==
    /\ open /\ open' = FALSE
    /\ taken' = IF items = <<>> THEN NoItem ELSE items[cursor + 1].data
    /\ key' = "take" /\ UNCHANGED <<items, cursor>>
Leave == Pressed("esc") /\ open' = FALSE /\ UNCHANGED <<items, cursor, taken>>

Next ==
    \/ Show \/ Up \/ Down \/ PageUp \/ PageDown \/ Hotkey
    \/ Other \/ Resize \/ Take \/ Leave

Spec == Init /\ [][Next]_vars
=============================================================================
