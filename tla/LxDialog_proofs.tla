--------------------------- MODULE LxDialog_proofs ---------------------------
(***************************************************************************)
(* Theorems of LxDialog: whatever lists are shown, on terminals of         *)
(* whatever sizes, the highlight is on an item, the keys move it as        *)
(* LxCursor says, and what is on the screen is what the dialog acts on.    *)
(***************************************************************************)
EXTENDS LxDialog, LxWidgets_proofs

ListKinds == {"menu", "check"}
Known == Lists["menu"] \union Lists["check"] \union {<<>>}

\* What is known of a dialog between two keys.
DialogInv ==
    /\ lines \in Sizes
    /\ keep = [scroll |-> keep.scroll, data |-> keep.data]
    /\ dialog = "menu" => keep.scroll \in Int
    /\ dialog \in ListKinds => button \in 0 .. LastButton
    /\ dialog \notin ListKinds => w = NewList(<<>>, 0)
    /\ w.items \in Known
    /\ Shows(ListKinds) => ListOK(w)
    /\ Shows({"check"}) => w.height = ListHeight /\ w.items # <<>>

LEMMA NewListIs ==
    ASSUME NEW items, NEW c
    PROVE  LET l == NewList(items, c) IN
           /\ Shape(l) /\ l.items = items /\ l.choice = c /\ l.scroll = 0 /\ l.first = 0
  BY DEF NewList, Shape, Fields

LEMMA InitInv == Init => DialogInv
  <1> SUFFICES ASSUME Init PROVE DialogInv
    OBVIOUS
  <1>1. lines \in Sizes /\ keep = [scroll |-> 0, data |-> NoData] /\ button = 0
        /\ w = NewList(<<>>, 0) /\ phase = "closed"
    BY DEF Init
  <1>2. w.items = <<>>
    BY <1>1, NewListIs
  <1>3. keep.scroll = 0 /\ keep = [scroll |-> keep.scroll, data |-> keep.data]
    BY <1>1
  <1>4. button \in 0 .. LastButton
    BY <1>1 DEF LastButton
  <1> QED
    BY <1>1, <1>2, <1>3, <1>4 DEF DialogInv, Known, Shows

-----------------------------------------------------------------------------
\* Keys of a list.

\* A key of a list that moves the highlight to the item c.
LEMMA ListStep ==
    ASSUME DialogInv, NEW kind \in ListKinds, NEW k, NEW next, NEW c,
           List(kind, k, next), Moved(w, next, c)
    PROVE  DialogInv' /\ Promised!Pressed(k) /\ Promised!MoveTo(c)
  <1>1. /\ dialog = kind /\ phase = "open" /\ w.items # <<>> /\ w' = next /\ key' = k
        /\ UNCHANGED <<dialog, lines, keep, resized, phase, button, t, e>>
    BY DEF List, Shows, Press, Stay, buttons, ListKinds, DialogInv
  <1>2. ListOK(w') /\ w'.items = w.items /\ w'.height = w.height /\ Cursor(w)' = c
    BY <1>1 DEF Moved, Cursor
  <1>3. DialogInv'
    BY <1>1, <1>2 DEF DialogInv, Shows, LastButton, ListKinds, ListOK, Shape, Count
  <1>4. Promised!Pressed(k) /\ Promised!MoveTo(c)
    BY <1>1, <1>2 DEF ListKinds, IsList, Promised!Pressed, Promised!MoveTo
  <1> QED
    BY <1>3, <1>4

\* The highlight of a list on the screen.
LEMMA Highlight ==
    ASSUME DialogInv, NEW kind \in ListKinds, NEW k, NEW next, List(kind, k, next)
    PROVE  ListOK(w) /\ w.items # <<>> /\ dialog = kind /\ Numbers(w)
  BY Bounds DEF DialogInv, List, Shows, ListKinds

LEMMA MovesStep ==
    ASSUME DialogInv, MenuMoves \/ CheckMoves
    PROVE  DialogInv' /\ Promised!Next
  <1> DEFINE last == Count(w) - 1
  <1>1. ASSUME NEW kind \in ListKinds, NEW k, NEW next, List(kind, k, next)
        PROVE  /\ ListOK(w) /\ w.items # <<>> /\ Numbers(w)
               /\ Promised!Last = last
    BY <1>1, Highlight DEF Promised!Last, Count
  <1>2. CASE List("menu", "up", MenuUp(w)) \/ List("check", "up", CheckUp(w))
    <2> DEFINE c == MAX(Cursor(w) - 1, 0)
    <2>1. ListOK(w) /\ w.items # <<>> /\ Numbers(w)
      BY <1>1, <1>2 DEF ListKinds
    <2>2. c = IF Cursor(w) > 0 THEN Cursor(w) - 1 ELSE 0
      BY <2>1 DEF Numbers, Cursor, MAX
    <2>3. Moved(w, MenuUp(w), c) /\ Moved(w, CheckUp(w), c)
      BY <2>1, MenuUpOK, CheckUpOK
    <2> HIDE DEF c
    <2>4. DialogInv' /\ Promised!Pressed("up") /\ Promised!MoveTo(c)
      BY <1>2, <2>3, ListStep DEF ListKinds
    <2> QED
      BY <2>1, <2>2, <2>4 DEF Promised!Next, Promised!Up
  <1>3. CASE List("menu", "down", MenuDown(w)) \/ List("check", "down", CheckDown(w))
    <2> DEFINE c == MIN(Cursor(w) + 1, last)
    <2>1. ListOK(w) /\ w.items # <<>> /\ Numbers(w) /\ Promised!Last = last
      BY <1>1, <1>3 DEF ListKinds
    <2>2. c = IF Cursor(w) < last THEN Cursor(w) + 1 ELSE last
      BY <2>1 DEF Numbers, Cursor, MIN
    <2>3. Moved(w, MenuDown(w), c) /\ Moved(w, CheckDown(w), c)
      BY <2>1, MenuDownOK, CheckDownOK
    <2> HIDE DEF c
    <2>4. DialogInv' /\ Promised!Pressed("down") /\ Promised!MoveTo(c)
      BY <1>3, <2>3, ListStep DEF ListKinds
    <2> QED
      BY <2>1, <2>2, <2>4 DEF Promised!Next, Promised!Down
  <1>4. CASE List("menu", "ppage", MenuPageUp(w))
    <2> DEFINE c == MAX(Cursor(w) - w.max, 0)
    <2>1. ListOK(w) /\ w.items # <<>> /\ Numbers(w)
      BY <1>1, <1>4 DEF ListKinds
    <2>2. w.max \in 0 .. Len(w.items)
          /\ c = IF Cursor(w) > w.max THEN Cursor(w) - w.max ELSE 0
      BY <2>1 DEF Numbers, Count, Cursor, MAX
    <2>3. Moved(w, MenuPageUp(w), c)
      BY <2>1, MenuPageUpOK
    <2> HIDE DEF c
    <2>4. DialogInv' /\ Promised!Pressed("ppage") /\ Promised!MoveTo(c)
      BY <1>4, <2>3, ListStep DEF ListKinds
    <2> QED
      BY <2>1, <2>2, <2>4 DEF Promised!Next, Promised!PageUp
  <1>5. CASE List("menu", "npage", MenuPageDown(w))
    <2> DEFINE c == MIN(Cursor(w) + w.max, last)
    <2>1. ListOK(w) /\ w.items # <<>> /\ Numbers(w) /\ Promised!Last = last
      BY <1>1, <1>5 DEF ListKinds
    <2>2. w.max \in 0 .. Len(w.items)
          /\ c = IF Cursor(w) + w.max < last THEN Cursor(w) + w.max ELSE last
      BY <2>1 DEF Numbers, Count, Cursor, MIN
    <2>3. Moved(w, MenuPageDown(w), c)
      BY <2>1, MenuPageDownOK
    <2> HIDE DEF c
    <2>4. DialogInv' /\ Promised!Pressed("npage") /\ Promised!MoveTo(c)
      BY <1>5, <2>3, ListStep DEF ListKinds
    <2> QED
      BY <2>1, <2>2, <2>4 DEF Promised!Next, Promised!PageDown
  <1> QED
    BY <1>2, <1>3, <1>4, <1>5 DEF MenuMoves, CheckMoves

LEMMA HotkeysStep ==
    ASSUME DialogInv, Hotkeys
    PROVE  DialogInv' /\ Promised!Next
  <1>1. PICK c : /\ Hits(w, c) # {}
                 /\ List("menu", c, MenuHotkey(w, c)) \/ List("check", c, CheckHotkey(w, c))
    BY DEF Hotkeys, IsHotkey
  <1>2. ListOK(w) /\ w.items # <<>> /\ Numbers(w)
    BY <1>1, Highlight DEF ListKinds
  <1>3. PICK row \in 0 .. w.max - 1 :
            /\ item_str(w.items, w.scroll + row) = c
            /\ DialogInv' /\ Promised!Pressed(c) /\ Promised!MoveTo(w.scroll + row)
    <2>1. CASE List("menu", c, MenuHotkey(w, c))
      BY <1>1, <1>2, <2>1, MenuHotkeyOK, ListStep DEF ListKinds
    <2>2. CASE List("check", c, CheckHotkey(w, c))
      BY <1>1, <1>2, <2>2, CheckHotkeyOK, ListStep DEF ListKinds
    <2> QED
      BY <1>1, <2>1, <2>2
  <1>4. /\ w.scroll + row \in 0 .. Len(w.items) - 1
        /\ w.items[(w.scroll + row) + 1].letter = c
    BY <1>2, <1>3 DEF Numbers, Count, item_str
  <1> QED
    BY <1>3, <1>4 DEF Promised!Next, Promised!Hotkey

-----------------------------------------------------------------------------
\* Other steps.

\* A dialog that shows no list.
LEMMA OthersStep ==
    ASSUME DialogInv, dialog \notin ListKinds, dialog' = dialog, w' = w, lines' \in Sizes,
           keep' = [scroll |-> keep'.scroll, data |-> keep.data]
    PROVE  DialogInv' /\ UNCHANGED Promised!vars
  <1>1. keep'.data = keep.data
    OBVIOUS
  <1>2. DialogInv'
    BY <1>1 DEF DialogInv, Shows, ListKinds, LastButton
  <1>3. UNCHANGED Promised!vars
    BY <1>1 DEF Promised!vars, IsList, ListKinds, Cursor
  <1> QED
    BY <1>2, <1>3

\* A list that is closed.
LEMMA ClosedStep ==
    ASSUME DialogInv, dialog \in ListKinds, dialog' = dialog, w' = w, button' = button,
           lines' \in Sizes, phase' # "open",
           keep' = [scroll |-> keep'.scroll, data |-> keep'.data],
           dialog = "menu" => keep'.scroll \in Int
    PROVE  DialogInv'
  BY DEF DialogInv, Shows, ListKinds, LastButton

\* A list that is drawn, or not for want of lines.
LEMMA DrawnPlace ==
    ASSUME NEW l, ListOK(l)
    PROVE  (IF l.items = <<>> THEN 0 ELSE Cursor(l)) \in Promised!Place(l.items)
  <1>1. CASE l.items = <<>>
    BY <1>1 DEF Promised!Place
  <1>2. CASE l.items # <<>>
    BY <1>2, Bounds DEF Numbers, Cursor, Count, Promised!Place
  <1> QED
    BY <1>1, <1>2

LEMMA OpenMenuStep ==
    ASSUME DialogInv, DialogAssumption, OpenMenu
    PROVE  DialogInv' /\ Promised!Next
  <1>1. PICK items \in Lists["menu"] :
            w' = IF MenuFits(lines) THEN MenuDraw(NewList(items, 0), lines, keep.data, keep.scroll)
                                    ELSE NewList(items, 0)
    BY DEF OpenMenu
  <1>2. /\ dialog = "menu" /\ phase = "closed" /\ button' = 0
        /\ phase' = IF MenuFits(lines) THEN "open" ELSE "closed"
        /\ UNCHANGED <<dialog, lines, key, keep>>
    BY DEF OpenMenu, Opened
  <1> DEFINE new == NewList(items, 0)
  <1>3. Shape(new) /\ new.items = items /\ new.choice = 0
    BY NewListIs
  <1>4. items \in Seq(Item) /\ lines \in Nat /\ keep.scroll \in Int
    BY <1>2 DEF DialogInv, DialogAssumption
  <1>5. Count(new) \in Nat /\ (items = <<>> <=> Count(new) = 0)
    BY <1>3, <1>4 DEF Count
  <1> HIDE DEF new
  <1>6. CASE MenuFits(lines)
    <2>1. Drawn(new, w', MenuHeight(lines))
      BY <1>1, <1>3, <1>4, <1>5, <1>6, MenuDrawOK DEF new
    <2>2. ListOK(w') /\ w'.items = items
      BY <1>3, <2>1 DEF Drawn
    <2>3. DialogInv'
      BY <1>2, <2>2 DEF DialogInv, Shows, ListKinds, LastButton, Known, ListOK, Count, Shape
    <2>4. Promised!Show
      BY <1>2, <2>2, DrawnPlace
         DEF Promised!Show, IsList, Known, Cursor
    <2> QED
      BY <2>3, <2>4 DEF Promised!Next
  <1>7. CASE ~MenuFits(lines)
    <2>1. w'.items = items /\ w'.scroll = 0 /\ w'.choice = 0
      BY <1>1, <1>7, NewListIs
    <2>2. DialogInv'
      BY <1>2, <1>7, <2>1 DEF DialogInv, Shows, ListKinds, LastButton, Known
    <2>3. (IF w'.items = <<>> THEN 0 ELSE Cursor(w')) \in Promised!Place(w'.items)
      BY <1>3, <1>5, <2>1 DEF Cursor, Promised!Place, Count
    <2>4. Promised!Show
      BY <1>2, <1>7, <2>1, <2>3 DEF Promised!Show, IsList, Known, Cursor
    <2> QED
      BY <2>2, <2>4 DEF Promised!Next
  <1> QED
    BY <1>6, <1>7

LEMMA ActiveIn ==
    ASSUME NEW items, NEW n \in Nat, Len(items) = n, NEW data
    PROVE  /\ n > 0 => ActiveItem(items, data) \in 0 .. n - 1
           /\ n = 0 => ActiveItem(items, data) = 0
  <1> DEFINE at     == {i \in 0 .. Len(items) - 1 : item_data(items, i) = data}
             tagged == {i \in 0 .. Len(items) - 1 : items[i + 1].tagged}
  <1>1. ActiveItem(items, data) =
            IF at # {} THEN Lowest(at) ELSE IF tagged # {} THEN Highest(tagged) ELSE 0
    BY DEF ActiveItem
  <1>2. CASE n = 0
    <2>1. at = {} /\ tagged = {}
      BY <1>2
    <2> QED
      BY <1>1, <1>2, <2>1
  <1>3. CASE n > 0
    <2>1. at \in SUBSET Nat /\ at \in SUBSET (0 .. (n - 1)) /\ tagged \in SUBSET (0 .. (n - 1))
      OBVIOUS
    <2> HIDE DEF at, tagged
    <2>2. at # {} => Lowest(at) \in 0 .. (n - 1)
      BY <2>1, LowestIn
    <2>3. n - 1 \in Nat
      BY <1>3
    <2>4. tagged # {} => Highest(tagged) \in 0 .. (n - 1)
      BY <2>1, <2>3, HighestIn
    <2> QED
      BY <1>1, <1>3, <2>2, <2>4
  <1> QED
    BY <1>2, <1>3

LEMMA OpenCheckStep ==
    ASSUME DialogInv, DialogAssumption, OpenCheck
    PROVE  DialogInv' /\ Promised!Next
  <1>1. PICK items \in Lists["check"] :
            w' = IF CheckFits(lines) THEN CheckDraw(NewList(items, ActiveItem(items, keep.data)))
                                     ELSE NewList(items, 0)
    BY DEF OpenCheck
  <1>2. /\ dialog = "check" /\ phase = "closed" /\ button' = 0
        /\ phase' = IF CheckFits(lines) THEN "open" ELSE "closed"
        /\ UNCHANGED <<dialog, lines, key, keep>>
    BY DEF OpenCheck, Opened
  <1> DEFINE c == ActiveItem(items, keep.data)
             new == NewList(items, c)
  <1>3. Shape(new) /\ new.items = items /\ new.choice = c /\ new.scroll = 0
    BY NewListIs
  <1>4. items \in Seq(Item) /\ items # <<>>
    BY DEF DialogAssumption
  <1>5. Count(new) \in Nat /\ Count(new) = Len(items) /\ (items = <<>> <=> Count(new) = 0)
    BY <1>3, <1>4 DEF Count
  <1>6. /\ Count(new) > 0 => c \in 0 .. Count(new) - 1
        /\ Count(new) = 0 => c = 0
    BY <1>5, ActiveIn
  <1>7. MIN(ListHeight, Count(new)) <= Count(new)
    BY <1>5 DEF MIN, ListHeight, CHECKLIST_HEIGTH_MIN
  <1> HIDE DEF new, c
  <1>8. CASE CheckFits(lines)
    <2>0. w' = CheckDraw(new)
      BY <1>1, <1>8 DEF new, c
    <2>1. Drawn(new, w', ListHeight)
      <3>1. c \in Nat /\ 0 + MIN(ListHeight, Count(new)) <= Count(new)
        BY <1>5, <1>6, <1>7 DEF MIN, ListHeight, CHECKLIST_HEIGTH_MIN
      <3> QED
        BY <2>0, <1>3, <1>5, <1>6, <3>1, CheckDrawOK
    <2>2. ListOK(w') /\ w'.items = items /\ w'.height = ListHeight
      BY <1>3, <2>1 DEF Drawn
    <2>3. DialogInv'
      BY <1>2, <1>4, <2>2
         DEF DialogInv, Shows, ListKinds, LastButton, Known, ListOK, Count, Shape
    <2>4. Promised!Show
      BY <1>2, <2>2, DrawnPlace
         DEF Promised!Show, IsList, Known, Cursor
    <2> QED
      BY <2>3, <2>4 DEF Promised!Next
  <1>9. CASE ~CheckFits(lines)
    <2>1. w'.items = items /\ w'.scroll = 0 /\ w'.choice = 0
      BY <1>1, <1>9, NewListIs
    <2>2. DialogInv'
      BY <1>2, <1>9, <2>1 DEF DialogInv, Shows, ListKinds, LastButton, Known
    <2>3. (IF w'.items = <<>> THEN 0 ELSE Cursor(w')) \in Promised!Place(w'.items)
      BY <1>3, <1>5, <2>1 DEF Cursor, Promised!Place, Count
    <2>4. Promised!Show
      BY <1>2, <1>9, <2>1, <2>3 DEF Promised!Show, IsList, Known, Cursor
    <2> QED
      BY <2>2, <2>4 DEF Promised!Next
  <1> QED
    BY <1>8, <1>9

LEMMA ButtonsStep ==
    ASSUME DialogInv, Buttons, dialog \in ListKinds
    PROVE  DialogInv' /\ Promised!Next
  <1>1. button \in 0 .. LastButton /\ LastButton \in Nat /\ FirstButton = 0
    BY DEF DialogInv, LastButton, FirstButton, ListKinds
  <1>2. /\ phase = "open" /\ key' \in {"left", "right"} /\ button' \in {ButtonLeft, ButtonRight}
        /\ UNCHANGED <<dialog, lines, keep, phase, w>>
    BY <1>1 DEF Buttons, Shows, Button, Press, Stay, shown
  <1>3. button' \in 0 .. LastButton
    BY <1>1, <1>2 DEF ButtonLeft, ButtonRight
  <1>4. DialogInv'
    BY <1>2, <1>3 DEF DialogInv, Shows, LastButton, ListKinds
  <1>5. Promised!Other
    BY <1>2 DEF Promised!Other, IsList, ListKinds, Cursor
  <1> QED
    BY <1>4, <1>5 DEF Promised!Next

LEMMA TakeStep ==
    ASSUME DialogInv, TakeMenu \/ TakeCheck
    PROVE  DialogInv' /\ Promised!Next
  <1>1. /\ dialog \in ListKinds /\ phase = "open" /\ phase' = "closed" /\ key' = "take"
        /\ UNCHANGED <<dialog, lines, button, w>>
    BY DEF TakeMenu, TakeCheck, Answer, Shows, buttons, shown, ListKinds
  <1>2. ListOK(w)
    BY <1>1 DEF DialogInv, Shows
  <1>3. /\ keep'.data = Active
        /\ keep' = [scroll |-> keep'.scroll, data |-> keep'.data]
        /\ dialog = "menu" => keep'.scroll \in Int
    <2>1. CASE TakeMenu
      BY <1>2, <2>1 DEF TakeMenu, ListOK
    <2>2. CASE TakeCheck
      BY <2>2 DEF TakeCheck, DialogInv, Shows
    <2> QED
      BY <2>1, <2>2
  <1>4. DialogInv'
    BY <1>1, <1>3, ClosedStep DEF DialogInv
  <1>5. Promised!Take
    BY <1>1, <1>3 DEF Promised!Take, Active, IsList, ListKinds, item_data, Cursor
  <1> QED
    BY <1>4, <1>5 DEF Promised!Next

LEMMA LeaveStep ==
    ASSUME DialogInv, Leave
    PROVE  DialogInv' /\ [Promised!Next]_(Promised!vars)
  <1>1. /\ phase = "open" /\ phase' = "closed" /\ key' = "esc"
        /\ UNCHANGED <<dialog, lines, button, w, keep>>
    BY DEF Leave, Answer, Shows, buttons, shown
  <1>2. CASE dialog \in ListKinds
    <2>1. DialogInv'
      BY <1>1, <1>2, ClosedStep DEF DialogInv
    <2>2. Promised!Leave
      BY <1>1, <1>2 DEF Promised!Leave, Promised!Pressed, IsList, ListKinds, Cursor
    <2> QED
      BY <2>1, <2>2 DEF Promised!Next
  <1>3. CASE dialog \notin ListKinds
    BY <1>1, <1>3, OthersStep DEF DialogInv
  <1> QED
    BY <1>2, <1>3

LEMMA ResizeMenuStep ==
    ASSUME DialogInv, DialogAssumption, NEW next \in Sizes, ResizeMenu(next)
    PROVE  DialogInv' /\ Promised!Next
  <1>1. /\ dialog = "menu" /\ phase = "open" /\ key' = "resize" /\ lines' = next
        /\ UNCHANGED <<dialog, button, keep>>
        /\ w' = IF MenuFits(next) THEN MenuDraw(w, next, keep.data, keep.scroll) ELSE w
        /\ ~MenuFits(next) => phase' = "closed"
    BY DEF ResizeMenu, Redrawn, Shows
  <1>2. ListOK(w) /\ keep.scroll \in Int /\ next \in Nat
    BY <1>1 DEF DialogInv, DialogAssumption, Shows, ListKinds
  <1>3. ListOK(w') /\ w'.items = w.items
    <2>1. CASE MenuFits(next)
      <3>1. Count(w) > 0 => w.choice \in 0 .. Count(w) - 1
        BY <1>2, Bounds DEF ListOK, Numbers
      <3>2. Count(w) = 0 => w.choice = 0
        BY <1>2 DEF ListOK
      <3>3. Drawn(w, w', MenuHeight(next))
        BY <1>1, <1>2, <2>1, <3>1, <3>2, MenuDrawOK DEF ListOK
      <3> QED
        BY <3>3 DEF Drawn
    <2>2. CASE ~MenuFits(next)
      BY <1>1, <1>2, <2>2
    <2> QED
      BY <2>1, <2>2
  <1>4. DialogInv'
    BY <1>1, <1>3 DEF DialogInv, Shows, ListKinds, LastButton, ListOK, Count, Shape
  <1>5. Promised!Resize
    BY <1>1, <1>3, DrawnPlace DEF Promised!Resize, Promised!Pressed, IsList, Cursor
  <1> QED
    BY <1>4, <1>5 DEF Promised!Next

LEMMA ResizeCheckStep ==
    ASSUME DialogInv, DialogAssumption, NEW next \in Sizes, ResizeCheck(next)
    PROVE  DialogInv' /\ Promised!Next
  <1>1. /\ dialog = "check" /\ phase = "open" /\ key' = "resize" /\ lines' = next
        /\ UNCHANGED <<dialog, button, keep>>
        /\ w' = IF CheckFits(next) THEN CheckDraw(w) ELSE w
    BY DEF ResizeCheck, Redrawn, Shows
  <1>2. ListOK(w) /\ w.height = ListHeight /\ w.items # <<>>
    BY <1>1 DEF DialogInv, Shows, ListKinds
  <1>3. ListOK(w') /\ w'.items = w.items /\ w'.height = ListHeight
    <2>1. CASE CheckFits(next)
      <3>1. Count(w) > 0 => w.choice \in 0 .. Count(w) - 1
        BY <1>2, Bounds DEF ListOK, Numbers
      <3>2. Count(w) = 0 => w.choice = 0
        BY <1>2 DEF ListOK
      <3>3. w.scroll \in Nat /\ w.scroll + MIN(ListHeight, Count(w)) <= Count(w)
        BY <1>2 DEF ListOK
      <3>4. Drawn(w, w', ListHeight)
        BY <1>1, <1>2, <2>1, <3>1, <3>2, <3>3, CheckDrawOK DEF ListOK
      <3> QED
        BY <3>4 DEF Drawn
    <2>2. CASE ~CheckFits(next)
      BY <1>1, <1>2, <2>2
    <2> QED
      BY <2>1, <2>2
  <1>4. DialogInv'
    BY <1>1, <1>2, <1>3 DEF DialogInv, Shows, ListKinds, LastButton, ListOK, Count, Shape
  <1>5. Promised!Resize
    BY <1>1, <1>3, DrawnPlace DEF Promised!Resize, Promised!Pressed, IsList, Cursor
  <1> QED
    BY <1>4, <1>5 DEF Promised!Next

\* The steps of the dialogs that show no list.
LEMMA NoListStep ==
    ASSUME DialogInv, DialogAssumption,
           \/ OpenText \/ OpenInput \/ OpenYesno \/ TextMoves \/ EntryMoves
           \/ Buttons /\ dialog \notin ListKinds
           \/ LeaveText \/ TakeOther
           \/ \E next \in Sizes : ResizeText(next) \/ ResizeInput(next) \/ ResizeYesno(next)
    PROVE  DialogInv' /\ UNCHANGED Promised!vars
  <1>1. dialog \notin ListKinds /\ dialog' = dialog /\ w' = w /\ lines' \in Sizes
    BY DEF OpenText, OpenInput, OpenYesno, Opened, TextMoves, Text, EntryMoves, Entry, Buttons,
           Button, Press, LeaveText, TakeOther, Answer, ResizeText, ResizeInput, ResizeYesno,
           Redrawn, Shows, shown, ListKinds, DialogInv
  <1>2. keep' = keep \/ keep' = [keep EXCEPT !.scroll = TextScroll(t)]
    BY DEF OpenText, OpenInput, OpenYesno, Opened, TextMoves, Text, EntryMoves, Entry, Buttons,
           Button, Press, LeaveText, TakeOther, Answer, ResizeText, ResizeInput, ResizeYesno,
           Redrawn
  <1>3. keep' = [scroll |-> keep'.scroll, data |-> keep.data]
    BY <1>2 DEF DialogInv
  <1> QED
    BY <1>1, <1>3, OthersStep

LEMMA NextStep ==
    ASSUME DialogInv, [Next]_vars
    PROVE  DialogInv' /\ [Promised!Next]_(Promised!vars)
  <1>1. CASE UNCHANGED vars
    BY <1>1 DEF vars, DialogInv, Shows, LastButton, ListOK, Shape, Count,
                Promised!vars, IsList, Cursor
  <1>2. CASE OpenMenu
    BY <1>2, OpenMenuStep, DialogAssumption
  <1>3. CASE OpenCheck
    BY <1>3, OpenCheckStep, DialogAssumption
  <1>4. CASE MenuMoves \/ CheckMoves
    BY <1>4, MovesStep
  <1>5. CASE Hotkeys
    BY <1>5, HotkeysStep
  <1>6. CASE Buttons /\ dialog \in ListKinds
    BY <1>6, ButtonsStep
  <1>7. CASE TakeMenu \/ TakeCheck
    BY <1>7, TakeStep
  <1>8. CASE Leave
    BY <1>8, LeaveStep
  <1>9. ASSUME NEW next \in Sizes, ResizeMenu(next) \/ ResizeCheck(next)
        PROVE  DialogInv' /\ Promised!Next
    BY <1>9, ResizeMenuStep, ResizeCheckStep, DialogAssumption
  <1>10. CASE \/ OpenText \/ OpenInput \/ OpenYesno \/ TextMoves \/ EntryMoves
              \/ Buttons /\ dialog \notin ListKinds
              \/ LeaveText \/ TakeOther
              \/ \E next \in Sizes : ResizeText(next) \/ ResizeInput(next) \/ ResizeYesno(next)
    BY <1>10, NoListStep, DialogAssumption
  <1> QED
    BY <1>1, <1>2, <1>3, <1>4, <1>5, <1>6, <1>7, <1>8, <1>9, <1>10 DEF Next, Open, Resize

-----------------------------------------------------------------------------
LEMMA InitStep == Init => Promised!Init
  <1> SUFFICES ASSUME Init PROVE Promised!Init
    OBVIOUS
  <1>1. phase = "closed" /\ w.items = <<>> /\ keep.data = NoData /\ key = ""
    BY NewListIs DEF Init
  <1>2. (IsList /\ phase = "open") = FALSE
    BY <1>1
  <1>3. w.items \in Lists["menu"] \union Lists["check"] \union {<<>>}
    BY <1>1
  <1>4. (IF w.items = <<>> THEN 0 ELSE Cursor(w)) \in Promised!Place(w.items)
    BY <1>1 DEF Promised!Place
  <1>5. (IF IsList THEN key ELSE "") = ""
    BY <1>1
  <1>6. keep.data \in Int
    <2>1. NoData \in Int
      BY DEF NoData
    <2> QED
      BY <1>1, <2>1
  <1> QED
    BY <1>2, <1>3, <1>4, <1>5, <1>6 DEF Promised!Init

(***************************************************************************)
(* The scrolling window is not to be seen: through any window a list       *)
(* behaves as LxCursor says, each key moving the highlight by as many      *)
(* items as the instructions promise, and <Enter> taking that item.        *)
(***************************************************************************)
THEOREM KeysMoveTheHighlight == Spec => KeysMoveIt
  <1> QED
    BY InitInv, InitStep, NextStep, PTL DEF Spec, KeysMoveIt, Promised!Spec

-----------------------------------------------------------------------------
\* What is drawn is what there is, until a menu is drawn for another size.
ScreenInv ==
    /\ Shows({"check"}) \/ (Shows({"menu"}) /\ ~resized) => OnScreen(w)
    /\ Shows({"menu", "check", "input", "yesno"}) /\ ~resized => drawn = MAX(button, 0)

\* The button that is highlighted.
LEMMA ButtonDrawn ==
    ASSUME ScreenInv, Next
    PROVE  Shows({"menu", "check", "input", "yesno"})' /\ ~resized' => drawn' = MAX(button', 0)
  <1>1. CASE Open
    <2>1. drawn' = 0 /\ (button' = 0 \/ button' = -1 \/ dialog' \in {"text", "found"})
      BY <1>1 DEF Open, OpenMenu, OpenCheck, OpenText, OpenInput, OpenYesno, Opened
    <2> QED
      BY <2>1 DEF MAX, Shows
  <1>2. CASE MenuMoves \/ CheckMoves \/ Hotkeys \/ EntryMoves \/ TextMoves
    <2>1. UNCHANGED <<dialog, phase, resized, button, drawn>>
      BY <1>2 DEF MenuMoves, CheckMoves, Hotkeys, EntryMoves, TextMoves, List, Entry, Text,
                  Press, Stay, buttons
    <2> QED
      BY <2>1 DEF ScreenInv, Shows
  <1>3. CASE Buttons
    BY <1>3 DEF Buttons, Button
  <1>4. CASE TakeMenu \/ TakeCheck \/ LeaveText \/ TakeOther \/ Leave
    <2>1. phase' = "closed"
      BY <1>4 DEF TakeMenu, TakeCheck, LeaveText, TakeOther, Leave, Answer
    <2> QED
      BY <2>1 DEF Shows
  <1>5. CASE Resize
    <2>1. resized' = TRUE
      BY <1>5 DEF Resize, ResizeMenu, ResizeCheck, ResizeText, ResizeInput, ResizeYesno, Redrawn
    <2> QED
      BY <2>1
  <1> QED
    BY <1>1, <1>2, <1>3, <1>4, <1>5 DEF Next

\* A key of a list draws what it moves.
LEMMA KeysDraw ==
    ASSUME DialogInv, ScreenInv, MenuMoves \/ CheckMoves \/ Hotkeys
    PROVE  Shows({"check"})' \/ (Shows({"menu"})' /\ ~resized') => OnScreen(w')
  <1>1. PICK kind, k, next :
            /\ kind \in ListKinds /\ List(kind, k, next)
            /\ \/ next \in {MenuUp(w), MenuDown(w), MenuPageUp(w), MenuPageDown(w)}
               \/ next \in {CheckUp(w), CheckDown(w)}
               \/ Hits(w, k) # {} /\ next \in {MenuHotkey(w, k), CheckHotkey(w, k)}
    <2>1. CASE MenuMoves
      BY <2>1 DEF MenuMoves, ListKinds
    <2>2. CASE CheckMoves
      BY <2>2 DEF CheckMoves, ListKinds
    <2>3. CASE Hotkeys
      BY <2>3 DEF Hotkeys, IsHotkey, ListKinds
    <2> QED
      BY <2>1, <2>2, <2>3
  <1>2. ListOK(w) /\ w.items # <<>>
    BY <1>1, Highlight
  <1>3. w' = next /\ UNCHANGED <<dialog, phase, resized>>
    BY <1>1 DEF List, Press, Stay
  <1>4. OnScreen(w) => OnScreen(w')
    BY <1>1, <1>2, <1>3, MenuKeysShown, CheckKeysShown, MenuHotkeyShown, CheckHotkeyShown
  <1> QED
    BY <1>3, <1>4 DEF ScreenInv, Shows

LEMMA OpenMenuDraws ==
    ASSUME DialogInv, DialogAssumption, OpenMenu, MenuFits(lines)
    PROVE  OnScreen(w')
  <1>1. PICK items \in Lists["menu"] :
            w' = MenuDraw(NewList(items, 0), lines, keep.data, keep.scroll)
    BY DEF OpenMenu
  <1> DEFINE new == NewList(items, 0)
  <1>2. Shape(new) /\ new.items = items /\ new.choice = 0 /\ new.first = 0
    BY NewListIs
  <1>3. items \in Seq(Item) /\ lines \in Nat /\ keep.scroll \in Int
    BY DEF DialogInv, DialogAssumption, OpenMenu
  <1>4. Count(new) \in Nat /\ (items = <<>> <=> Count(new) = 0)
    BY <1>2, <1>3 DEF Count
  <1> HIDE DEF new
  <1>5. OnScreen(MenuDraw(new, lines, keep.data, keep.scroll))
    BY <1>2, <1>3, <1>4, MenuDrawShown
  <1> QED
    BY <1>1, <1>5 DEF new

LEMMA ScreenStep ==
    ASSUME DialogInv, ScreenInv, DialogInv', DialogAssumption, [Next]_vars
    PROVE  ScreenInv'
  <1>1. CASE UNCHANGED vars
    <2>1. UNCHANGED <<dialog, phase, resized, button, drawn, w>>
      BY <1>1 DEF vars
    <2> QED
      BY <2>1 DEF ScreenInv, Shows
  <1>2. CASE Next
    <2>1. Shows({"check"})' \/ (Shows({"menu"})' /\ ~resized') => OnScreen(w')
      <3>1. CASE MenuMoves \/ CheckMoves \/ Hotkeys
        BY <3>1, KeysDraw
      <3>2. CASE OpenMenu
        <4>1. phase' = "open" => MenuFits(lines)
          BY <3>2 DEF OpenMenu, Opened
        <4> QED
          BY <3>2, <4>1, OpenMenuDraws, DialogAssumption DEF Shows
      <3>3. CASE OpenCheck
        <4> SUFFICES ASSUME phase' = "open" PROVE OnScreen(w')
          BY DEF Shows
        <4>1. dialog' = "check" /\ CheckFits(lines)
          BY <3>3 DEF OpenCheck, Opened
        <4>2. PICK items : w' = CheckDraw(NewList(items, ActiveItem(items, keep.data)))
          BY <3>3, <4>1 DEF OpenCheck
        <4>3. ListOK(w')
          BY <4>1 DEF DialogInv, Shows, ListKinds
        <4> QED
          BY <4>2, <4>3, NewListIs, CheckDrawShown
      <3>4. CASE \E next \in Sizes : ResizeCheck(next)
        <4> SUFFICES ASSUME phase' = "open" PROVE OnScreen(w')
          BY DEF Shows
        <4>1. dialog' = "check" /\ ListOK(w) /\ w' = CheckDraw(w)
          BY <3>4 DEF ResizeCheck, Redrawn, DialogInv, Shows, ListKinds
        <4>2. ListOK(w')
          BY <4>1 DEF DialogInv, Shows, ListKinds
        <4> QED
          BY <4>1, <4>2, CheckDrawShown DEF ListOK
      <3>5. CASE \E next \in Sizes : ResizeMenu(next)
        <4>1. dialog' = "menu" /\ resized' = TRUE
          BY <3>5 DEF ResizeMenu, Redrawn, Shows
        <4> QED
          BY <4>1 DEF Shows
      <3>6. CASE \/ OpenText \/ OpenInput \/ OpenYesno \/ TextMoves \/ EntryMoves
                 \/ LeaveText \/ TakeOther
                 \/ \E next \in Sizes : ResizeText(next) \/ ResizeInput(next) \/ ResizeYesno(next)
        <4>1. dialog' = dialog /\ dialog \notin ListKinds
          BY <3>6 DEF OpenText, OpenInput, OpenYesno, Opened, TextMoves, Text, EntryMoves, Entry,
                 Press, LeaveText, TakeOther, Answer, ResizeText, ResizeInput, ResizeYesno,
                 Redrawn, Shows, ListKinds
        <4> QED
          BY <4>1 DEF Shows, ListKinds
      <3>7. CASE TakeMenu \/ TakeCheck \/ Leave
        <4>1. phase' = "closed"
          BY <3>7 DEF TakeMenu, TakeCheck, Leave, Answer
        <4> QED
          BY <4>1 DEF Shows
      <3>8. CASE Buttons
        <4>1. UNCHANGED <<dialog, phase, resized, w>>
          BY <3>8 DEF Buttons, Button, Press, Stay, shown
        <4> QED
          BY <4>1 DEF ScreenInv, Shows
      <3> QED
        BY <1>2, <3>1, <3>2, <3>3, <3>4, <3>5, <3>6, <3>7, <3>8 DEF Next, Open, Resize
    <2> QED
      BY <1>2, <2>1, ButtonDrawn DEF ScreenInv, Shows
  <1> QED
    BY <1>1, <1>2

(***************************************************************************)
(* What is highlighted is what <Enter> takes, for lists of any length and  *)
(* terminals of any size: each key prints only the rows it changes, and    *)
(* what it leaves on the screen is still true.  The invariant says what is *)
(* on each row, and that exactly one is highlighted; a key takes the       *)
(* highlight away (Unlit), scrolls or moves, and puts it back (Lit).       *)
(***************************************************************************)
THEOREM WhatIsSeen == Spec => []HighlightedIsTaken
  <1>1. Init => ScreenInv
    BY DEF Init, ScreenInv, Shows
  <1>2. DialogInv /\ ScreenInv /\ [Next]_vars => (DialogInv /\ ScreenInv)'
    BY NextStep, ScreenStep, DialogAssumption
  <1>3. ScreenInv => HighlightedIsTaken
    BY DEF ScreenInv, HighlightedIsTaken, RowsTrue, OnScreen, RowsShow, LitShows, ArrowsShow
  <1> QED
    BY <1>1, <1>2, <1>3, InitInv, PTL DEF Spec

-----------------------------------------------------------------------------
\* The rows of a menu are items of the list, though not always those of its
\* window; and how a menu that is drawn again may run off the list.
RowsInv ==
    /\ Shows({"menu"}) => RowsOn(w)
    /\ phase = "crashed" => dialog = "menu" /\ key = "resize" /\ w.scroll = 0 /\ w.first # 0

\* A key of a menu.
LEMMA KeysKeepRows ==
    ASSUME DialogInv, RowsInv, MenuMoves \/ CheckMoves \/ Hotkeys
    PROVE  RowsInv'
  <1>1. PICK kind, k, next :
            /\ kind \in ListKinds /\ List(kind, k, next)
            /\ kind = "menu" =>
                  \/ next \in {MenuUp(w), MenuDown(w), MenuPageUp(w), MenuPageDown(w)}
                  \/ Hits(w, k) # {} /\ next = MenuHotkey(w, k)
    <2>1. CASE MenuMoves
      BY <2>1 DEF MenuMoves, ListKinds
    <2>2. CASE CheckMoves
      BY <2>2 DEF CheckMoves, ListKinds
    <2>3. CASE Hotkeys
      <3>1. PICK c : /\ Hits(w, c) # {}
                     /\ \/ List("menu", c, MenuHotkey(w, c))
                        \/ List("check", c, CheckHotkey(w, c))
        BY <2>3 DEF Hotkeys, IsHotkey
      <3> QED
        BY <3>1 DEF ListKinds
    <2> QED
      BY <2>1, <2>2, <2>3
  <1>2. ListOK(w) /\ w.items # <<>> /\ dialog = kind
    BY <1>1, Highlight
  <1>3. w' = next /\ phase = "open" /\ UNCHANGED <<dialog, phase>>
    BY <1>1 DEF List, Press, Stay, Shows
  <1>4. kind = "menu" => RowsOn(w')
    BY <1>1, <1>2, <1>3, MenuKeysOn, MenuHotkeyOn DEF RowsInv, Shows
  <1> QED
    BY <1>2, <1>3, <1>4 DEF RowsInv, Shows

\* A menu that is drawn again: it runs off the list, or its rows have items.
LEMMA ResizeKeepsRows ==
    ASSUME DialogInv, DialogAssumption, NEW next \in Sizes, ResizeMenu(next)
    PROVE  RowsInv'
  <1> DEFINE redrawn == MenuDraw(w, next, keep.data, keep.scroll)
  <1>1. /\ dialog' = "menu" /\ key' = "resize" /\ Shows({"menu"})
        /\ phase' = IF ~MenuFits(next) THEN "closed"
                    ELSE IF Broken(redrawn) THEN "crashed" ELSE "open"
        /\ MenuFits(next) => w' = redrawn
    BY DEF ResizeMenu, Redrawn, Shows
  <1>2. ListOK(w) /\ keep.scroll \in Int /\ next \in Nat
    BY <1>1 DEF DialogInv, DialogAssumption, Shows, ListKinds
  <1>3. CASE MenuFits(next)
    <2>1. Count(w) > 0 => w.choice \in 0 .. Count(w) - 1
      BY <1>2, Bounds DEF ListOK, Numbers
    <2>2. Count(w) = 0 => w.choice = 0
      BY <1>2 DEF ListOK
    <2>3. RowsOn(redrawn) \/ (redrawn.scroll = 0 /\ redrawn.first # 0)
      BY <1>2, <1>3, <2>1, <2>2, MenuDrawOn DEF ListOK
    <2>4. ~Broken(redrawn) => RowsOn(redrawn)
      BY <1>2, MenuDrawRows DEF ListOK
    <2> HIDE DEF redrawn
    <2> QED
      BY <1>1, <1>3, <2>3, <2>4 DEF RowsInv, RowsOn, Shows
  <1>4. CASE ~MenuFits(next)
    BY <1>1, <1>4 DEF RowsInv, Shows
  <1> QED
    BY <1>3, <1>4

LEMMA RowsStep ==
    ASSUME DialogInv, ScreenInv, RowsInv, DialogInv', DialogAssumption, [Next]_vars
    PROVE  RowsInv'
  <1>1. CASE UNCHANGED vars
    <2>1. UNCHANGED <<dialog, phase, key, w>>
      BY <1>1 DEF vars
    <2> QED
      BY <2>1 DEF RowsInv, Shows
  <1>2. CASE MenuMoves \/ CheckMoves \/ Hotkeys
    BY <1>2, KeysKeepRows
  <1>3. CASE OpenMenu
    <2>1. /\ dialog' = "menu" /\ phase' = IF MenuFits(lines) THEN "open" ELSE "closed"
      BY <1>3 DEF OpenMenu, Opened
    <2>2. ASSUME MenuFits(lines) PROVE RowsOn(w')
      <3>1. ListOK(w') /\ RowsShow(w')
        BY <1>3, <2>1, <2>2, OpenMenuDraws, DialogAssumption
           DEF DialogInv, Shows, ListKinds, OnScreen
      <3> QED
        BY <3>1, ShownIsOn
    <2> QED
      BY <2>1, <2>2 DEF RowsInv, Shows
  <1>4. CASE \E next \in Sizes : ResizeMenu(next)
    BY <1>4, ResizeKeepsRows, DialogAssumption
  <1>5. ASSUME dialog' \notin {"menu"}, phase' # "crashed" PROVE RowsInv'
    BY <1>5 DEF RowsInv, Shows
  <1>6. CASE \/ OpenCheck \/ OpenText \/ OpenInput \/ OpenYesno
             \/ TextMoves \/ EntryMoves \/ LeaveText \/ TakeOther
             \/ \E next \in Sizes : \/ ResizeCheck(next) \/ ResizeText(next)
                                    \/ ResizeInput(next) \/ ResizeYesno(next)
    <2>1. dialog' \notin {"menu"}
      BY <1>6 DEF OpenCheck, OpenText, OpenInput, OpenYesno, Opened, TextMoves, Text, EntryMoves,
             Entry, Press, LeaveText, TakeOther, Answer, ResizeCheck, ResizeText, ResizeInput,
             ResizeYesno, Redrawn, Shows
    <2>2. phase' # "crashed"
      BY <1>6 DEF OpenCheck, OpenText, OpenInput, OpenYesno, Opened, TextMoves, Text, EntryMoves,
             Entry, Stay, LeaveText, TakeOther, Answer, ResizeCheck, ResizeText, ResizeInput,
             ResizeYesno, Shows
    <2> QED
      BY <1>5, <2>1, <2>2
  <1>7. CASE TakeMenu \/ TakeCheck \/ Leave
    <2>1. phase' = "closed"
      BY <1>7 DEF TakeMenu, TakeCheck, Leave, Answer
    <2> QED
      BY <2>1 DEF RowsInv, Shows
  <1>8. CASE Buttons
    <2>1. UNCHANGED <<dialog, phase, w>> /\ phase = "open"
      BY <1>8 DEF Buttons, Button, Press, Stay, shown, Shows
    <2> QED
      BY <2>1 DEF RowsInv, Shows
  <1> QED
    BY <1>1, <1>2, <1>3, <1>4, <1>6, <1>7, <1>8 DEF Next, Open, Resize

(***************************************************************************)
(* The highlighted item exists and each row shows an item of the list, for *)
(* lists of any length, terminals of any sizes that change at any moment,  *)
(* and any scrolling that was saved for another list (MenuPlace and        *)
(* CheckPlace take it over or reject it).  The one exception is part of    *)
(* what is proved: it is a menu that runs off the list, drawn again for    *)
(* another size, its window beginning at the top and first_item not.       *)
(***************************************************************************)
THEOREM HighlightIsOnAnItem == Spec => []CursorOnItem
  <1>1. Init => ScreenInv /\ RowsInv
    BY DEF Init, ScreenInv, RowsInv, Shows
  <1>2. DialogInv /\ ScreenInv /\ RowsInv /\ [Next]_vars => (DialogInv /\ ScreenInv /\ RowsInv)'
    BY NextStep, ScreenStep, RowsStep, DialogAssumption
  <1>3. DialogInv /\ ScreenInv /\ RowsInv => CursorOnItem
    <2> SUFFICES ASSUME DialogInv, ScreenInv, RowsInv PROVE CursorOnItem
      OBVIOUS
    <2>1. ASSUME Shows({"menu", "check"})
          PROVE  /\ w.max = MIN(w.height, Count(w))
                 /\ w.scroll >= 0 /\ w.scroll + w.max <= Count(w)
                 /\ w.items # <<>> => w.choice \in 0 .. w.max - 1
                 /\ ~Broken(w)
      <3>1. ListOK(w)
        BY <2>1 DEF DialogInv, Shows, ListKinds
      <3>2. RowsOn(w)
        <4>1. CASE dialog = "menu"
          BY <2>1, <4>1 DEF RowsInv, Shows
        <4>2. CASE dialog = "check"
          BY <2>1, <3>1, <4>2, ShownIsOn DEF ScreenInv, OnScreen, Shows
        <4> QED
          BY <2>1, <4>1, <4>2 DEF Shows
      <3> QED
        BY <3>1, <3>2 DEF ListOK, RowsOn
    <2> QED
      BY <2>1 DEF CursorOnItem, RowsInv
  <1> QED
    BY <1>1, <1>2, <1>3, InitInv, PTL DEF Spec

-----------------------------------------------------------------------------
\* The texts an entry begins with are lines that fit in its buffer.
FitsBuffer == Texts["input"] \subseteq {x \in Seq(Letters) : Len(x) <= MAX_LEN}

\* The place of the cursor in the line, and in the field.
InField(entry) ==
    /\ DOMAIN entry = {"instr", "pos", "show_x", "input_x"}
    /\ entry.instr \in Seq(Letters) /\ Len(entry.instr) <= MAX_LEN
    /\ entry.pos \in 0 .. Len(entry.instr)
    /\ entry.show_x \in Nat /\ entry.input_x \in 0 .. BoxWidth - 1
    /\ entry.show_x + entry.input_x = entry.pos

LEMMA DrawInField ==
    ASSUME DialogAssumption, NEW instr \in Seq(Letters), Len(instr) <= MAX_LEN
    PROVE  InField(EntryDraw(instr, BoxWidth))
  <1>1. Len(instr) \in Nat /\ BoxWidth \in Nat /\ BoxWidth > 0
    BY DEF DialogAssumption
  <1>2. CASE Len(instr) < BoxWidth
    BY <1>1, <1>2 DEF EntryDraw, InField
  <1>3. CASE ~(Len(instr) < BoxWidth)
    BY <1>1, <1>3 DEF EntryDraw, InField
  <1> QED
    BY <1>2, <1>3

\* A step of the cursor: in the field, or of the text behind it.
LEMMA StepLeftIs ==
    ASSUME DialogAssumption, NEW entry, InField(entry), entry.pos > 0
    PROVE  LET l == StepLeft(entry) IN
           /\ DOMAIN l = {"instr", "pos", "show_x", "input_x"}
           /\ l.instr = entry.instr /\ l.pos = entry.pos - 1
           /\ l.show_x \in Nat /\ l.input_x \in 0 .. BoxWidth - 1
           /\ l.show_x + l.input_x = l.pos
  <1>1. /\ entry.pos \in Nat /\ entry.show_x \in Nat /\ entry.input_x \in 0 .. BoxWidth - 1
        /\ entry.show_x + entry.input_x = entry.pos /\ BoxWidth \in Nat
    BY DEF InField, DialogAssumption
  <1>2. CASE entry.input_x = 0
    BY <1>1, <1>2 DEF InField, StepLeft
  <1>3. CASE entry.input_x # 0
    BY <1>1, <1>3 DEF InField, StepLeft
  <1> QED
    BY <1>2, <1>3

LEMMA StepRightIs ==
    ASSUME DialogAssumption, NEW entry, InField(entry)
    PROVE  LET r == StepRight(entry, BoxWidth) IN
           /\ DOMAIN r = {"instr", "pos", "show_x", "input_x"}
           /\ r.instr = entry.instr /\ r.pos = entry.pos + 1
           /\ r.show_x \in Nat /\ r.input_x \in 0 .. BoxWidth - 1
           /\ r.show_x + r.input_x = r.pos
  <1>1. /\ entry.pos \in Nat /\ entry.show_x \in Nat /\ entry.input_x \in 0 .. BoxWidth - 1
        /\ entry.show_x + entry.input_x = entry.pos /\ BoxWidth \in Nat
    BY DEF InField, DialogAssumption
  <1>2. CASE entry.input_x = BoxWidth - 1
    BY <1>1, <1>2 DEF InField, StepRight
  <1>3. CASE entry.input_x # BoxWidth - 1
    BY <1>1, <1>3 DEF InField, StepRight
  <1> QED
    BY <1>2, <1>3

\* Another line in the field.
LEMMA OtherLine ==
    ASSUME NEW entry, NEW line \in Seq(Letters), Len(line) <= MAX_LEN,
           DOMAIN entry = {"instr", "pos", "show_x", "input_x"},
           entry.pos \in 0 .. Len(line), entry.show_x \in Nat, entry.input_x \in 0 .. BoxWidth - 1,
           entry.show_x + entry.input_x = entry.pos
    PROVE  InField([entry EXCEPT !.instr = line])
  BY DEF InField

\* Two parts of a line, one after the other.
LEMMA JoinedLine ==
    ASSUME NEW S, NEW a \in Seq(S), NEW b \in Seq(S)
    PROVE  a \o b \in Seq(S) /\ Len(a \o b) = Len(a) + Len(b)
  OBVIOUS

LEMMA KeysInField ==
    ASSUME DialogAssumption, NEW entry, InField(entry)
    PROVE  /\ InField(EntryLeft(entry)) /\ InField(EntryRight(entry, BoxWidth))
           /\ InField(Backspace(entry))
           /\ \A c \in Letters : InField(Type(entry, c, BoxWidth, MAX_LEN))
  <1> DEFINE s == entry.instr
             n == Len(s)
             p == entry.pos
  <1>1. s \in Seq(Letters) /\ n \in Nat /\ n <= MAX_LEN /\ p \in 0 .. n /\ MAX_LEN \in Nat
    BY DEF InField, DialogAssumption
  <1>2. InField(EntryLeft(entry))
    <2>1. CASE p > 0
      BY <1>1, <2>1, StepLeftIs DEF EntryLeft, InField
    <2>2. CASE ~(p > 0)
      BY <2>2 DEF EntryLeft
    <2> QED
      BY <2>1, <2>2
  <1>3. InField(EntryRight(entry, BoxWidth))
    <2>1. CASE p < n
      BY <1>1, <2>1, StepRightIs DEF EntryRight, InField
    <2>2. CASE ~(p < n)
      BY <2>2 DEF EntryRight
    <2> QED
      BY <2>1, <2>2
  <1>4. InField(Backspace(entry))
    <2>1. CASE p > 0
      <3> DEFINE l == StepLeft(entry)
                 line == SubSeq(s, 1, p - 1) \o SubSeq(s, p + 1, n)
      <3>1. line \in Seq(Letters) /\ Len(line) = n - 1
        <4>1. SubSeq(s, 1, p - 1) \in Seq(Letters) /\ Len(SubSeq(s, 1, p - 1)) = p - 1
          BY <1>1, <2>1
        <4>2. SubSeq(s, p + 1, n) \in Seq(Letters) /\ Len(SubSeq(s, p + 1, n)) = n - p
          BY <1>1, <2>1
        <4> DEFINE a == SubSeq(s, 1, p - 1)
                   b == SubSeq(s, p + 1, n)
        <4>3. a \in Seq(Letters) /\ b \in Seq(Letters) /\ Len(a) = p - 1 /\ Len(b) = n - p
          BY <4>1, <4>2
        <4>4. line = a \o b
          BY Zenon
        <4> HIDE DEF a, b, line
        <4>5. line \in Seq(Letters) /\ Len(line) = Len(a) + Len(b)
          BY <4>3, <4>4, JoinedLine
        <4> HIDE DEF n, p
        <4> QED
          BY <1>1, <4>2, <4>3, <4>5
      <3>2. /\ DOMAIN l = {"instr", "pos", "show_x", "input_x"}
            /\ l.pos = p - 1 /\ l.show_x \in Nat /\ l.input_x \in 0 .. BoxWidth - 1
            /\ l.show_x + l.input_x = l.pos
        BY <2>1, StepLeftIs
      <3>3. Backspace(entry) = [l EXCEPT !.instr = line]
        BY <2>1 DEF Backspace, After
      <3> HIDE DEF l, line
      <3>4. l.pos \in 0 .. Len(line) /\ Len(line) <= MAX_LEN
        BY <1>1, <2>1, <3>1, <3>2
      <3>5. InField([l EXCEPT !.instr = line])
        BY <3>1, <3>2, <3>4, OtherLine
      <3> QED
        BY <3>3, <3>5
    <2>2. CASE ~(p > 0)
      BY <2>2 DEF Backspace
    <2> QED
      BY <2>1, <2>2
  <1>5. ASSUME NEW c \in Letters PROVE InField(Type(entry, c, BoxWidth, MAX_LEN))
    <2>1. CASE n < MAX_LEN
      <3> DEFINE r == StepRight(entry, BoxWidth)
                 line == Append(SubSeq(s, 1, p), c) \o SubSeq(s, p + 1, n)
      <3>1. line \in Seq(Letters) /\ Len(line) = n + 1
        <4> DEFINE a == Append(SubSeq(s, 1, p), c)
                   b == SubSeq(s, p + 1, n)
        <4>1. SubSeq(s, 1, p) \in Seq(Letters) /\ Len(SubSeq(s, 1, p)) = p
          BY <1>1
        <4>2. b \in Seq(Letters) /\ Len(b) = n - p
          BY <1>1
        <4>3. a \in Seq(Letters) /\ Len(a) = p + 1
          BY <1>5, <4>1
        <4>4. line = a \o b
          BY Zenon
        <4> HIDE DEF a, b, line
        <4>5. line \in Seq(Letters) /\ Len(line) = Len(a) + Len(b)
          BY <4>2, <4>3, <4>4, JoinedLine
        <4> HIDE DEF n, p
        <4> QED
          BY <1>1, <4>2, <4>3, <4>5
      <3>2. /\ DOMAIN r = {"instr", "pos", "show_x", "input_x"}
            /\ r.pos = p + 1 /\ r.show_x \in Nat /\ r.input_x \in 0 .. BoxWidth - 1
            /\ r.show_x + r.input_x = r.pos
        BY StepRightIs
      <3>3. Type(entry, c, BoxWidth, MAX_LEN) = [r EXCEPT !.instr = line]
        BY <2>1 DEF Type, Before, After
      <3> HIDE DEF r, line
      <3>4. r.pos \in 0 .. Len(line) /\ Len(line) <= MAX_LEN
        BY <1>1, <2>1, <3>1, <3>2
      <3>5. InField([r EXCEPT !.instr = line])
        BY <3>1, <3>2, <3>4, OtherLine
      <3> QED
        BY <3>3, <3>5
    <2>2. CASE ~(n < MAX_LEN)
      BY <2>2 DEF Type
    <2> QED
      BY <2>1, <2>2
  <1> QED
    BY <1>2, <1>3, <1>4, <1>5

LEMMA FieldStep ==
    ASSUME DialogAssumption, FitsBuffer, InField(e), [Next]_vars
    PROVE  InField(e')
  <1>1. CASE e' = e
    BY <1>1
  <1>2. CASE OpenInput
    BY <1>2, DrawInField DEF OpenInput, FitsBuffer
  <1>3. CASE EntryMoves
    BY <1>3, KeysInField DEF EntryMoves, Entry
  <1>4. CASE \E next \in Sizes : ResizeInput(next)
    BY <1>4, DrawInField DEF ResizeInput, InField
  <1> QED
    BY <1>1, <1>2, <1>3, <1>4
       DEF Next, vars, Open, OpenMenu, OpenCheck, OpenText, OpenYesno, MenuMoves, CheckMoves,
           Hotkeys, List, TextMoves, Text, Buttons, Button, TakeMenu, TakeCheck, LeaveText,
           TakeOther, Leave, Answer, Resize, ResizeMenu, ResizeCheck, ResizeText, ResizeYesno,
           shown

(***************************************************************************)
(* The part of Placed that is about an entry: its cursor stays in the      *)
(* field and stands for the place where the next character goes, however   *)
(* the line is edited, in a field of any width (dialog_inputbox keeps pos, *)
(* show_x and input_x apart).                                              *)
(***************************************************************************)
THEOREM EntryCursor ==
    ASSUME FitsBuffer
    PROVE  Spec => []EntryPlaced
  <1>1. Init => InField(e)
    <2> SUFFICES ASSUME Init PROVE InField(e)
      OBVIOUS
    <2>1. << >> \in Seq(Letters) /\ Len(<< >>) <= MAX_LEN
      BY DialogAssumption DEF DialogAssumption
    <2> QED
      BY <2>1, DrawInField, DialogAssumption DEF Init
  <1>2. InField(e) /\ [Next]_vars => InField(e)'
    BY FieldStep, DialogAssumption
  <1>3. InField(e) => EntryPlaced
    BY DialogAssumption DEF InField, EntryPlaced, DialogAssumption
  <1> QED
    BY <1>1, <1>2, <1>3, PTL DEF Spec

-----------------------------------------------------------------------------
TextKinds == {"text", "found"}

\* A text on a terminal of n lines.
TextOK(s, n) ==
    /\ s.text \in Seq(STRING) /\ s \in AnyBox(s.text)
    /\ Ended(s.text) =>
           /\ s \in TextBox(s.text)
           /\ BoxHeight(n) > 0 => PageKnown(s, BoxHeight(n))

\* The place in a text, and the line that the caller keeps.
TextInv ==
    /\ lines \in Sizes
    /\ dialog = "found" => keep = [scroll |-> keep.scroll, data |-> keep.data]
                           /\ keep.scroll \in Nat
    /\ Shows(TextKinds) => TextFits(lines) /\ TextOK(t, lines)

\* A terminal a text box fits in has no negative height for it.
LEMMA Heights ==
    ASSUME NEW n \in Nat, TextFits(n)
    PROVE  BoxHeight(n) \in Nat /\ n > 4
  BY DEF TextFits, BoxHeight, TEXTBOX_HEIGTH_MIN

\* A page that is printed is in order.
LEMMA PrintedOK ==
    ASSUME NEW text \in Seq(STRING), NEW s \in AnyBox(text), NEW n \in Nat, TextFits(n),
           NEW updated,
           Ended(text) => s \in TextBox(text) /\ (updated \/ FirstKnown(s, BoxHeight(n)))
    PROVE  TextOK(print_page(s, BoxHeight(n), updated), n)
  <1> DEFINE h == BoxHeight(n)
             a == print_page(s, h, updated)
  <1>1. h \in Nat
    BY Heights
  <1> HIDE DEF h
  <1>2. a \in AnyBox(text)
    BY <1>1, PageInBox
  <1>3. Ended(text) => a \in TextBox(text) /\ (h > 0 => PageKnown(a, h))
    <2> SUFFICES ASSUME Ended(text) PROVE a \in TextBox(text) /\ (h > 0 => PageKnown(a, h))
      OBVIOUS
    <2>1. WholeText(text)
      BY DEF Ended, WholeText
    <2>2. s \in TextBox(text) /\ (updated \/ FirstKnown(s, h))
      BY DEF h
    <2> QED
      BY <1>1, <2>1, <2>2, PrintPage
  <1>4. a.text = text
    BY <1>2 DEF AnyBox
  <1> HIDE DEF a
  <1>5. TextOK(a, n)
    BY <1>2, <1>3, <1>4 DEF TextOK, h
  <1> QED
    BY <1>5 DEF a, h

\* A text that is opened, at the line the caller kept.
LEMMA OpenTextStep ==
    ASSUME DialogAssumption, TextInv, OpenText
    PROVE  TextInv'
  <1>1. /\ dialog \in TextKinds /\ dialog' = dialog /\ lines' = lines /\ keep' = keep
        /\ phase' = IF TextFits(lines) THEN "open" ELSE "closed"
    BY DEF OpenText, Opened, TextKinds
  <1>2. lines \in Nat
    BY DEF TextInv, DialogAssumption
  <1>3. TextFits(lines) => TextOK(t', lines)
    <2> SUFFICES ASSUME TextFits(lines) PROVE TextOK(t', lines)
      OBVIOUS
    <2> DEFINE vscroll == IF dialog = "found" THEN keep.scroll ELSE 0
               updated == dialog = "found"
    <2>1. PICK text \in Texts[dialog] :
              t' = print_page(TextOpen(text, vscroll), BoxHeight(lines), updated)
      BY DEF OpenText
    <2>2. text \in Seq(STRING)
      BY <1>1, <2>1 DEF DialogAssumption, TextKinds
    <2>3. vscroll \in Nat /\ (updated \/ vscroll = 0)
      BY DEF TextInv
    <2> HIDE DEF vscroll, updated
    <2> DEFINE s == TextOpen(text, vscroll)
    <2>4. /\ s \in AnyBox(text)
          /\ WholeText(text) => s \in TextBox(text)
          /\ vscroll = 0 => \A h : FirstKnown(s, h)
      BY <2>2, <2>3, OpenKnown
    <2>5. Ended(text) => WholeText(text)
      BY <2>2 DEF Ended, WholeText
    <2> HIDE DEF s
    <2>6. TextOK(print_page(s, BoxHeight(lines), updated), lines)
      BY <1>2, <2>2, <2>3, <2>4, <2>5, PrintedOK
    <2> QED
      BY <2>1, <2>6 DEF s
  <1> QED
    BY <1>1, <1>3 DEF TextInv, Shows

\* A key, or a new size, moves the page, and it is printed again.
LEMMA MovedText ==
    ASSUME TextOK(t, lines), NEW m \in Nat, TextFits(m), lines \in Nat, TextFits(lines),
           NEW next, NEW updated,
           next \in Nexts(t, BoxHeight(lines), lines),
           m = lines \/ next = TextResize(t, lines)
    PROVE  TextOK(print_page(next, BoxHeight(m), updated), m)
  <1> DEFINE text == t.text
             h == BoxHeight(lines)
  <1>1. text \in Seq(STRING) /\ t \in AnyBox(text) /\ h \in Nat /\ lines > 4
    BY Heights DEF TextOK
  <1>2. next \in AnyBox(text)
    BY <1>1, KeysInBox
  <1>3. Ended(text) => next \in TextBox(text) /\ FirstKnown(next, BoxHeight(m))
    <2> SUFFICES ASSUME Ended(text)
                 PROVE  next \in TextBox(text) /\ FirstKnown(next, BoxHeight(m))
      OBVIOUS
    <2>1. WholeText(text) /\ t \in TextBox(text) /\ (h > 0 => PageKnown(t, h))
      BY DEF TextOK, Ended, WholeText
    <2>2. CASE m = lines
      BY <1>1, <2>1, <2>2, KeysKnown
    <2>3. CASE next = TextResize(t, lines)
      <3>1. next \in TextBox(text) /\ (next.begin_reached <=> Spot(next) = 0)
        <4>1. next = back_lines(t, lines - 4) /\ lines - 4 \in Int /\ lines - 4 > 0
          BY <1>1, <2>3 DEF TextResize
        <4> QED
          BY <2>1, <4>1, BackLines
      <3>2. Spot(next) = 0 <=> next.page = 0
        BY <2>1, <3>1, Spots
      <3> QED
        BY <3>1, <3>2 DEF FirstKnown
    <2> QED
      BY <2>2, <2>3
  <1> HIDE DEF text
  <1> QED
    BY <1>1, <1>2, <1>3, PrintedOK

\* A key in a text.
LEMMA TextMovesStep ==
    ASSUME DialogAssumption, TextInv, TextMoves
    PROVE  TextInv'
  <1>1. PICK next \in Nexts(t, BoxHeight(lines), lines) : \E k : Text(k, next)
    BY Zenon DEF TextMoves, Nexts
  <1>2. /\ Shows(TextKinds) /\ t' = print_page(next, BoxHeight(lines), dialog = "found")
        /\ UNCHANGED <<dialog, lines, keep, phase>>
    BY <1>1 DEF Text, Press, Stay, TextKinds
  <1>3. lines \in Nat /\ TextFits(lines) /\ TextOK(t, lines)
    BY <1>2 DEF TextInv, DialogAssumption
  <1>4. TextOK(t', lines)
    BY <1>2, <1>3, MovedText
  <1> QED
    BY <1>2, <1>3, <1>4 DEF TextInv, Shows

\* A text that is left: the caller keeps a line of it.
LEMMA LeaveTextStep ==
    ASSUME DialogAssumption, TextInv, LeaveText
    PROVE  TextInv'
  <1>1. /\ Shows(TextKinds) /\ phase' = "closed" /\ UNCHANGED <<dialog, lines, t>>
        /\ keep' = IF dialog = "found" THEN [keep EXCEPT !.scroll = TextScroll(t)] ELSE keep
    BY DEF LeaveText, Answer, shown, TextKinds
  <1>2. TextOK(t, lines) /\ lines \in Nat
    BY <1>1 DEF TextInv, DialogAssumption
  <1>3. TextScroll(t) \in Nat
    <2> DEFINE a == TextSame(t)
    <2>1. t.text \in Seq(STRING) /\ t \in AnyBox(t.text)
      BY <1>2 DEF TextOK
    <2>2. a \in AnyBox(t.text)
      <3>1. BoxHeight(lines) \in Int /\ lines \in Int
        BY <1>2 DEF BoxHeight
      <3>2. a \in Nexts(t, BoxHeight(lines), lines)
        BY Zenon DEF Nexts
      <3> QED
        BY <2>1, <3>1, <3>2, KeysInBox
    <2>3. a.page \in 0 .. Len(t.text)
      BY <2>2 DEF AnyBox
    <2> HIDE DEF a
    <2>4. LineAt(t.text, a.page) \in Nat
      BY <2>1, <2>3, EndsFinite
    <2> QED
      BY <2>4 DEF TextScroll, a
  <1> HIDE DEF TextKinds
  <1>4. dialog = "found" => keep' = [scroll |-> keep'.scroll, data |-> keep'.data]
                           /\ keep'.scroll \in Nat
    BY <1>1, <1>3 DEF TextInv
  <1> QED
    BY <1>1, <1>4 DEF TextInv, Shows

\* A terminal that changes its size under a text.
LEMMA ResizeTextStep ==
    ASSUME DialogAssumption, TextInv, NEW next \in Sizes, ResizeText(next)
    PROVE  TextInv'
  <1>1. /\ Shows(TextKinds) /\ lines' = next /\ UNCHANGED <<dialog, keep>>
        /\ phase' = IF TextFits(next) THEN "open" ELSE "closed"
        /\ TextFits(next) =>
              t' = print_page(TextResize(t, lines), BoxHeight(next), dialog = "found")
    BY DEF ResizeText, Redrawn, TextKinds
  <1>2. lines \in Nat /\ TextFits(lines) /\ TextOK(t, lines) /\ next \in Nat
    BY <1>1 DEF TextInv, DialogAssumption
  <1>3. TextResize(t, lines) \in Nexts(t, BoxHeight(lines), lines)
    BY DEF Nexts
  <1>4. TextFits(next) => TextOK(t', next)
    BY <1>1, <1>2, <1>3, MovedText
  <1> QED
    BY <1>1, <1>4 DEF TextInv, Shows

\* All other steps leave a text alone.
LEMMA TextStep ==
    ASSUME DialogAssumption, TextInv, [Next]_vars
    PROVE  TextInv'
  <1>1. CASE UNCHANGED vars
    BY <1>1 DEF vars, TextInv, Shows
  <1>2. CASE OpenText
    BY <1>2, OpenTextStep
  <1>3. CASE TextMoves
    BY <1>3, TextMovesStep
  <1>4. CASE LeaveText
    BY <1>4, LeaveTextStep
  <1>5. CASE \E next \in Sizes : ResizeText(next)
    BY <1>5, ResizeTextStep
  <1>6. ASSUME dialog \notin TextKinds, dialog' = dialog, lines' \in Sizes
        PROVE  TextInv'
    BY <1>6 DEF TextInv, Shows, TextKinds
  <1>7. CASE OpenMenu \/ OpenCheck \/ OpenInput \/ OpenYesno
    <2>1. dialog \notin TextKinds /\ dialog' = dialog /\ lines' = lines
      BY <1>7 DEF OpenMenu, OpenCheck, OpenInput, OpenYesno, Opened, TextKinds
    <2> QED
      BY <1>6, <2>1 DEF TextInv
  <1>8. CASE MenuMoves \/ CheckMoves \/ Hotkeys \/ EntryMoves \/ Buttons
    <2>1. dialog \notin TextKinds /\ dialog' = dialog /\ lines' = lines
      BY <1>8 DEF MenuMoves, CheckMoves, Hotkeys, List, EntryMoves, Entry, Buttons, Button,
                  Press, Shows, TextKinds
    <2> QED
      BY <1>6, <2>1 DEF TextInv
  <1>9. CASE TakeMenu \/ TakeCheck \/ TakeOther \/ Leave
    <2>1. dialog \notin TextKinds /\ dialog' = dialog /\ lines' = lines
      BY <1>9 DEF TakeMenu, TakeCheck, TakeOther, Leave, Answer, Shows, TextKinds
    <2> QED
      BY <1>6, <2>1 DEF TextInv
  <1>10. CASE \E next \in Sizes : \/ ResizeMenu(next) \/ ResizeCheck(next)
                                  \/ ResizeInput(next) \/ ResizeYesno(next)
    <2>1. dialog \notin TextKinds /\ dialog' = dialog /\ lines' \in Sizes
      BY <1>10 DEF ResizeMenu, ResizeCheck, ResizeInput, ResizeYesno, Redrawn, Shows, TextKinds
    <2> QED
      BY <1>6, <2>1
  <1> QED
    BY <1>1, <1>2, <1>3, <1>4, <1>5, <1>7, <1>8, <1>9, <1>10 DEF Next, Open, Resize

(***************************************************************************)
(* The part of Placed that is about a text: for texts of any number of     *)
(* lines, boxes of any height, and keys and sizes in any order, back_lines *)
(* finds the line the page begins with, and the two flags that refuse the  *)
(* keys say what is so.                                                    *)
(***************************************************************************)
THEOREM TextPlace == Spec => []TextPlaced
  <1>1. Init => TextInv
    <2> SUFFICES ASSUME Init PROVE TextInv
      OBVIOUS
    <2>1. lines \in Sizes /\ phase = "closed" /\ keep = [scroll |-> 0, data |-> NoData]
      BY DEF Init
    <2>2. keep = [scroll |-> keep.scroll, data |-> keep.data] /\ keep.scroll \in Nat
      BY <2>1
    <2> QED
      BY <2>1, <2>2 DEF TextInv, Shows
  <1>2. TextInv /\ [Next]_vars => TextInv'
    BY TextStep, DialogAssumption
  <1>3. TextInv => TextPlaced
    <2> SUFFICES ASSUME TextInv, Shows(TextKinds), Ended(t.text), BoxHeight(lines) > 0
                 PROVE  /\ TextSame(t).page = t.top
                        /\ t.begin_reached = (t.top = 0)
                        /\ t.end_reached = (LineAt(t.text, t.top) + t.page_length
                                            = LineAt(t.text, Len(t.text)) + 1)
      BY DEF TextPlaced, TextKinds
    <2>1. lines \in Nat /\ TextFits(lines) /\ TextOK(t, lines)
      BY DialogAssumption DEF TextInv, DialogAssumption
    <2>2. BoxHeight(lines) \in Nat \ {0}
      BY <2>1, Heights
    <2>3. WholeText(t.text) /\ t \in TextBox(t.text) /\ PageKnown(t, BoxHeight(lines))
      BY <2>1 DEF TextOK, Ended, WholeText
    <2> QED
      BY <2>2, <2>3, PlaceIsKnown
  <1> QED
    BY <1>1, <1>2, <1>3, PTL DEF Spec

(***************************************************************************)
(* Every page and every field is where the program believes it is.         *)
(***************************************************************************)
THEOREM PlacesAreKnown ==
    ASSUME FitsBuffer
    PROVE  Spec => []Placed
  <1>1. TextPlaced /\ EntryPlaced => Placed
    BY DEF Placed
  <1> QED
    BY <1>1, TextPlace, EntryCursor, PTL
=============================================================================
