------------------------------ MODULE LxDialog ------------------------------
(***************************************************************************)
(* A dialog of menuconfig on a terminal: the loop of each dialog_*         *)
(* function of support/kconfig/lxdialog over the keys that are pressed,    *)
(* and the caller, which opens the same dialog again after an answer with  *)
(* what it kept of it.                                                     *)
(*                                                                         *)
(* A key that a dialog reads moves something in it, changes the button, or *)
(* is the answer.  A new size of the terminal arrives as a key as well,    *)
(* and draws the dialog from its beginning (do_resize).                    *)
(***************************************************************************)
EXTENDS LxLists, LxTexts

CONSTANTS
    Lists,       \* Lists[kind]: the lists a menu or radiolist may show
    Texts,       \* Texts[kind]: the texts a text box or an entry may show
    Sizes,       \* the numbers of lines the terminal may have
    Letters,     \* the hotkeys of the items, and the characters typed
    BoxWidth,    \* the columns of an input field (69 in mconf)
    MAX_LEN      \* the characters a line may have (2048)

NoData == -1     \* stands for no item

INPUTBOX_HEIGTH_MIN == 2
YESNO_HEIGTH_MIN == 4

Item == [data : Nat, letter : Letters, tagged : BOOLEAN]
ASSUME DialogAssumption ==
    /\ Lists["menu"] \subseteq Seq(Item) /\ Lists["check"] \subseteq Seq(Item) \ {<<>>}
    /\ Texts["text"] \subseteq Seq(STRING) /\ Texts["found"] \subseteq Seq(STRING)
    /\ Sizes \subseteq Nat /\ BoxWidth \in Nat \ {0} /\ MAX_LEN \in Nat

VARIABLES
    dialog,   \* which one: "menu", "check", "text", "found", "input" or "yesno"
    lines,    \* the terminal
    phase,    \* "closed" (the caller's turn), "open" or "crashed"
    answer,   \* what the dialog returned
    key,      \* the key pressed last
    button,   \* the button <Enter> presses; -1 for the field of an entry
    drawn,    \* the button that is highlighted
    w, t, e,  \* a list, a text, an entry
    keep,     \* what the caller kept: the scrolling, and the active item
    resized   \* for the properties: the dialog was drawn again since it was opened
vars == <<dialog, lines, phase, answer, key, button, drawn, w, t, e, keep, resized>>
buttons == <<button, drawn>>
shown == <<w, t, e>>

Init ==
    /\ dialog \in {"menu", "check", "text", "found", "input", "yesno"} /\ lines \in Sizes
    /\ phase = "closed" /\ answer = "" /\ key = "" /\ button = 0 /\ drawn = 0
    /\ w = NewList(<<>>, 0) /\ t = NewText(<<>>) /\ e = EntryDraw(<<>>, BoxWidth)
    /\ keep = [scroll |-> 0, data |-> NoData] /\ resized = FALSE

Shows(kinds) == dialog \in kinds /\ phase = "open"

-----------------------------------------------------------------------------
\* The caller opens the dialog.  One that is too small for its dialog is told so.

Opened(fits) ==
    /\ phase' = IF fits THEN "open" ELSE "closed"
    /\ answer' = IF fits THEN "" ELSE "too small"
    /\ resized' = FALSE
    /\ UNCHANGED <<dialog, lines, key, keep>>

OpenMenu ==
    /\ dialog = "menu" /\ phase = "closed"
    /\ \E items \in Lists["menu"] :
           w' = IF MenuFits(lines) THEN MenuDraw(NewList(items, 0), lines, keep.data, keep.scroll)
                                   ELSE NewList(items, 0)
    /\ Opened(MenuFits(lines))
    /\ button' = 0 /\ drawn' = 0 /\ UNCHANGED <<t, e>>

OpenCheck ==
    /\ dialog = "check" /\ phase = "closed"
    /\ \E items \in Lists["check"] :
           LET new == NewList(items, ActiveItem(items, keep.data))
           IN  w' = IF CheckFits(lines) THEN CheckDraw(new) ELSE NewList(items, 0)
    /\ Opened(CheckFits(lines))
    /\ button' = 0 /\ drawn' = 0 /\ UNCHANGED <<t, e>>

\* A search keeps its place in the text; a help text begins at its top.
OpenText ==
    /\ dialog \in {"text", "found"} /\ phase = "closed"
    /\ \E text \in Texts[dialog] :
           LET new == TextOpen(text, IF dialog = "found" THEN keep.scroll ELSE 0)
           IN  t' = IF TextFits(lines)
                    THEN print_page(new, BoxHeight(lines), dialog = "found") ELSE new
    /\ Opened(TextFits(lines))
    /\ button' = 0 /\ drawn' = 0 /\ UNCHANGED <<w, e>>

\* The heights mconf asks for are 10 for a search and 6 for the question.
InputFits(n) == n > 10 - INPUTBOX_HEIGTH_MIN
YesnoFits(n) == n >= 6 + YESNO_HEIGTH_MIN

OpenInput ==
    /\ dialog = "input" /\ phase = "closed"
    /\ \E instr \in Texts["input"] : e' = EntryDraw(instr, BoxWidth)
    /\ Opened(InputFits(lines))
    /\ button' = -1 /\ drawn' = 0 /\ UNCHANGED <<w, t>>

OpenYesno ==
    /\ dialog = "yesno" /\ phase = "closed"
    /\ Opened(YesnoFits(lines))
    /\ button' = 0 /\ drawn' = 0 /\ UNCHANGED shown

Open == OpenMenu \/ OpenCheck \/ OpenText \/ OpenInput \/ OpenYesno

-----------------------------------------------------------------------------
\* Keys.

Press(k) == key' = k /\ UNCHANGED <<dialog, lines, keep, resized>>
Stay == UNCHANGED <<phase, answer>>

\* What a list becomes; in a menu without items the keys do nothing.
List(kind, k, next) ==
    /\ Shows({kind}) /\ (kind = "menu" => w.items # <<>>)
    /\ w' = next
    /\ Press(k) /\ Stay /\ UNCHANGED <<buttons, t, e>>

MenuMoves ==
    \/ List("menu", "up", MenuUp(w))
    \/ List("menu", "down", MenuDown(w))
    \/ List("menu", "ppage", MenuPageUp(w))
    \/ List("menu", "npage", MenuPageDown(w))

CheckMoves ==
    \/ List("check", "up", CheckUp(w))
    \/ List("check", "down", CheckDown(w))

\* The letters y, n, m and h are never hotkeys of a menu.
IsHotkey(c) ==
    /\ dialog \in {"menu", "check"} /\ Hits(w, c) # {}
    /\ dialog = "menu" => c \notin {"y", "n", "m", "h"}

Hotkeys ==
    \E c \in Letters :
        /\ Shows({"menu", "check"}) /\ IsHotkey(c)
        /\ \/ List("menu", c, MenuHotkey(w, c))
           \/ List("check", c, CheckHotkey(w, c))

Text(k, next) ==
    /\ Shows({"text", "found"})
    /\ t' = print_page(next, BoxHeight(lines), dialog = "found")
    /\ Press(k) /\ Stay /\ UNCHANGED <<buttons, w, e>>

TextMoves ==
    \/ ~t.begin_reached /\ Text("home", TextFirst(t))
    \/ Text("end", TextLast(t, BoxHeight(lines)))
    \/ ~t.begin_reached /\ Text("up", TextUp(t))
    \/ ~t.begin_reached /\ Text("ppage", TextPageUp(t, BoxHeight(lines)))
    \/ ~t.end_reached /\ Text("down", TextDown(t))
    \/ ~t.end_reached /\ Text("npage", TextPageDown(t))
    \/ Text("sideways", TextSame(t))

Entry(k, next) ==
    /\ Shows({"input"}) /\ button = -1
    /\ e' = next
    /\ Press(k) /\ Stay /\ UNCHANGED <<buttons, w, t>>

EntryMoves ==
    \/ Entry("left", EntryLeft(e))
    \/ Entry("right", EntryRight(e, BoxWidth))
    \/ Entry("backspace", Backspace(e))
    \/ \E c \in Letters : Entry(c, Type(e, c, BoxWidth, MAX_LEN))

\* The buttons, from left to right; the field of an entry is before them.
LastButton == CASE dialog = "menu" -> 4 [] OTHER -> 1
FirstButton == IF dialog = "input" THEN -1 ELSE 0

Button(k, b) ==
    /\ button' = b /\ drawn' = MAX(b, 0)
    /\ Press(k) /\ Stay /\ UNCHANGED shown

ButtonLeft == IF button = FirstButton THEN LastButton ELSE button - 1
ButtonRight == IF button = LastButton THEN FirstButton ELSE button + 1

\* In the field of an entry the arrow keys move the cursor; <Tab> goes on.
Buttons ==
    /\ Shows({"menu", "check", "yesno", "input"})
    /\ \/ Button(IF button = -1 THEN "up" ELSE "left", ButtonLeft)
       \/ Button(IF button = -1 THEN "tab" ELSE "right", ButtonRight)

-----------------------------------------------------------------------------
\* Answers.

Answer(k, a) ==
    /\ phase' = "closed" /\ answer' = a /\ key' = k
    /\ UNCHANGED <<dialog, lines, resized, buttons, shown>>

\* <Enter> presses a button; letters are for one or for another command.
ByButton == CASE dialog = "menu"  -> <<"select", "exit", "help", "save", "load">>[button + 1]
              [] dialog = "check" -> <<"select", "help">>[button + 1]
              [] dialog = "yesno" -> <<"yes", "no">>[button + 1]
              [] dialog = "input" -> <<"ok", "help">>[MAX(button, 0) + 1]

\* The letters that are no hotkeys and what they answer.
Commands ==
    [menu  |-> [y |-> "yes", s |-> "yes", n |-> "no", m |-> "module", h |-> "help", z |-> "hidden"],
     check |-> [s |-> "button", h |-> "help"],
     yesno |-> [y |-> "yes", n |-> "no"],
     input |-> [o |-> "ok", h |-> "help"]]

\* <Space> and / are for no letter.
Answers ==
    LET letters == IF dialog \in DOMAIN Commands
                   THEN {c \in DOMAIN Commands[dialog] : ~IsHotkey(c)} ELSE {}
        named   == {Commands[dialog][c] : c \in letters}
    IN  (IF dialog = "input" /\ button = -1 THEN {} ELSE named \ {"button"})
        \union {ByButton} \union (IF dialog = "menu" THEN {"toggle", "search"} ELSE {})

\* Mutant: the item of the row, not of the window.
ActiveRow == IF w.items = <<>> THEN NoData ELSE item_data(w.items, w.choice)

\* The item that is highlighted is marked as selected, and its data are the
\* active item of the caller; a menu without items has no data.
Active == IF w.items = <<>> THEN NoData ELSE item_data(w.items, Cursor(w))

TakeMenu ==
    /\ Shows({"menu"}) /\ \E a \in Answers : Answer("take", a)
    /\ keep' = [scroll |-> w.scroll, data |-> Active]

TakeCheck ==
    /\ Shows({"check"}) /\ \E a \in Answers : Answer("take", a)
    /\ keep' = [keep EXCEPT !.data = Active]

\* q, <Enter>, or a key of the caller; the place in a search is kept.
LeaveText ==
    /\ Shows({"text", "found"})
    /\ \E a \in {"exit"} \union (IF dialog = "found" THEN {"jump"} ELSE {}) : Answer("take", a)
    /\ keep' = IF dialog = "found" THEN [keep EXCEPT !.scroll = TextScroll(t)] ELSE keep

TakeOther ==
    /\ Shows({"input", "yesno"}) /\ \E a \in Answers : Answer("take", a)
    /\ UNCHANGED keep

\* <Esc><Esc>, or e or x where they are no hotkeys.
Leave ==
    /\ Shows({"menu", "check", "input", "yesno"}) /\ Answer("esc", "esc")
    /\ UNCHANGED keep

-----------------------------------------------------------------------------
\* The terminal gets another size.  The buttons are drawn as at the beginning.

Redrawn(fits, next) ==
    /\ lines' = next /\ key' = "resize" /\ resized' = TRUE
    /\ drawn' = 0
    /\ answer' = IF fits THEN answer ELSE "too small"
    /\ UNCHANGED <<dialog, button, keep>>

ResizeMenu(next) ==
    LET redrawn == MenuDraw(w, next, keep.data, keep.scroll)
    IN  /\ Shows({"menu"}) /\ Redrawn(MenuFits(next), next)
        /\ w' = IF MenuFits(next) THEN redrawn ELSE w
        /\ phase' = IF ~MenuFits(next) THEN "closed" ELSE IF Broken(redrawn) THEN "crashed" ELSE "open"
        /\ UNCHANGED <<t, e>>

ResizeCheck(next) ==
    /\ Shows({"check"}) /\ Redrawn(CheckFits(next), next)
    /\ w' = IF CheckFits(next) THEN CheckDraw(w) ELSE w
    /\ phase' = IF CheckFits(next) THEN "open" ELSE "closed"
    /\ UNCHANGED <<t, e>>

ResizeText(next) ==
    /\ Shows({"text", "found"}) /\ Redrawn(TextFits(next), next)
    /\ t' = IF TextFits(next)
            THEN print_page(TextResize(t, lines), BoxHeight(next), dialog = "found")
            ELSE TextResize(t, lines)
    /\ phase' = IF TextFits(next) THEN "open" ELSE "closed"
    /\ UNCHANGED <<w, e>>

ResizeInput(next) ==
    /\ Shows({"input"}) /\ Redrawn(InputFits(next), next)
    /\ e' = EntryDraw(e.instr, BoxWidth)
    /\ phase' = IF InputFits(next) THEN "open" ELSE "closed"
    /\ UNCHANGED <<w, t>>

ResizeYesno(next) ==
    /\ Shows({"yesno"}) /\ Redrawn(YesnoFits(next), next)
    /\ phase' = IF YesnoFits(next) THEN "open" ELSE "closed"
    /\ UNCHANGED shown

Resize ==
    \E next \in Sizes :
        \/ ResizeMenu(next) \/ ResizeCheck(next) \/ ResizeText(next)
        \/ ResizeInput(next) \/ ResizeYesno(next)

Next ==
    \/ Open
    \/ MenuMoves \/ CheckMoves \/ Hotkeys \/ TextMoves \/ EntryMoves \/ Buttons
    \/ TakeMenu \/ TakeCheck \/ LeaveText \/ TakeOther \/ Leave
    \/ Resize

Spec == Init /\ [][Next]_vars

-----------------------------------------------------------------------------
(***************************************************************************)
(* The highlighted item exists, and each row of the window shows an item   *)
(* of the list, whatever scrolling was saved for another list: item_set    *)
(* past the end leaves a null pointer behind, which print_item and the     *)
(* answer follow.  menubox.c:45-46 calls lxdialog crash-safe when menus    *)
(* change their size; there is one exception, which is named here:         *)
(* do_resize draws a menu again from the first_item it had for the old     *)
(* size when the window begins at the top now (menubox.c:251-271), and     *)
(* that may run off the list.  A menu that is opened, a radiolist, and the *)
(* keys pressed after a resize that went well never do.                    *)
(***************************************************************************)
CursorOnItem ==
    /\ Shows({"menu", "check"}) =>
        /\ w.max = MIN(w.height, Count(w))
        /\ w.scroll >= 0 /\ w.scroll + w.max <= Count(w)
        /\ w.items # <<>> => w.choice \in 0 .. w.max - 1
        /\ ~Broken(w)
    /\ phase = "crashed" =>
        /\ dialog = "menu" /\ key = "resize"
        /\ w.scroll = 0 /\ w.first # 0

(***************************************************************************)
(* What <Enter> does is what is highlighted: the rows show the items of    *)
(* the window, one of them and one button are highlighted, they are those  *)
(* the answer is made of, and there are arrows where there is more.        *)
(* Drawing a dialog again for another size of the terminal breaks this:    *)
(* first_item of a menu and the button stay, the screen does not.          *)
(***************************************************************************)
RowsTrue ==
    /\ \A r \in 0 .. w.max - 1 : w.rows[r] = w.scroll + r
    /\ w.items # <<>> => w.lit = {w.choice}
    /\ (w.scroll > 0) = w.up
    /\ w.scroll + w.max < Count(w) => w.down

HighlightedIsTaken ==
    /\ Shows({"check"}) \/ (Shows({"menu"}) /\ ~resized) => RowsTrue
    /\ Shows({"menu", "check", "input", "yesno"}) /\ ~resized => drawn = MAX(button, 0)

(***************************************************************************)
(* The keys move the highlight as the instructions say, however the window *)
(* scrolls (mconf.c:49-58 and :80-84).                                     *)
(***************************************************************************)
IsList == dialog \in {"menu", "check"}
Promised == INSTANCE LxCursor WITH
    Lists  <- Lists["menu"] \union Lists["check"] \union {<<>>},
    open   <- IsList /\ phase = "open",
    items  <- w.items,
    cursor <- IF w.items = <<>> THEN 0 ELSE Cursor(w),
    key    <- IF IsList THEN key ELSE "",
    taken  <- keep.data,
    NoItem <- NoData
KeysMoveIt == Promised!Spec

(***************************************************************************)
(* The place in a text is known: from behind the page, back_lines finds    *)
(* the line the page begins with, and the keys that go on are refused at   *)
(* the first and at the last line and nowhere else.  The text has to end   *)
(* with a newline, as all do but the messages of one or two lines, and     *)
(* there has to be room for a line: a terminal of the least height that is *)
(* accepted has none.                                                      *)
(***************************************************************************)
Ended(text) == text # <<>> /\ text[Len(text)] = NL
TextPlaced ==
    Shows({"text", "found"}) /\ Ended(t.text) /\ BoxHeight(lines) > 0 =>
        /\ TextSame(t).page = t.top
        /\ t.begin_reached = (t.top = 0)
        /\ t.end_reached =
              (LineAt(t.text, t.top) + t.page_length = LineAt(t.text, Len(t.text)) + 1)

(***************************************************************************)
(* The cursor of an entry is on the screen, at the place where the next    *)
(* character goes.                                                         *)
(***************************************************************************)
EntryPlaced ==
    Shows({"input"}) =>
        /\ e.pos \in 0 .. Len(e.instr) /\ Len(e.instr) <= MAX_LEN
        /\ e.show_x + e.input_x = e.pos
        /\ e.show_x >= 0 /\ e.input_x \in 0 .. BoxWidth - 1

(***************************************************************************)
(* What a page or a field shows is where the program believes it is.       *)
(***************************************************************************)
Placed == TextPlaced /\ EntryPlaced
=============================================================================
