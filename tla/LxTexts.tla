------------------------------- MODULE LxTexts -------------------------------
(***************************************************************************)
(* The dialogs of menuconfig that show a text and that read a line:        *)
(* support/kconfig/lxdialog/textbox.c and inputbox.c.                      *)
(*                                                                         *)
(* A text is a sequence of characters, NL among them; page is the place in *)
(* it where the next line is read, and after a page is printed the place   *)
(* after it.  There is no record of where the page began: back_lines finds *)
(* it again from the number of lines printed.                              *)
(***************************************************************************)
EXTENDS Integers, Sequences, FiniteSets

NL == "\n"
\* The places of the ends of lines from i to j (the first place is 0).
Ends(text, i, j) == {q \in i .. j : q < Len(text) /\ text[q + 1] = NL}
Least(S)    == CHOOSE i \in S : \A j \in S : i <= j
Greatest(S) == CHOOSE i \in S : \A j \in S : j <= i

\* A loop of n rounds.
Times(op(_), n, t) ==
    LET after[i \in 0 .. n] == IF i = 0 THEN t ELSE op(after[i - 1])
    IN  IF n <= 0 THEN t ELSE after[n]

\* A text before its first page is printed.
NewText(text) ==
    [text |-> text, page |-> 0, begin_reached |-> TRUE, end_reached |-> FALSE,
     page_length |-> 0, top |-> 0]

get_line(t) ==
    LET ends == Ends(t.text, t.page, Len(t.text) - 1)
    IN  [t EXCEPT !.page = IF ends = {} THEN Len(t.text) ELSE Least(ends) + 1,
                  !.end_reached = ends = {}]

\* Mutant: the last line does not count.
LineBackPlain(t) ==
    LET ends == Ends(t.text, 0, t.page - 2)
    IN  IF ends = {} THEN [t EXCEPT !.page = 0, !.begin_reached = TRUE]
        ELSE [t EXCEPT !.page = Greatest(ends) + 1]

\* The line before; the last line counts when its end was reached.
LineBack(t) ==
    LET ends == Ends(t.text, 0, t.page - 2)
    IN  IF t.page = Len(t.text) /\ t.end_reached THEN [t EXCEPT !.end_reached = FALSE]
        ELSE IF ends = {} THEN [t EXCEPT !.page = 0, !.begin_reached = TRUE]
        ELSE [t EXCEPT !.page = Greatest(ends) + 1]

\* It returns as soon as the first line is reached.
BackStep(b) == IF b.begin_reached THEN b ELSE LineBack(b)
back_lines(t, n) ==
    Times(BackStep, n, [t EXCEPT !.begin_reached = FALSE])

\* One line of a page: its length stops at the line that ends the text.
print_line(t) ==
    LET after == get_line(t)
    IN  IF t.end_reached /\ t.page_length > 0 THEN after
        ELSE [after EXCEPT !.page_length = @ + 1]

\* A text that is updated is read one page ahead first, and then is shown from
\* height lines back.
print_page(t, height, updated) ==
    LET ahead == Times(get_line, height, t)
        from  == IF updated THEN back_lines(ahead, height) ELSE t
    IN  Times(print_line, height,
              [from EXCEPT !.page_length = 0, !.top = from.page])

-----------------------------------------------------------------------------
\* dialog_textbox.

TEXTBOX_HEIGTH_MIN == 8
TextFits(lines) == lines >= TEXTBOX_HEIGTH_MIN
\* boxh of a text box that takes the height of the screen.
BoxHeight(lines) == lines - 4 - 4

\* From the line that the caller saved on.
TextOpen(text, vscroll) ==
    [Times(get_line, vscroll, NewText(text)) EXCEPT !.begin_reached = vscroll = 0]

TextFirst(t) == [t EXCEPT !.begin_reached = TRUE, !.page = 0]
TextLast(t, boxh) == back_lines([t EXCEPT !.end_reached = TRUE, !.page = Len(t.text)], boxh)
TextUp(t) == back_lines(t, t.page_length + 1)
TextDown(t) == back_lines(t, t.page_length - 1)
TextPageUp(t, boxh) == back_lines(t, t.page_length + boxh)
TextPageDown(t) == [t EXCEPT !.begin_reached = FALSE]

\* Scrolling sideways prints the same page again.
TextSame(t) == back_lines(t, t.page_length)

\* A new size: the whole height of the dialog back.
TextResize(t, lines) == back_lines(t, lines - 4)

\* The line that begins at a place: the one the caller is given to keep.
LineAt(text, page) == Cardinality(Ends(text, 0, page - 1))
TextScroll(t) == LineAt(t.text, TextSame(t).page)

-----------------------------------------------------------------------------
\* dialog_inputbox.

\* The cursor is behind the text; a text that does not fit is shown from
\* show_x on, with the cursor in the last column.
EntryDraw(instr, box_width) ==
    LET len == Len(instr)
        fits == len < box_width
    IN  [instr |-> instr, pos |-> len,
         show_x |-> IF fits THEN 0 ELSE len - box_width + 1,
         input_x |-> IF fits THEN len ELSE box_width - 1]

\* The cursor goes one to the left, or the text one to the right.
StepLeft(e) == [e EXCEPT !.pos = @ - 1,
                         !.input_x = IF @ = 0 THEN @ ELSE @ - 1,
                         !.show_x = IF e.input_x = 0 THEN @ - 1 ELSE @]
StepRight(e, box_width) ==
    [e EXCEPT !.pos = @ + 1,
              !.input_x = IF @ = box_width - 1 THEN @ ELSE @ + 1,
              !.show_x = IF e.input_x = box_width - 1 THEN @ + 1 ELSE @]

Before(e) == SubSeq(e.instr, 1, e.pos)
After(e)  == SubSeq(e.instr, e.pos + 1, Len(e.instr))

EntryLeft(e) == IF e.pos > 0 THEN StepLeft(e) ELSE e
EntryRight(e, box_width) ==
    IF e.pos < Len(e.instr) THEN StepRight(e, box_width) ELSE e

Backspace(e) ==
    IF e.pos > 0
    THEN [StepLeft(e) EXCEPT !.instr = SubSeq(e.instr, 1, e.pos - 1) \o After(e)]
    ELSE e

\* A full line flashes the screen.
Type(e, c, box_width, max_len) ==
    IF Len(e.instr) < max_len
    THEN [StepRight(e, box_width) EXCEPT !.instr = Append(Before(e), c) \o After(e)]
    ELSE e
=============================================================================
