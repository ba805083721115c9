----------------------------- MODULE MCLxDialog -----------------------------
\* Instances of LxDialog for TLC: terminals of 8, 9, 17 and 21 lines, lists
\* that fit in them and lists that do not, texts that end with a newline.
EXTENDS LxDialog, SequencesExt, TLC

MCSizes == {8, 9, 17, 21}
MCLetters == {"a", "s"}

\* n items; every third one has the hotkey s, and that of the data x the tag X.
Items(n, from, x) ==
    [i \in 1 .. n |-> [data |-> from + i, letter |-> IF i % 3 = 0 THEN "s" ELSE "a",
                       tagged |-> from + i = x]]

\* A menu that is empty, short or long, and the long one without its beginning.
MCLists == [menu  |-> {<<>>, Items(8, 0, 0), Items(5, 2, 0)},
            check |-> {Items(3, 0, 2), Items(8, 0, 8)}]

\* A text of n lines, the second one of them empty.
Text_(n) == FlattenSeq([i \in 1 .. n |-> IF i = 2 THEN <<NL>> ELSE <<"c", NL>>])

MCTexts == [text  |-> {<<"c">>, Text_(3), Text_(15)},
            found |-> {Text_(2), Text_(13), Text_(18)},
            input |-> {<<>>, <<"a", "s", "a", "a">>}]
=============================================================================
