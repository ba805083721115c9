------------------------------ MODULE KSession ------------------------------
(***************************************************************************)
(* What an interactive configurator promises of its files, whatever a      *)
(* configuration is: a session shows one configuration, which comes from a *)
(* file and goes to a file whole, and it does not end without a question   *)
(* while the two differ.                                                   *)
(***************************************************************************)
CONSTANTS
    Configs,    \* the configurations
    Names       \* the names of files

VARIABLES
    shown,    \* the configuration the session shows
    file,     \* the files: whether there is one, and what it holds
    current,  \* the name of the file that was read or written last
    dirty,    \* the program believes that shown has to be saved
    phase     \* "before", "open", "saved", "given up" or "failed"
vars == <<shown, file, current, dirty, phase>>

Files == [there : BOOLEAN, config : Configs]
Shown == [there |-> TRUE, config |-> shown]     \* as a file holds it

Init ==
    /\ shown \in Configs /\ file \in [Names -> Files]
    /\ current \in Names /\ dirty = TRUE /\ phase = "before"

\* Reading may change what the file says: then it has to be saved.
Start ==
    /\ phase = "before" /\ phase' = "open"
    /\ shown' \in Configs /\ dirty' \in BOOLEAN
    /\ ~dirty' => Shown' = file[current]
    /\ UNCHANGED <<file, current>>

Change ==
    /\ phase = "open"
    /\ shown' \in Configs /\ dirty' \in {dirty, TRUE}
    /\ shown' # shown => dirty'
    /\ UNCHANGED <<file, current, phase>>

Load(n) ==
    /\ phase = "open" /\ file[n].there
    /\ shown' \in Configs /\ current' = n /\ dirty' = TRUE
    /\ UNCHANGED <<file, phase>>

Store(n) ==
    /\ file' = [file EXCEPT ![n] = Shown]
    /\ current' = n /\ dirty' = FALSE
    /\ UNCHANGED shown

Save(n) == phase = "open" /\ Store(n) /\ UNCHANGED phase

\* The end: nothing to save, saved, or the user declined or could not.
Quit ==
    /\ phase = "open"
    /\ \/ ~dirty /\ phase' = "saved" /\ UNCHANGED <<shown, file, current, dirty>>
       \/ dirty /\ phase' = "saved" /\ Store(current)
       \/ dirty /\ phase' \in {"given up", "failed"}
          /\ UNCHANGED <<shown, file, current, dirty>>

Next == Start \/ Change \/ Quit \/ \E n \in Names : Load(n) \/ Save(n)
Spec == Init /\ [][Next]_vars

-----------------------------------------------------------------------------
TypeOK ==
    /\ shown \in Configs /\ file \in [Names -> Files]
    /\ current \in Names /\ dirty \in BOOLEAN
    /\ phase \in {"before", "open", "saved", "given up", "failed"}

(***************************************************************************)
(* Nothing is lost without a word: a session that ends as if all were      *)
(* saved leaves its configuration in the file it worked on.                *)
(***************************************************************************)
NothingLost == phase = "saved" => file[current] = Shown
=============================================================================
