------------------------------- MODULE DlStore -------------------------------
(***************************************************************************)
(* What the download cache promises to the packages that use it, without   *)
(* locks, temporaries or retries.  One file of BR2_DL_DIR is either absent *)
(* or holds one whole content; clients ask for it and get an answer.       *)
(*   - a client is answered "ok" only while the file is one its own .hash  *)
(*     file accepts;                                                       *)
(*   - a file is discarded only on behalf of a client whose .hash file     *)
(*     rejects it, and published only where there is none;                 *)
(*   - a partial file is never seen.                                       *)
(* The detailed module DlWrapper (support/download/dl-wrapper under flock) *)
(* is shown to implement this one.                                         *)
(***************************************************************************)
EXTENDS Naturals

CONSTANTS
    Client,     \* the users of the file
    Data,       \* the contents the file can have
    Absent      \* "there is no such file"

VARIABLES
    file,       \* the file, as anybody sees it
    old,        \* the file of the same name in the legacy location
    hash,       \* what the .hash file of each client says of the file
    answer      \* what each client was told last

vars == <<file, old, hash, answer>>

\* A .hash policy: a content (the one whose hashes are listed), or one of the
\* three ways for a .hash file not to settle the question.
NoHash   == "nohash"      \* no .hash file, or the file is exempted
Unlisted == "unlisted"    \* a .hash file, with no line for this file
BadAlgo  == "badalgo"     \* a line with a hash algorithm nobody knows

Policy == Data \union {NoHash, Unlisted, BadAlgo}

\* The exit code of support/download/check-hash.
Verdict(policy, content) ==
    CASE policy = NoHash   -> 0
      [] policy = Unlisted -> 3
      [] policy = BadAlgo  -> 4
      [] OTHER             -> IF content = policy THEN 0 ELSE 2

Init ==
    /\ file \in Data \union {Absent}
    /\ old \in Data \union {Absent}
    /\ hash \in [Client -> Policy]
    /\ answer = [c \in Client |-> "none"]

\* A client asks, possibly again.
Ask(c) ==
    /\ answer[c] # "asking"
    /\ answer' = [answer EXCEPT ![c] = "asking"]
    /\ UNCHANGED <<file, old, hash>>

\* The legacy file is taken over.
Migrate(c) ==
    /\ answer[c] = "asking"
    /\ file = Absent
    /\ old # Absent
    /\ file' = old
    /\ UNCHANGED <<old, hash, answer>>

\* A file the client's hashes reject is dropped.
Discard(c) ==
    /\ answer[c] = "asking"
    /\ file # Absent
    /\ Verdict(hash[c], file) = 2
    /\ file' = Absent
    /\ UNCHANGED <<old, hash, answer>>

\* A new file appears, whole and in one step.
Publish(c) ==
    /\ answer[c] = "asking"
    /\ file = Absent
    /\ \E d \in Data : Verdict(hash[c], d) \in {0, 3} /\ file' = d
    /\ UNCHANGED <<old, hash, answer>>

Grant(c) ==
    /\ answer[c] = "asking"
    /\ file # Absent
    /\ Verdict(hash[c], file) = 0
    /\ answer' = [answer EXCEPT ![c] = "ok"]
    /\ UNCHANGED <<file, old, hash>>

Refuse(c) ==
    /\ answer[c] = "asking"
    /\ answer' = [answer EXCEPT ![c] = "failed"]
    /\ UNCHANGED <<file, old, hash>>

Next ==
    \E c \in Client :
        Ask(c) \/ Migrate(c) \/ Discard(c) \/ Publish(c) \/ Grant(c) \/ Refuse(c)

Spec == Init /\ [][Next]_vars
=============================================================================
