------------------------------ MODULE DlWrapper ------------------------------
(***************************************************************************)
(* support/download/dl-wrapper: the script every download of a package     *)
(* goes through, run under flock(1) on <pkg>_DL_DIR/.lock by the DOWNLOAD  *)
(* macro of package/pkg-download.mk.  Several runs contend for one file:   *)
(* packages sharing a download directory in one parallel build, and builds *)
(* of several trees sharing BR2_DL_DIR, each tree with its own .hash file. *)
(* A run may be killed at any step and started again, and "set -e" stops   *)
(* it at a command whose failure the script does not test.                 *)
(*                                                                         *)
(* A content is an element of Data.  A truncated or corrupt download whose *)
(* backend nevertheless succeeds is simply a content no .hash file lists.  *)
(***************************************************************************)
EXTENDS Naturals

CONSTANTS
    Client,     \* the builds (or packages) that want the file
    Data,       \* the contents a location may serve, or a .hash file list
    Absent,     \* "no such file or directory"
    Partial,    \* a file or a temporary directory that is not filled yet
    NoClient,   \* nobody holds the lock
    NUris,      \* how many locations are given to the wrapper with -u
    LinkWorks,  \* BR2_DL_DIR and <pkg>_DL_DIR can share hard links
    HasPost,    \* a post-process script is given with -p
    MaxRuns,    \* bound: how often a client runs the wrapper
    MaxKills    \* bound: how many of the runs are killed

ASSUME DataAssumption ==
    /\ Absent \notin Data /\ Partial \notin Data /\ Absent # Partial
    /\ NoClient \notin Client
    /\ {"nohash", "unlisted", "badalgo"} \intersect Data = {}
ASSUME BoundAssumption ==
    /\ NUris \in Nat /\ MaxRuns \in Nat /\ MaxKills \in Nat
    /\ LinkWorks \in BOOLEAN /\ HasPost \in BOOLEAN

VARIABLES
    lock,       \* the client that holds the flock, or NoClient
    out,        \* ${output}: the file in <pkg>_DL_DIR
    old,        \* ${old_dl_dir}/${filename}: the file in the legacy location
    hash,       \* what each client's .hash file says of the file
    pc,         \* where each client's run is, or how the last one ended
    tried,      \* how many locations the run has tried
    tmpd,       \* ${tmpd}/output in BUILD_DIR (Partial: the directory is there)
    tmpo,       \* ${tmp_output}, next to ${output}
    rc,         \* ${rc}: the exit status the run is going to return
    runs,       \* how many runs each client started
    kills,      \* how many of each client's runs were killed
    clutter     \* in which directories ended runs left temporaries, and how
                \* each of those runs had ended

vars == <<lock, out, old, hash, pc, tried, tmpd, tmpo, rc, runs, kills, clutter>>

\* How a run ends without success: by an exit of the script, by set -e at a
\* command the script does not test, or by a signal.
Failed == {"failed", "stopped", "killed"}

\* The exit codes of check-hash are those of the abstract specification.
Store == INSTANCE DlStore WITH
    file   <- out,
    answer <- [c \in Client |->
                 CASE pc[c] = "idle"   -> "none"
                   [] pc[c] = "ok"     -> "ok"
                   [] pc[c] \in Failed -> "failed"
                   [] OTHER            -> "asking"]

CheckHash(c, content) == Store!Verdict(hash[c], content)

Content == Data \union {Absent, Partial}

Ended == {"idle", "ok"} \union Failed
Fetching == {"next", "fetch", "post", "verify", "mkout", "chmod", "cat", "rmtmp", "mv"}
Holding == Fetching \union {"legacy", "copy", "check", "exit"}
Running == Holding \union {"lock"}

-----------------------------------------------------------------------------
Init ==
    /\ lock = NoClient
    /\ out \in Data \union {Absent}
    /\ old \in Data \union {Absent}
    /\ hash \in [Client -> Store!Policy]
    /\ pc = [c \in Client |-> "idle"]
    /\ tried = [c \in Client |-> 0]
    /\ tmpd = [c \in Client |-> Absent]
    /\ tmpo = [c \in Client |-> Absent]
    /\ rc = [c \in Client |-> 1]
    /\ runs = [c \in Client |-> 0]
    /\ kills = [c \in Client |-> 0]
    /\ clutter = [c \in Client |-> {}]

Goto(c, from, to) == pc[c] = from /\ pc' = [pc EXCEPT ![c] = to]

\* What a run leaves behind when it ends without removing its temporaries.
LeftBehind(c, how) ==
    clutter[c] \union (IF tmpd[c] # Absent THEN {<<"build", how>>} ELSE {})
               \union (IF tmpo[c] # Absent THEN {<<"dl", how>>} ELSE {})

\* Mutant: the lock is a file the script creates and never removes.
EndKeepsLock(c, how) ==
    /\ pc' = [pc EXCEPT ![c] = how]
    /\ lock' = lock
    /\ clutter' = [clutter EXCEPT ![c] = LeftBehind(c, how)]
    /\ tmpd' = [tmpd EXCEPT ![c] = Absent]
    /\ tmpo' = [tmpo EXCEPT ![c] = Absent]

\* The end of the script: flock(1) exits with it and the lock is released.
End(c, how) ==
    /\ pc' = [pc EXCEPT ![c] = how]
    /\ lock' = IF lock = c THEN NoClient ELSE lock
    /\ clutter' = [clutter EXCEPT ![c] = LeftBehind(c, how)]
    /\ tmpd' = [tmpd EXCEPT ![c] = Absent]
    /\ tmpo' = [tmpo EXCEPT ![c] = Absent]

\* make runs the DOWNLOAD macro: the first time, after a failure, or after
\* the stamp of the package was removed.
Start(c) ==
    /\ pc[c] \in Ended
    /\ runs[c] < MaxRuns
    /\ pc' = [pc EXCEPT ![c] = "lock"]
    /\ runs' = [runs EXCEPT ![c] = @ + 1]
    /\ tried' = [tried EXCEPT ![c] = 0]
    /\ UNCHANGED <<lock, out, old, hash, tmpd, tmpo, rc, kills, clutter>>

Acquire(c) ==
    /\ lock = NoClient
    /\ Goto(c, "lock", "legacy")
    /\ lock' = c
    /\ UNCHANGED <<out, old, hash, tried, tmpd, tmpo, rc, runs, kills, clutter>>

\* "ln || cp || true", when the file is only in the legacy location.  ln is
\* atomic.  cp creates the file and then fills it, or fails to create it.
Legacy(c) ==
    /\ IF out = Absent /\ old # Absent
         THEN IF LinkWorks
                THEN out' = old /\ Goto(c, "legacy", "check")
                ELSE \/ out' = Partial /\ Goto(c, "legacy", "copy")
                     \/ out' = out     /\ Goto(c, "legacy", "check")
         ELSE out' = out /\ Goto(c, "legacy", "check")
    /\ UNCHANGED <<lock, old, hash, tried, tmpd, tmpo, rc, runs, kills, clutter>>

\* cp completes the file, or fails (no space left) and leaves what it wrote.
Copy(c) ==
    /\ Goto(c, "copy", "check")
    /\ out' \in {old, Partial}
    /\ UNCHANGED <<lock, old, hash, tried, tmpd, tmpo, rc, runs, kills, clutter>>

\* An existing file is kept when it checks, kept with an error when it cannot
\* be checked, and removed to be downloaded again when it does not match.
CheckExisting(c) ==
    /\ IF out = Absent
         THEN Goto(c, "check", "next") /\ UNCHANGED <<out, rc>>
         ELSE LET v == CheckHash(c, out) IN
              \/ /\ v = 0
                 /\ Goto(c, "check", "exit")
                 /\ rc' = [rc EXCEPT ![c] = 0]
                 /\ out' = out
              \/ /\ v \notin {0, 2}
                 /\ Goto(c, "check", "exit")
                 /\ rc' = [rc EXCEPT ![c] = 1]
                 /\ out' = out
              \/ /\ v = 2
                 /\ Goto(c, "check", "next")
                 /\ out' = Absent
                 /\ rc' = rc
    /\ UNCHANGED <<lock, old, hash, tried, tmpd, tmpo, runs, kills, clutter>>

\* The head of the loop on the locations.  The run ends past the last one.
NextUri(c) ==
    /\ pc[c] = "next"
    /\ \/ /\ tried[c] < NUris
          /\ pc' = [pc EXCEPT ![c] = "fetch"]
          /\ tried' = [tried EXCEPT ![c] = @ + 1]
          /\ tmpd' = [tmpd EXCEPT ![c] = Partial]
          /\ UNCHANGED <<lock, tmpo, clutter>>
       \/ tried[c] = NUris /\ End(c, "failed") /\ UNCHANGED tried
    /\ UNCHANGED <<out, old, hash, rc, runs, kills>>

\* The download fails: tmpd is removed, and the next location is tried.
GiveUp(c, from) ==
    /\ Goto(c, from, "next")
    /\ tmpd' = [tmpd EXCEPT ![c] = Absent]

\* The backend (wget, git, ...) for the location fails or leaves a content.
Fetch(c) ==
    /\ \/ GiveUp(c, "fetch")
       \/ /\ Goto(c, "fetch", IF HasPost THEN "post" ELSE "verify")
          /\ \E d \in Data : tmpd' = [tmpd EXCEPT ![c] = d]
    /\ UNCHANGED <<lock, out, old, hash, tried, tmpo, rc, runs, kills, clutter>>

\* The post-process script (go, cargo) fails or repacks the content.
PostProcess(c) ==
    /\ \/ GiveUp(c, "post")
       \/ /\ Goto(c, "post", "verify")
          /\ \E d \in Data : tmpd' = [tmpd EXCEPT ![c] = d]
    /\ UNCHANGED <<lock, out, old, hash, tried, tmpo, rc, runs, kills, clutter>>

\* Mutant: rc is not set to 1 for a file without a hash.
VerifyForgetsRc(c) ==
    /\ LET v == CheckHash(c, tmpd[c]) IN
         \/ /\ v \in {0, 3}
            /\ Goto(c, "verify", "mkout")
            /\ rc' = [rc EXCEPT ![c] = 0]
            /\ UNCHANGED tmpd
         \/ v \notin {0, 3} /\ GiveUp(c, "verify") /\ UNCHANGED rc
    /\ UNCHANGED <<lock, out, old, hash, tried, tmpo, runs, kills, clutter>>

\* Mutant: only a mismatch drops the download, an unknown algorithm does not.
VerifyKeepsUnknown(c) ==
    /\ LET v == CheckHash(c, tmpd[c]) IN
         \/ /\ v # 2
            /\ Goto(c, "verify", "mkout")
            /\ rc' = [rc EXCEPT ![c] = IF v = 0 THEN 0 ELSE 1]
            /\ UNCHANGED tmpd
         \/ v = 2 /\ GiveUp(c, "verify") /\ UNCHANGED rc
    /\ UNCHANGED <<lock, out, old, hash, tried, tmpo, runs, kills, clutter>>

\* The download is good, or is kept (with an error) because the .hash file
\* has nothing to say about it, or is dropped.
Verify(c) ==
    /\ LET v == CheckHash(c, tmpd[c]) IN
         \/ /\ v \in {0, 3}
            /\ Goto(c, "verify", "mkout")
            /\ rc' = [rc EXCEPT ![c] = IF v = 0 THEN 0 ELSE 1]
            /\ UNCHANGED tmpd
         \/ v \notin {0, 3} /\ GiveUp(c, "verify") /\ UNCHANGED rc
    /\ UNCHANGED <<lock, out, old, hash, tried, tmpo, runs, kills, clutter>>

\* Mutant: the download is written straight to ${output}.
MkOutputInPlace(c) ==
    /\ Goto(c, "mkout", "chmod")
    /\ tmpo' = [tmpo EXCEPT ![c] = Partial]
    /\ out' = Partial
    /\ UNCHANGED <<lock, old, hash, tried, tmpd, rc, runs, kills, clutter>>

\* mktemp next to ${output}
MkOutput(c) ==
    /\ Goto(c, "mkout", "chmod")
    /\ tmpo' = [tmpo EXCEPT ![c] = Partial]
    /\ UNCHANGED <<lock, out, old, hash, tried, tmpd, rc, runs, kills, clutter>>

\* The temporary is given the mode the file is to have.
SetMode(c) ==
    /\ Goto(c, "chmod", "cat")
    /\ UNCHANGED <<lock, out, old, hash, tried, tmpd, tmpo, rc, runs, kills, clutter>>

\* Mutant: only tmpd is removed.
AbortForgetsTmpo(c, from) ==
    /\ Goto(c, from, "exit")
    /\ rc' = [rc EXCEPT ![c] = 1]
    /\ tmpd' = [tmpd EXCEPT ![c] = Absent]
    /\ UNCHANGED tmpo

\* A failed step of the publication removes the temporaries and exits 1.
Abort(c, from) ==
    /\ Goto(c, from, "exit")
    /\ rc' = [rc EXCEPT ![c] = 1]
    /\ tmpd' = [tmpd EXCEPT ![c] = Absent]
    /\ tmpo' = [tmpo EXCEPT ![c] = Absent]

\* cat "${tmpf}" >>"${tmp_output}"
Cat(c) ==
    /\ \/ /\ Goto(c, "cat", "rmtmp")
          /\ tmpo' = [tmpo EXCEPT ![c] = tmpd[c]]
          /\ UNCHANGED <<tmpd, rc>>
       \/ Abort(c, "cat")
    /\ UNCHANGED <<lock, out, old, hash, tried, runs, kills, clutter>>

RemoveTmpd(c) ==
    /\ Goto(c, "rmtmp", "mv")
    /\ tmpd' = [tmpd EXCEPT ![c] = Absent]
    /\ UNCHANGED <<lock, out, old, hash, tried, tmpo, rc, runs, kills, clutter>>

\* mv -f within one directory: rename(2), atomic.
Rename(c) ==
    /\ \/ /\ Goto(c, "mv", "exit")
          /\ out' = tmpo[c]
          /\ tmpo' = [tmpo EXCEPT ![c] = Absent]
          /\ UNCHANGED <<tmpd, rc>>
       \/ Abort(c, "mv") /\ UNCHANGED out
    /\ UNCHANGED <<lock, old, hash, tried, runs, kills, clutter>>

Exit(c) ==
    /\ pc[c] = "exit"
    /\ End(c, IF rc[c] = 0 THEN "ok" ELSE "failed")
    /\ UNCHANGED <<out, old, hash, tried, rc, runs, kills>>

\* A command that the script does not test fails and set -e ends the script,
\* with the temporaries that exist by then: the rm of a file that did not
\* match, mktemp, cd, the rm after a failed download, the computation of the
\* mode and chmod, the rm of tmpd, and the rm of the temporaries after a
\* failed cat or mv.  What a failing rm did remove counts as left.
Stop(c) ==
    /\ \/ pc[c] = "check" /\ out # Absent /\ CheckHash(c, out) = 2
       \/ pc[c] = "next" /\ tried[c] < NUris
       \/ pc[c] \in Fetching \ {"next"}
    /\ End(c, "stopped")
    /\ UNCHANGED <<out, old, hash, tried, rc, runs, kills>>

\* The run is killed (SIGINT to the process group, power loss): nothing traps
\* it, the temporaries stay and the kernel releases the lock.
Kill(c) ==
    /\ pc[c] \in Running
    /\ kills[c] < MaxKills
    /\ End(c, "killed")
    /\ kills' = [kills EXCEPT ![c] = @ + 1]
    /\ UNCHANGED <<out, old, hash, tried, rc, runs>>

Step(c) ==
    \/ Acquire(c) \/ Legacy(c) \/ Copy(c) \/ CheckExisting(c)
    \/ NextUri(c) \/ Fetch(c) \/ PostProcess(c) \/ Verify(c)
    \/ MkOutput(c) \/ SetMode(c) \/ Cat(c) \/ RemoveTmpd(c) \/ Rename(c)
    \/ Exit(c) \/ Stop(c)

Next == \E c \in Client : Start(c) \/ Step(c) \/ Kill(c)

Spec == Init /\ [][Next]_vars

\* Every command of a run that was started ends: the backends have timeouts,
\* and the kernel grants a free lock to a waiter.  Nobody has to start a run.
FairSpec == Spec /\ \A c \in Client : WF_vars(Step(c))

-----------------------------------------------------------------------------
TypeOK ==
    /\ lock \in Client \union {NoClient}
    /\ out \in Content
    /\ old \in Data \union {Absent}
    /\ hash \in [Client -> Store!Policy]
    /\ pc \in [Client -> Running \union Ended]
    /\ tried \in [Client -> 0..NUris]
    /\ tmpd \in [Client -> Content]
    /\ tmpo \in [Client -> Content]
    /\ rc \in [Client -> {0, 1}]
    /\ runs \in [Client -> 0..MaxRuns]
    /\ kills \in [Client -> 0..MaxKills]
    /\ clutter \in [Client -> SUBSET ({"build", "dl"} \X ({"ok"} \union Failed))]

\* No copy into place is possible: links work or there is no legacy file.
AtomicLegacy == LinkWorks \/ old = Absent

\* Nobody ever sees a half-written file under its final name, whatever run is
\* killed and whenever, as long as a legacy file can be hard-linked.
NeverPartial == AtomicLegacy => out # Partial

\* A run that fetches is alone and has nothing to lose: there is no file, so
\* neither its download nor its rename can destroy one somebody relies on.
FetchOnlyIfAbsent ==
    \A c \in Client : pc[c] \in Fetching => lock = c /\ out = Absent

\* When all trees agree on the hashes, a client that was told "ok" still finds
\* a file its .hash file accepts whenever it comes to extract it, although it
\* reads the file outside of the lock, with other runs in progress.
ReadyToExtract ==
    (\A c, d \in Client : hash[c] = hash[d]) =>
        \A c \in Client :
            pc[c] = "ok" => out # Absent /\ CheckHash(c, out) = 0

\* What makes these inductive: the lock is held exactly inside the script, what
\* is about to be published was checked, what is being published is whole, and
\* nobody relies on a file that is still being copied into place.
LockInv == \A c \in Client : lock = c <=> pc[c] \in Holding

Checked(c, content) ==
    /\ content \in Data
    /\ CheckHash(c, content) \in {0, 3}
    /\ rc[c] = 0 => CheckHash(c, content) = 0

PublishInv ==
    \A c \in Client :
        /\ pc[c] \in Fetching => out = Absent
        /\ pc[c] = "verify" => tmpd[c] \in Data
        /\ pc[c] \in {"mkout", "chmod", "cat", "rmtmp"} => Checked(c, tmpd[c])
        /\ pc[c] \in {"rmtmp", "mv"} => Checked(c, tmpo[c])
        /\ pc[c] = "exit" /\ rc[c] = 0 => out # Absent /\ CheckHash(c, out) = 0
        /\ tmpo[c] # Absent => pc[c] \in {"chmod", "cat", "rmtmp", "mv"}

CopyInv ==
    \A c \in Client :
        pc[c] = "copy" =>
            /\ ~LinkWorks
            /\ old # Absent
            /\ out = Partial
            /\ (\A d, e \in Client : hash[d] = hash[e]) => \A d \in Client : pc[d] # "ok"

IndInv == TypeOK /\ LockInv /\ PublishInv /\ CopyInv /\ NeverPartial /\ ReadyToExtract

\* A run that ends by an exit of its own, whatever failed before (a backend,
\* the hashes, cat, mv), leaves nothing in BR2_DL_DIR beside the file.  What is
\* left there was left by a run that was killed, or that set -e stopped between
\* mktemp and mv, at a failing chmod or rm, which the script does not test.
DlDirClean ==
    \A c \in Client : \A left \in clutter[c] :
        left[1] = "dl" => left[2] \in {"stopped", "killed"}

\* A run reports success only over a file its own .hash file accepts at that
\* very step, even when trees disagree and runs were killed before it.
OkOnlyIfVerified ==
    [][\A c \in Client :
          pc[c] # "ok" /\ pc'[c] = "ok" => out # Absent /\ CheckHash(c, out) = 0]_vars

\* A whole file that no tree's hashes reject stays what it is: it is neither
\* downloaded again nor removed, the file without hashes included.
KeptUnlessRejected ==
    [][(out \in Data /\ \A c \in Client : CheckHash(c, out) # 2) => out' = out]_vars

\* A run that was started comes to an end, so no client waits for ever on the
\* lock, whatever the others do.
RunsEnd == \A c \in Client : pc[c] \in Running ~> pc[c] \in Ended

\* The abstract store is implemented.
ImplementsStore == Store!Spec
=============================================================================
