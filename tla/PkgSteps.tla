------------------------------- MODULE PkgSteps -------------------------------
(***************************************************************************)
(* The life of a package in package/pkg-generic.mk: the chain of steps     *)
(* from download to installation, each recorded by a stamp file, run by    *)
(* GNU make for one command line after another.                            *)
(*                                                                         *)
(* A node is a step of a package, that is, one .stamp_* target.  make      *)
(* looks at a stamp once per invocation, before it updates what the target *)
(* depends on; it runs the step when the stamp was missing, or older than  *)
(* a normal prerequisite, or when a normal prerequisite was made again.    *)
(* Order-only prerequisites (after a |) are waited for and nothing more.   *)
(* An invocation may fail in a step or be killed, and users repeat it.     *)
(***************************************************************************)
EXTENDS Naturals, Sequences, FiniteSets

CONSTANTS
    Pkg,        \* the packages of the configuration
    Override,   \* those with <pkg>_OVERRIDE_SRCDIR
    Installs,   \* Installs[p]: which of staging, images, target, host p has
    Depends,    \* Depends[p][s]: the packages the step s of p waits for
    NPatch,     \* NPatch[p]: how many patches p has
    Parallel,   \* the commands given with -jN; it has no effect without
                \* BR2_PER_PACKAGE_DIRECTORIES (.NOTPARALLEL)
    Ops,        \* the commands users give
    MaxMakes,   \* bound: how many times make is run
    MaxFaults   \* bound: how many steps fail or invocations are killed

InstallStep == {"staging", "images", "target", "host"}
DependsStep == {"source", "extract", "patch", "configure"}
PkgOp == {"reinstall", "rebuild", "reconfigure", "dirclean"}

ASSUME PkgAssumption ==
    /\ Pkg # {} /\ Override \subseteq Pkg
    /\ Installs \in [Pkg -> SUBSET InstallStep]
    /\ Depends \in [Pkg -> [DependsStep -> SUBSET Pkg]]
    /\ NPatch \in [Pkg -> Nat]
    /\ Parallel \subseteq Ops
    /\ Ops \subseteq PkgOp \union {"all"}
    /\ MaxMakes \in Nat /\ MaxFaults \in Nat

VARIABLES
    op, arg,    \* the command: "all", or PkgOp and the package it is for
    outcome,    \* "busy" while make runs, else how it ended ("idle": not run)
    todo,       \* the stamps the <pkg>-clean-for-* rules have still to remove
    st,         \* what make knows of each node in this invocation
    stamp,      \* the stamp files that exist
    stale,      \* those older than the stamp of a normal prerequisite
    next,       \* how many patches the running patch step went through
    hand,       \* whether it has listed a patch that it has not applied yet
    listed,     \* how many patches .applied_patches_list names, per package
    applied,    \* how many patches were applied to the sources
    torn,       \* the packages whose dirclean was begun and not finished
    produced,   \* ghost: the steps that are complete, stamp or not
    outdated,   \* ghost: those completed before the step they continue was
    settled,    \* ghost: all was complete when this invocation began
    makes, faults

make == <<op, arg, outcome, settled, makes>>
sources == <<next, hand, listed, applied>>
disk == <<stamp, stale, sources, torn, produced, outdated>>
vars == <<make, todo, st, disk, faults>>

-----------------------------------------------------------------------------
\* The rules.

StepsOf(p) ==
    {"configure", "build", "install"} \union Installs[p] \union
    (IF p \in Override THEN {"rsync"} ELSE {"source", "extract", "patch"})

Node == {<<p, s>> : p \in Pkg, s \in
            {"source", "extract", "patch", "rsync", "configure", "build",
             "install"} \union InstallStep}

RealNode == {n \in Node : n[2] \in StepsOf(n[1])}

\* Which steps of the same package a step continues.
Follows ==
    [source    |-> {},
     rsync     |-> {},
     extract   |-> {"source"},
     patch     |-> {"extract"},
     configure |-> {"patch"},
     build     |-> {"configure"},
     staging   |-> {"build"},
     images    |-> {"build"},
     host      |-> {"build"},
     target    |-> {"build", "staging"},
     install   |-> {"build"} \union InstallStep]

\* Mutant: the order of an override package is kept by a normal prerequisite.
NormalWithRsync(n) ==
    {<<n[1], s>> : s \in Follows[n[2]] \intersect StepsOf(n[1])}
    \union (IF n[2] = "configure" /\ n[1] \in Override THEN {<<n[1], "rsync">>} ELSE {})

Normal(n) == {<<n[1], s>> : s \in Follows[n[2]] \intersect StepsOf(n[1])}

\* <dep>, <dep>-patch: the last node of a package another one waits for.
DependsOn(d, s) ==
    IF s # "patch" THEN <<d, "install">>
    ELSE IF d \in Override THEN <<d, "rsync">> ELSE <<d, "patch">>

\* Mutant: the dependencies are not waited for.
OrderOnlyNoDepends(n) ==
    IF n[2] = "configure" /\ n[1] \in Override THEN {<<n[1], "rsync">>} ELSE {}

\* Mutant: the packages that depend on a package are waited for as well.
OrderOnlyBothWays(n) ==
    (IF n[2] \in DependsStep
       THEN {DependsOn(d, n[2]) : d \in Depends[n[1]][n[2]]
               \union {r \in Pkg : n[1] \in Depends[r][n[2]]}} ELSE {})
    \union
    (IF n[2] = "configure" /\ n[1] \in Override THEN {<<n[1], "rsync">>} ELSE {})

OrderOnly(n) ==
    (IF n[2] \in DependsStep
       THEN {DependsOn(d, n[2]) : d \in Depends[n[1]][n[2]]} ELSE {})
    \union
    (IF n[2] = "configure" /\ n[1] \in Override THEN {<<n[1], "rsync">>} ELSE {})

\* Mutant: -rebuild only removes what -reinstall does.
RemovedNoBuild(o, p) ==
    LET rules == <<"rsync", "install", "staging", "target", "images", "host",
                   "build", "configure">>
        count == CASE o \in {"reinstall", "rebuild"} -> 6 [] o = "reconfigure" -> 8 [] OTHER -> 0
    IN  [i \in 1..count |-> <<p, rules[i]>>]

\* The stamps a command removes, in the order of its rules: clean-for-rebuild
\* goes on where clean-for-reinstall ends, clean-for-reconfigure where that
\* does.  rm -f of a stamp that is not there, as rsync's without an override
\* directory, does nothing.
Removed(o, p) ==
    LET rules == <<"rsync", "install", "staging", "target", "images", "host",
                   "build", "configure">>
        count == CASE o = "reinstall" -> 6 [] o = "rebuild" -> 7
                   [] o = "reconfigure" -> 8 [] OTHER -> 0
    IN  [i \in 1..count |-> <<p, rules[i]>>]

\* The prerequisites of every node, computed once.
normal == [n \in RealNode |-> Normal(n)]
prereq == [n \in RealNode |-> Normal(n) \union OrderOnly(n)]
removed == [o \in PkgOp \union {"all"} |-> [p \in Pkg |-> Removed(o, p)]]

\* What make was asked to update.  "all" stands for world: every package.
Goals == CASE op = "all"      -> {<<p, "install">> : p \in Pkg}
           [] op = "dirclean" -> {}
           [] OTHER           -> {<<arg, "install">>}

Complete == RealNode \subseteq stamp \ stale

-----------------------------------------------------------------------------
\* The command "all" has no package to name.
AnyPkg == CHOOSE p \in Pkg : TRUE

Init ==
    /\ op = "all" /\ arg = AnyPkg /\ outcome = "idle" /\ settled = FALSE
    /\ todo = <<>>
    /\ st = [n \in RealNode |-> "unseen"]
    /\ stamp = {} /\ stale = {} /\ produced = {} /\ outdated = {}
    /\ next = [p \in Pkg |-> 0] /\ hand = [p \in Pkg |-> FALSE]
    /\ listed = [p \in Pkg |-> 0] /\ applied = [p \in Pkg |-> 0]
    /\ torn = {}
    /\ makes = 0 /\ faults = 0

Jobs == op \in Parallel

Running == {n \in RealNode : st[n] = "running"}
Failed  == \E n \in RealNode : st[n] = "failed"

\* make starts on a job only while nothing failed, and without top-level
\* parallelism only when no other job runs, the removals included.
MayStart == outcome = "busy" /\ ~Failed /\ (Jobs \/ (Running = {} /\ todo = <<>>))

\* A user runs make.
Make(o, p) ==
    /\ outcome # "busy" /\ makes < MaxMakes
    /\ makes' = makes + 1
    /\ op' = o /\ arg' = p
    /\ outcome' = "busy"
    /\ todo' = removed[o][p]
    /\ st' = [n \in RealNode |-> "unseen"]
    /\ settled' = Complete
    /\ UNCHANGED <<disk, faults>>

\* rm -f $(<PKG>_TARGET_*), one line of the clean-for-* rules.
Remove ==
    /\ outcome = "busy" /\ ~Failed /\ todo # <<>>
    /\ todo' = Tail(todo)
    /\ stamp' = stamp \ {Head(todo)}
    /\ stale' = stale \ {Head(todo)}
    /\ UNCHANGED <<make, st, sources, torn, produced, outdated, faults>>

\* The targets make considered and is not done with.  Without parallelism they
\* are a path: make goes down one prerequisite at a time.
Open == {n \in RealNode : st[n] \notin {"unseen", "made", "kept"}}

\* make considers a target: a goal, or a prerequisite of one it considered.
Look(n) ==
    /\ st[n] = "unseen"
    /\ MayStart
    /\ \/ n \in Goals /\ (Jobs \/ Open = {})
       \/ \E m \in Open : n \in prereq[m] /\ (Jobs \/ prereq[m] \intersect Open = {})
    /\ st' = [st EXCEPT ![n] = IF n \notin stamp THEN "absent"
                               ELSE IF n \in stale THEN "stale" ELSE "fresh"]
    /\ UNCHANGED <<make, todo, disk, faults>>

Ready(n) == \A m \in prereq[n] : st[m] \in {"made", "kept"}
MadeBelow(n) == \E m \in normal[n] : st[m] = "made"

\* "Nothing to be done".
Keep(n) ==
    /\ st[n] = "fresh" /\ Ready(n) /\ ~MadeBelow(n)
    /\ outcome = "busy" /\ ~Failed
    /\ st' = [st EXCEPT ![n] = "kept"]
    /\ UNCHANGED <<make, todo, disk, faults>>

\* Mutant: the stamp is touched when the step begins.
StartTouches(n) ==
    /\ st[n] \in {"absent", "stale"} \/ (st[n] = "fresh" /\ MadeBelow(n))
    /\ Ready(n)
    /\ MayStart
    /\ st' = [st EXCEPT ![n] = "running"]
    /\ produced' = produced \ {n}
    /\ stamp' = stamp \union {n}
    /\ next' = [next EXCEPT ![n[1]] = IF n[2] = "patch" THEN 0 ELSE @]
    /\ hand' = [hand EXCEPT ![n[1]] = IF n[2] = "patch" THEN FALSE ELSE @]
    /\ stale' = stale \ {n}
    /\ UNCHANGED <<make, todo, listed, applied, torn, outdated, faults>>

\* The recipe of the step begins: what it produced before is being replaced.
Start(n) ==
    /\ st[n] \in {"absent", "stale"} \/ (st[n] = "fresh" /\ MadeBelow(n))
    /\ Ready(n)
    /\ MayStart
    /\ st' = [st EXCEPT ![n] = "running"]
    /\ produced' = produced \ {n}
    /\ next' = [next EXCEPT ![n[1]] = IF n[2] = "patch" THEN 0 ELSE @]
    /\ hand' = [hand EXCEPT ![n[1]] = IF n[2] = "patch" THEN FALSE ELSE @]
    /\ UNCHANGED <<make, todo, stamp, stale, listed, applied, torn, outdated, faults>>

Patching(p) == p \notin Override /\ st[<<p, "patch">>] = "running" /\ outcome = "busy"

\* Mutant: no check for a patch that is listed already.
ListPatchAgain(p) ==
    /\ Patching(p)
    /\ ~hand[p] /\ next[p] < NPatch[p]
    /\ listed' = [listed EXCEPT ![p] = next[p] + 1]
    /\ hand' = [hand EXCEPT ![p] = TRUE]
    /\ UNCHANGED <<make, todo, st, stamp, stale, next, applied, torn, produced, outdated, faults>>

\* apply-patches.sh takes the next patch: it first lists it ...
ListPatch(p) ==
    /\ Patching(p)
    /\ ~hand[p] /\ next[p] = listed[p] /\ next[p] < NPatch[p]
    /\ listed' = [listed EXCEPT ![p] = @ + 1]
    /\ hand' = [hand EXCEPT ![p] = TRUE]
    /\ UNCHANGED <<make, todo, st, stamp, stale, next, applied, torn, produced, outdated, faults>>

\* ... and then applies it.
ApplyPatch(p) ==
    /\ Patching(p)
    /\ hand[p]
    /\ applied' = [applied EXCEPT ![p] = @ + 1]
    /\ next' = [next EXCEPT ![p] = @ + 1]
    /\ hand' = [hand EXCEPT ![p] = FALSE]
    /\ UNCHANGED <<make, todo, st, stamp, stale, listed, torn, produced, outdated, faults>>

\* "duplicate filename": the patch was listed by an earlier, unfinished run.
Duplicate(p) ==
    /\ Patching(p)
    /\ ~hand[p] /\ next[p] < listed[p]
    /\ st' = [st EXCEPT ![<<p, "patch">>] = "failed"]
    /\ UNCHANGED <<make, todo, disk, faults>>

\* The recipe of the step is through, and touches the stamp.  Extracting again
\* puts unpatched files back.
Finish(n) ==
    /\ outcome = "busy" /\ st[n] = "running"
    /\ n[2] = "patch" => ~hand[n[1]] /\ next[n[1]] = NPatch[n[1]]
    /\ st' = [st EXCEPT ![n] = "made"]
    /\ stamp' = stamp \union {n}
    /\ stale' = (stale \ {n}) \union {m \in stamp \ {n} : n \in normal[m]}
    /\ produced' = produced \union {n}
    /\ outdated' = (outdated \ {n}) \union {m \in produced \ {n} : n \in normal[m]}
    /\ applied' = [applied EXCEPT ![n[1]] = IF n[2] = "extract" THEN 0 ELSE @]
    /\ UNCHANGED <<make, todo, next, hand, listed, torn, faults>>

\* A command of the recipe fails.
Fail(n) ==
    /\ outcome = "busy" /\ st[n] = "running" /\ faults < MaxFaults
    /\ faults' = faults + 1
    /\ st' = [st EXCEPT ![n] = "failed"]
    /\ UNCHANGED <<make, todo, disk>>

EndMake(how) ==
    /\ outcome' = how
    /\ UNCHANGED <<op, arg, settled, makes, todo, st>>

\* make waits for the jobs that still run, and gives up.
GiveUp ==
    /\ outcome = "busy" /\ Failed /\ Running = {}
    /\ EndMake("failed")
    /\ UNCHANGED <<disk, faults>>

Done ==
    /\ outcome = "busy" /\ ~Failed /\ op # "dirclean"
    /\ todo = <<>> /\ \A n \in Goals : st[n] \in {"made", "kept"}
    /\ EndMake("ok")
    /\ UNCHANGED <<disk, faults>>

\* Interrupted: the steps in progress stay half done, without a stamp.
Kill ==
    /\ outcome = "busy" /\ faults < MaxFaults
    /\ faults' = faults + 1
    /\ EndMake("killed")
    /\ UNCHANGED disk

NodesOf(p) == {n \in RealNode : n[1] = p}

Dircleaning == outcome = "busy" /\ op = "dirclean"

\* rm -Rf $(@D) unlinks the files of the build directory in some order.
Unlink ==
    /\ Dircleaning
    /\ torn' = torn \union {arg}
    /\ produced' = produced \ NodesOf(arg)
    /\ \/ \E n \in NodesOf(arg) \intersect stamp :
             stamp' = stamp \ {n} /\ stale' = stale \ {n} /\ UNCHANGED listed
       \/ /\ listed[arg] # 0
          /\ listed' = [listed EXCEPT ![arg] = 0]
          /\ UNCHANGED <<stamp, stale>>
    /\ UNCHANGED <<make, todo, st, next, hand, applied, outdated, faults>>

\* The directory is gone.
Dirclean ==
    /\ Dircleaning
    /\ NodesOf(arg) \intersect stamp = {} /\ listed[arg] = 0
    /\ torn' = torn \ {arg}
    /\ produced' = produced \ NodesOf(arg)
    /\ outdated' = outdated \ NodesOf(arg)
    /\ applied' = [applied EXCEPT ![arg] = 0]
    /\ EndMake("ok")
    /\ UNCHANGED <<stamp, stale, next, hand, listed, faults>>

Work ==
    \/ Remove \/ GiveUp \/ Done \/ Unlink \/ Dirclean
    \/ \E n \in RealNode : Look(n) \/ Keep(n) \/ Start(n) \/ Finish(n)
    \/ \E p \in Pkg : ListPatch(p) \/ ApplyPatch(p) \/ Duplicate(p)

Next ==
    \/ Work
    \/ \E o \in Ops, p \in Pkg : (o = "all" => p = AnyPkg) /\ Make(o, p)
    \/ \E n \in RealNode : Fail(n)
    \/ Kill

Spec == Init /\ [][Next]_vars

\* make and the commands of the recipes get on; no user has to run make, and
\* nothing has to fail.
FairSpec == Spec /\ WF_vars(Work)

-----------------------------------------------------------------------------
TypeOK ==
    /\ op \in PkgOp \union {"all"} /\ arg \in Pkg
    /\ outcome \in {"idle", "busy", "ok", "failed", "killed"}
    /\ todo \in Seq(Node)
    /\ st \in [RealNode -> {"unseen", "absent", "stale", "fresh", "running",
                             "made", "kept", "failed"}]
    /\ stamp \subseteq RealNode /\ stale \subseteq stamp
    /\ produced \subseteq RealNode /\ outdated \subseteq RealNode
    /\ next \in [Pkg -> Nat] /\ hand \in [Pkg -> BOOLEAN]
    /\ listed \in [Pkg -> Nat] /\ applied \in [Pkg -> Nat]
    /\ torn \subseteq Pkg
    /\ settled \in BOOLEAN
    /\ makes \in 0..MaxMakes /\ faults \in 0..MaxFaults

\* A stamp that make would trust stands for a step that is complete, and that
\* was completed from what the step before it produced last, wherever earlier
\* invocations failed or were killed: "stamp files keep track of which build
\* steps have been completed".  An unfinished dirclean is the exception.
StampsHonest ==
    \A n \in stamp \ stale : n[1] \notin torn => n \in produced \ outdated

\* While a step runs, the steps it continues and every step of the packages it
\* needs are complete: nothing is configured against a half-installed library,
\* nor unpacked with a half-installed tool.
Whole(p) == NodesOf(p) \subseteq (stamp \ stale) \intersect produced

DepsInstalledFirst ==
    outcome = "busy" =>
        \A n \in Running :
            /\ n[2] \in {"source", "extract", "configure"} =>
                   \A d \in Depends[n[1]][n[2]] \ torn : Whole(d)
            /\ n[2] = "patch" =>
                   \A d \in Depends[n[1]]["patch"] \ torn :
                       \E m \in {<<d, "patch">>, <<d, "rsync">>} : m \in stamp \intersect produced
            /\ n[1] \notin torn =>
                   \A s \in Follows[n[2]] \intersect StepsOf(n[1]) : <<n[1], s>> \in stamp \intersect produced

\* A source tree make believes patched has every patch exactly once, although
\* an interrupted patch step is started again on a half-patched tree.
PatchedOnce ==
    \A p \in Pkg \ torn :
        /\ applied[p] <= NPatch[p]
        /\ <<p, "patch">> \in stamp => applied[p] = NPatch[p]

\* A successful make leaves what it was asked for installed and up to date.
SuccessMeansInstalled ==
    outcome = "ok" =>
        /\ op = "all" => \A n \in RealNode : n[1] \notin torn => n \in (stamp \ stale) \intersect produced
        /\ op \notin {"all", "dirclean"} =>
               \A n \in NodesOf(arg) : arg \notin torn => n \in (stamp \ stale) \intersect produced

\* The steps a command is documented to run again (package-make-target.txt).
Documented(o, p) ==
    {n \in NodesOf(p) :
        \/ o \in {"reinstall", "rebuild", "reconfigure"} /\ n[2] \in InstallStep \union {"install"}
        \/ o \in {"rebuild", "reconfigure"} /\ n[2] = "build"
        \/ o = "reconfigure" /\ n[2] = "configure"}

\* "make <package>-rebuild will restart the compilation and installation of
\* the package"; reinstall and reconfigure likewise.  And what was asked for is
\* installed and up to date.
DoesWhatItSays ==
    /\ outcome = "ok" => \A n \in Documented(op, arg) : st[n] = "made"
    /\ SuccessMeansInstalled

\* The same, of a build that was complete.
RestartsWhenComplete == settled => DoesWhatItSays

\* ... and "only act on the said package", from the said step: in a complete
\* build they start no other step (but the rsync of a local source directory),
\* and a plain make starts nothing.
NothingElse ==
    [][settled /\ outcome = "busy" =>
          \A n \in RealNode :
              st[n] # "running" /\ st'[n] = "running" =>
                  \/ n \in Documented(op, arg)
                  \/ op \in PkgOp /\ n = <<arg, "rsync">>]_vars

\* Wherever an invocation stopped, the next make carries the build on to its
\* end, unless it stopped among the patches of a package or in a dirclean.
Resumable ==
    /\ torn = {}
    /\ \A p \in Pkg : listed[p] = 0 \/ <<p, "patch">> \in stamp

ResumesToTheEnd ==
    (outcome = "busy" /\ op = "all" /\ faults = MaxFaults /\ Resumable /\ ~Failed)
        ~> outcome = "ok"
=============================================================================
