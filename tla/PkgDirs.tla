------------------------------- MODULE PkgDirs -------------------------------
(***************************************************************************)
(* Where the files of packages go when BR2_PER_PACKAGE_DIRECTORIES is set: *)
(* each package has a directory of its own (its HOST_DIR and TARGET_DIR),  *)
(* which prepare-per-package-directory fills from the directories of its   *)
(* dependencies before it is configured, and in which it installs.  At the *)
(* end host-finalize and target-finalize merge all the directories.        *)
(*                                                                         *)
(* rsync -a --link-dest copies nothing: it makes hard links.  A directory  *)
(* therefore maps the names of files to inodes, and writing in place into  *)
(* a file (>>, patchelf) shows in every directory that links it, whereas   *)
(* install and sed -i put a new inode there.                               *)
(***************************************************************************)
EXTENDS Naturals

CONSTANTS
    Pkg,        \* the packages
    File,       \* the names of installed files
    MaxInode,   \* bound: how many inodes exist at a time
    NoFile,     \* there is no file of that name
    World,      \* who finalizes: the writer that is not a package
    Depends,    \* Depends[p]: <pkg>_FINAL_DEPENDENCIES
    Rdeps,      \* Rdeps[p]: p and <pkg>_FINAL_RECURSIVE_DEPENDENCIES
    Rank,       \* the order of $(sort) on the names of packages
    Provides,   \* Provides[p]: the files p installs
    Appends,    \* Appends[p]: the files p writes to in place
    Paths,      \* the text files that name the per-package directory
    Edits,      \* the files the finalization writes to in place: stripped,
                \* given another rpath, or written by its hooks with > and >>
    MaxCommands \* bound: how many <pkg>-rebuild and the like are given

Inode == 1..MaxInode

ASSUME PkgAssumption ==
    /\ MaxInode \in Nat /\ MaxCommands \in Nat
    /\ NoFile \notin Inode
    /\ World \notin Pkg
    /\ Depends \in [Pkg -> SUBSET Pkg]
    /\ Rank \in [Pkg -> Nat]
    /\ Provides \in [Pkg -> SUBSET File]
    /\ Appends \in [Pkg -> SUBSET File]
    /\ Paths \subseteq File /\ Edits \subseteq File

\* Rdeps is closed, as the recursion of FINAL_RECURSIVE_DEPENDENCIES makes it.
ASSUME RdepsAssumption ==
    /\ Rdeps \in [Pkg -> SUBSET Pkg]
    /\ \A p \in Pkg : p \in Rdeps[p] /\ \A d \in Depends[p] : Rdeps[d] \subseteq Rdeps[p]

\* And it holds nothing else: the variable is expanded recursively, which make
\* refuses when there is a cycle.  (A dependency for the download or extract
\* step only counts as one of Depends.)
ASSUME RecursionAssumption ==
    /\ \A p \in Pkg : \A q \in Rdeps[p] \ {p} : \E d \in Depends[p] : q \in Rdeps[d]
    /\ \A p \in Pkg : \A q \in Rdeps[p] : Rdeps[q] \subseteq Rdeps[p]
    /\ \A p \in Pkg : \A d \in Depends[p] : p \notin Rdeps[d]

VARIABLES
    stage,      \* how far each package is
    copied,     \* the dependencies its directory was filled from
    wrote,      \* the files it has installed or written to
    dir,        \* dir[p][f]: the inode of file f in the directory of p
    target,     \* the same for the merged directory
    data,       \* what each inode holds
    rev,        \* which build of each package is the latest
    commands,   \* how many commands were given
    merged,     \* the packages merged so far
    final,      \* "no", "merging" or "yes": the merged directory is complete
    behind      \* ghost: packages whose directory was filled before one of
                \* their recursive dependencies was installed last

vars == <<stage, copied, wrote, dir, target, data, rev, commands, merged, final, behind>>

\* What an inode holds: who installed the file, in which build, the package
\* whose directory its paths name, and everybody who wrote into it.
Datum == [from : Pkg \union {World}, rev : Nat, root : Pkg \union {World}, by : SUBSET (Pkg \union {World})]
Blank == [from |-> World, rev |-> 0, root |-> World, by |-> {}]

Empty == [f \in File |-> NoFile]

Init ==
    /\ stage = [p \in Pkg |-> "none"]
    /\ copied = [p \in Pkg |-> {}]
    /\ wrote = [p \in Pkg |-> {}]
    /\ dir = [p \in Pkg |-> Empty]
    /\ target = Empty
    /\ data = [i \in Inode |-> Blank]
    /\ rev = [p \in Pkg |-> 1] /\ commands = 0
    /\ merged = {} /\ final = "no"
    /\ behind = {}

Unused(i) == \A f \in File : target[f] # i /\ \A p \in Pkg : dir[p][f] # i
Fresh(i) == Unused(i) /\ \A j \in Inode : Unused(j) => i <= j

\* rsync -a --link-dest=src src/ dst: every file of src replaces that of dst.
Link(src, dst) == [f \in File |-> IF src[f] # NoFile THEN src[f] ELSE dst[f]]

\* Of a set of packages, the one $(sort) puts first.
First(p, set) == p \in set /\ \A q \in set : Rank[p] <= Rank[q]

-----------------------------------------------------------------------------
\* The build of one package.

\* make starts a step once the dependencies, and theirs, are installed.
DepsInstalled(p) == \A d \in Rdeps[p] \ {p} : stage[d] = "installed"

Begin(p) ==
    /\ stage[p] = "none" /\ final = "no"
    /\ DepsInstalled(p)
    /\ stage' = [stage EXCEPT ![p] = "prepare"]
    /\ copied' = [copied EXCEPT ![p] = {}]
    /\ UNCHANGED <<wrote, dir, target, data, rev, commands, merged, final, behind>>

\* prepare-per-package-directory, for one dependency.
Prepare(p, d) ==
    /\ stage[p] = "prepare"
    /\ First(d, Depends[p] \ copied[p])
    /\ dir' = [dir EXCEPT ![p] = Link(dir[d], dir[p])]
    /\ copied' = [copied EXCEPT ![p] = @ \union {d}]
    /\ UNCHANGED <<stage, wrote, target, data, rev, commands, merged, final, behind>>

Foreign(p) == {f \in Paths : dir[p][f] # NoFile /\ data[dir[p][f]].root # p}

\* Mutant: the file is edited in place.
FixupInPlace(p, f, i) ==
    /\ stage[p] = "prepare" /\ Depends[p] \subseteq copied[p]
    /\ f \in Foreign(p)
    /\ Fresh(i)
    /\ data' = [data EXCEPT ![dir[p][f]].root = p, ![dir[p][f]].by = @ \union {p}]
    /\ UNCHANGED <<stage, copied, wrote, dir, target, rev, commands, merged, final, behind>>

\* PPD_FIXUP_PATHS: sed -i on a file that names another package's directory.
Fixup(p, f, i) ==
    /\ stage[p] = "prepare" /\ Depends[p] \subseteq copied[p]
    /\ f \in Foreign(p)
    /\ Fresh(i)
    /\ data' = [data EXCEPT ![i] = [data[dir[p][f]] EXCEPT !.root = p, !.by = @ \union {p}]]
    /\ dir' = [dir EXCEPT ![p][f] = i]
    /\ UNCHANGED <<stage, copied, wrote, target, rev, commands, merged, final, behind>>

\* The package is configured and built.
Configure(p) ==
    /\ stage[p] = "prepare" /\ Depends[p] \subseteq copied[p]
    /\ Foreign(p) = {}
    /\ stage' = [stage EXCEPT ![p] = "configured"]
    /\ wrote' = [wrote EXCEPT ![p] = {}]
    /\ behind' = IF (Rdeps[p] \ {p}) \intersect behind = {} THEN behind \ {p} ELSE behind
    /\ UNCHANGED <<copied, dir, target, data, rev, commands, merged, final>>

\* A file is created in the directory of the package, as a new inode.
Create(p, f, i) ==
    /\ Fresh(i)
    /\ data' = [data EXCEPT ![i] = [from |-> p, rev |-> rev[p], root |-> p, by |-> {p}]]
    /\ dir' = [dir EXCEPT ![p][f] = i]

Writes(p, f) ==
    /\ stage[p] = "configured" /\ f \notin wrote[p] /\ DepsInstalled(p)
    /\ wrote' = [wrote EXCEPT ![p] = @ \union {f}]
    /\ UNCHANGED <<stage, copied, target, rev, commands, merged, final, behind>>

\* install: the file is unlinked and created.
Install(p, f, i) ==
    /\ f \in Provides[p]
    /\ Writes(p, f)
    /\ Create(p, f, i)

\* echo ... >> $(TARGET_DIR)/etc/fstab of libselinux, cp: in place.
Append(p, f, i) ==
    /\ f \in Appends[p] \ Provides[p]
    /\ Writes(p, f)
    /\ IF dir[p][f] = NoFile
         THEN Create(p, f, i)
         ELSE /\ data' = [data EXCEPT ![dir[p][f]].by = @ \union {p}]
              /\ dir' = dir

\* The stamp of the package is touched.  Who depends on it is now behind.
Installed(p) ==
    /\ stage[p] = "configured"
    /\ Provides[p] \union Appends[p] \subseteq wrote[p] /\ DepsInstalled(p)
    /\ stage' = [stage EXCEPT ![p] = "installed"]
    /\ behind' = behind \union {q \in Pkg \ {p} : p \in Rdeps[q]}
    /\ UNCHANGED <<copied, wrote, dir, target, data, rev, commands, merged, final>>

\* No step of any package is under way.
Quiet == \A p \in Pkg : stage[p] \in {"none", "installed"}

\* make is killed.  The next one starts the unfinished steps again.
Interrupt ==
    /\ ~Quiet \/ final = "merging"
    /\ stage' = [p \in Pkg |-> IF stage[p] = "prepare" THEN "none" ELSE stage[p]]
    /\ wrote' = [p \in Pkg |-> IF stage[p] = "configured" THEN {} ELSE wrote[p]]
    /\ final' = "no"
    /\ UNCHANGED <<copied, dir, target, data, rev, commands, merged, behind>>

-----------------------------------------------------------------------------
\* Commands.  Each is an invocation of make of its own, between builds.

Command(p) ==
    /\ Quiet /\ final # "merging"
    /\ stage[p] = "installed" /\ commands < MaxCommands
    /\ rev' = [rev EXCEPT ![p] = @ + 1] /\ commands' = commands + 1
    /\ final' = "no"

\* <pkg>-rebuild: the step that fills the directory is not run again.
Rebuild(p) ==
    /\ Command(p)
    /\ stage' = [stage EXCEPT ![p] = "configured"]
    /\ wrote' = [wrote EXCEPT ![p] = {}]
    /\ UNCHANGED <<copied, dir, target, data, merged, behind>>

\* <pkg>-reconfigure: the directory is filled again, over what it holds.
Reconfigure(p) ==
    /\ Command(p)
    /\ stage' = [stage EXCEPT ![p] = "none"]
    /\ UNCHANGED <<copied, wrote, dir, target, data, merged, behind>>

\* <pkg>-dirclean removes the directory.
Dirclean(p) ==
    /\ Command(p)
    /\ stage' = [stage EXCEPT ![p] = "none"]
    /\ dir' = [dir EXCEPT ![p] = Empty]
    /\ UNCHANGED <<copied, wrote, target, data, merged, behind>>

-----------------------------------------------------------------------------
\* make: once all packages are installed, their directories are merged.

BeginFinalize ==
    /\ final = "no" /\ \A p \in Pkg : stage[p] = "installed"
    /\ final' = "merging" /\ merged' = {}
    /\ UNCHANGED <<stage, copied, wrote, dir, target, data, rev, commands, behind>>

\* Mutant: a file that is there already is left alone.
MergeNew(p) ==
    /\ final = "merging" /\ First(p, Pkg \ merged)
    /\ target' = Link(target, dir[p])
    /\ merged' = merged \union {p}
    /\ UNCHANGED <<stage, copied, wrote, dir, data, rev, commands, final, behind>>

\* per-package-rsync of host-finalize and target-finalize, for one package.
Merge(p) ==
    /\ final = "merging" /\ First(p, Pkg \ merged)
    /\ target' = Link(dir[p], target)
    /\ merged' = merged \union {p}
    /\ UNCHANGED <<stage, copied, wrote, dir, data, rev, commands, final, behind>>

\* The rest of target-finalize: hooks, strip and fix-rpath write to files in
\* place.  It may get to some of them only, when a command fails.
Finalize ==
    /\ final = "merging" /\ merged = Pkg
    /\ \E done \in SUBSET Edits :
         /\ final' = IF done = Edits THEN "yes" ELSE "merging"
         /\ data' = [i \in Inode |->
                       IF \E f \in done : target[f] = i
                         THEN [data[i] EXCEPT !.by = @ \union {World}] ELSE data[i]]
    /\ UNCHANGED <<stage, copied, wrote, dir, target, rev, commands, merged, behind>>

Build(p) ==
    \/ Begin(p) \/ Configure(p) \/ Installed(p)
    \/ \E d \in Pkg : Prepare(p, d)
    \/ \E f \in File, i \in Inode : Fixup(p, f, i) \/ Install(p, f, i) \/ Append(p, f, i)

Next ==
    \/ \E p \in Pkg : Build(p) \/ Rebuild(p) \/ Reconfigure(p) \/ Dirclean(p) \/ Merge(p)
    \/ BeginFinalize \/ Finalize \/ Interrupt

Spec == Init /\ [][Next]_vars

-----------------------------------------------------------------------------
TypeOK ==
    /\ stage \in [Pkg -> {"none", "prepare", "configured", "installed"}]
    /\ copied \in [Pkg -> SUBSET Pkg] /\ \A p \in Pkg : copied[p] \subseteq Depends[p]
    /\ wrote \in [Pkg -> SUBSET File] /\ \A p \in Pkg : wrote[p] \subseteq Provides[p] \union Appends[p]
    /\ dir \in [Pkg -> [File -> Inode \union {NoFile}]]
    /\ target \in [File -> Inode \union {NoFile}]
    /\ data \in [Inode -> Datum]
    /\ rev \in [Pkg -> Nat]
    /\ commands \in Nat
    /\ merged \subseteq Pkg
    /\ final \in {"no", "merging", "yes"}
    /\ behind \subseteq Pkg

\* "a given package only sees the dependencies it has explicitly expressed":
\* whatever was built by chance before, and in whatever order, the directory
\* of a package only holds files of the package and its dependencies.
Isolation ==
    \A p \in Pkg, f \in File :
        dir[p][f] # NoFile => \E q \in Rdeps[p] : f \in Provides[q] \union Appends[q]

\* Who writes in place into an inode of f that other directories share: the
\* packages that do so to a file which was not fixed up for them, and the
\* finalization.
InPlaceWriters(f) ==
    {q \in Pkg : f \in Appends[q] \ (Provides[q] \union Paths)}
        \union (IF f \in Edits THEN {World} ELSE {})

\* The same of what the files hold: only the package and its dependencies
\* wrote into what it sees.  The hard links make an exception of those who
\* write in place to that very file, before or after the package took it, and
\* of nobody else; fixing up paths is none, as sed -i makes a new inode, and
\* neither is a package that writes in place to a file fixed up for it.
WrittenByDepsOnly ==
    \A p \in Pkg, f \in File :
        dir[p][f] # NoFile => data[dir[p][f]].by \subseteq Rdeps[p] \union InPlaceWriters(f)

\* Paths in the files of a package, those it took from its dependencies
\* included, name its own directory, from its configuration on.
OwnPaths ==
    \A p \in Pkg :
        stage[p] \in {"configured", "installed"} =>
            \A f \in Paths : dir[p][f] # NoFile => data[dir[p][f]].root = p

\* An inode holds the latest build of a file of package p.
Newest(i, p) == i # NoFile /\ data[i].from = p /\ data[i].rev = rev[p]

\* The image holds the latest build of every package, provided every package
\* was prepared after its dependencies were installed last.
Latest == \A p \in Pkg : \A f \in Provides[p] : Newest(target[f], p)

ImageUpToDate == final = "yes" /\ behind = {} => Latest

-----------------------------------------------------------------------------
(***************************************************************************)
(* The inductive invariant behind ImageUpToDate.  It needs every file to   *)
(* be installed by one package only, and whoever writes into it as well to *)
(* depend on that package.                                                 *)
(***************************************************************************)
OneOwner ==
    \A p, q \in Pkg : \A f \in Provides[p] : /\ f \in Provides[q] => q = p
                                             /\ f \in Appends[q] => p \in Rdeps[q]

\* While a directory is filled, nothing it is filled from changes.
Ready == \A q \in Pkg : stage[q] = "prepare" => DepsInstalled(q)

\* Whoever depends on a package that is behind is behind.
UpClosed == \A d \in behind, q \in Pkg : d \in Rdeps[q] => q \in behind

\* A package has its own files,
OwnFiles ==
    \A p \in Pkg : \A f \in Provides[p] :
        stage[p] = "installed" \/ (stage[p] = "configured" /\ f \in wrote[p]) => Newest(dir[p][f], p)

\* those of its dependencies, if it is not behind,
Current ==
    \A q \in Pkg : \A p \in Rdeps[q] \ {q} : \A f \in Provides[p] :
        q \notin behind /\ stage[q] \in {"configured", "installed"} /\ stage[p] = "installed"
            => Newest(dir[q][f], p)

\* and while its directory is filled those it was filled with.
Filled ==
    \A q \in Pkg : \A d \in copied[q] : \A p \in Rdeps[d] : \A f \in Provides[p] :
        stage[q] = "prepare" /\ (Rdeps[q] \ {q}) \intersect behind = {} => Newest(dir[q][f], p)

\* The image holds the files of the packages that were merged.
ImageFilled ==
    /\ final # "no" => \A p \in Pkg : stage[p] = "installed"
    /\ final = "yes" => merged = Pkg
    /\ final # "no" /\ behind = {} => \A p \in merged : \A f \in Provides[p] : Newest(target[f], p)

ImageInv == Ready /\ UpClosed /\ OwnFiles /\ Current /\ Filled /\ ImageFilled
=============================================================================
