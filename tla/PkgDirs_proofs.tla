--------------------------- MODULE PkgDirs_proofs ---------------------------
(***************************************************************************)
(* Proofs about per-package directories, for any packages, dependencies,   *)
(* files, order of names and bounds.                                       *)
(***************************************************************************)
EXTENDS PkgDirs, TLAPS

USE PkgAssumption, RdepsAssumption

\* What rsync leaves in a directory: inodes of either side.
LEMMA LinkType ==
    ASSUME NEW src \in [File -> Inode \union {NoFile}], NEW dst \in [File -> Inode \union {NoFile}]
    PROVE  /\ Link(src, dst) \in [File -> Inode \union {NoFile}]
           /\ \A f \in File : (Link(src, dst)[f] = src[f] /\ src[f] # NoFile) \/ Link(src, dst)[f] = dst[f]
BY DEF Link

\* Writing the first bytes of an inode nobody uses changes no file.
LEMMA FreshUnused ==
    ASSUME NEW i \in Inode, Fresh(i), NEW p \in Pkg, NEW f \in File
    PROVE  dir[p][f] # i
BY DEF Fresh, Unused

\* A datum to which a writer is added is one.
LEMMA DatumType ==
    ASSUME NEW e \in Datum, NEW q \in Pkg \union {World}
    PROVE  /\ [e EXCEPT !.by = @ \union {q}] \in Datum
           /\ [e EXCEPT !.root = q, !.by = @ \union {q}] \in Datum
BY DEF Datum

-----------------------------------------------------------------------------
\* Types: kept by the steps of a package.
LEMMA TypeBuild == ASSUME TypeOK, NEW p \in Pkg, Build(p) PROVE TypeOK'
<1> USE DEF TypeOK
<1>1. CASE Begin(p) BY <1>1 DEF Begin
<1>2. CASE Configure(p) BY <1>2 DEF Configure
<1>3. CASE Installed(p) BY <1>3 DEF Installed
<1>4. ASSUME NEW d \in Pkg, Prepare(p, d) PROVE TypeOK'
  <2>1. Link(dir[d], dir[p]) \in [File -> Inode \union {NoFile}]
    BY LinkType
  <2> QED BY <1>4, <2>1 DEF Prepare, First
<1>5. ASSUME NEW f \in File, NEW i \in Inode, Fixup(p, f, i) PROVE TypeOK'
  <2>1. dir[p][f] \in Inode
    BY <1>5 DEF Fixup, Foreign
  <2>2. [data[dir[p][f]] EXCEPT !.root = p, !.by = @ \union {p}] \in Datum
    BY <2>1, DatumType
  <2>3. data' \in [Inode -> Datum]
    BY <1>5, <2>2 DEF Fixup
  <2> QED BY <1>5, <2>3 DEF Fixup
<1>6. ASSUME NEW f \in File, NEW i \in Inode, Install(p, f, i) PROVE TypeOK'
  BY <1>6 DEF Install, Create, Writes, Datum
<1>7. ASSUME NEW f \in File, NEW i \in Inode, Append(p, f, i) PROVE TypeOK'
  <2>1. CASE dir[p][f] = NoFile
    <3>1. Create(p, f, i) /\ Writes(p, f) /\ f \in Appends[p]
      BY <1>7, <2>1 DEF Append
    <3> QED BY <3>1 DEF Create, Writes, Datum
  <2>2. CASE dir[p][f] # NoFile
    <3>1. dir[p][f] \in Inode
      BY <2>2
    <3>2. data' = [data EXCEPT ![dir[p][f]].by = @ \union {p}] /\ dir' = dir
      BY <1>7, <2>2 DEF Append
    <3>3. [data[dir[p][f]] EXCEPT !.by = @ \union {p}] \in Datum
      BY <3>1, DatumType
    <3>4. data' \in [Inode -> Datum]
      BY <3>1, <3>2, <3>3
    <3> QED BY <1>7, <3>2, <3>4 DEF Append, Writes
  <2> QED BY <2>1, <2>2
<1> QED BY <1>1, <1>2, <1>3, <1>4, <1>5, <1>6, <1>7 DEF Build

\* Types: kept by every step.
LEMMA TypeStep == ASSUME TypeOK, [Next]_vars PROVE TypeOK'
<1> USE DEF TypeOK
<1>1. ASSUME NEW p \in Pkg, Build(p) PROVE TypeOK'
  BY <1>1, TypeBuild
<1>2. ASSUME NEW p \in Pkg, Rebuild(p) PROVE TypeOK'
  BY <1>2 DEF Rebuild, Command
<1>3. ASSUME NEW p \in Pkg, Reconfigure(p) PROVE TypeOK'
  BY <1>3 DEF Reconfigure, Command
<1>4. ASSUME NEW p \in Pkg, Dirclean(p) PROVE TypeOK'
  BY <1>4 DEF Dirclean, Command, Empty
<1>5. ASSUME NEW p \in Pkg, Merge(p) PROVE TypeOK'
  <2>1. Link(dir[p], target) \in [File -> Inode \union {NoFile}]
    BY LinkType
  <2> QED BY <1>5, <2>1 DEF Merge, First
<1>6. CASE BeginFinalize BY <1>6 DEF BeginFinalize
<1>7. CASE Finalize
  <2>1. \A i \in Inode : [data[i] EXCEPT !.by = @ \union {World}] \in Datum
    BY DatumType
  <2>2. PICK done \in SUBSET Edits :
          data' = [i \in Inode |-> IF \E f \in done : target[f] = i
                                     THEN [data[i] EXCEPT !.by = @ \union {World}] ELSE data[i]]
    BY <1>7 DEF Finalize
  <2>3. data' \in [Inode -> Datum] BY <2>1, <2>2
  <2> QED BY <1>7, <2>3 DEF Finalize
<1>8. CASE Interrupt BY <1>8 DEF Interrupt
<1>9. CASE UNCHANGED vars BY <1>9 DEF vars
<1> QED BY <1>1, <1>2, <1>3, <1>4, <1>5, <1>6, <1>7, <1>8, <1>9 DEF Next

\* Every variable has its type; a package only copies its dependencies and
\* only writes what it provides or appends to.
THEOREM TypeCorrect == Spec => []TypeOK
<1>1. Init => TypeOK
  BY DEF Init, TypeOK, Datum, Blank, Empty
<1>2. TypeOK /\ [Next]_vars => TypeOK'
  BY TypeStep
<1> QED BY <1>1, <1>2, PTL DEF Spec

-----------------------------------------------------------------------------
\* A file that p installs, or creates where there is none to write into.
New(p, f, i) ==
    /\ Writes(p, f) /\ Create(p, f, i)
    /\ f \in Provides[p] \/ (f \in Appends[p] \ Provides[p] /\ dir[p][f] = NoFile)

\* A file that p writes into in place.
InPlace(p, f) ==
    /\ Writes(p, f) /\ f \in Appends[p] \ Provides[p] /\ dir[p][f] # NoFile
    /\ data' = [data EXCEPT ![dir[p][f]].by = @ \union {p}] /\ dir' = dir

LEMMA Steps ==
    ASSUME [Next]_vars
    PROVE  \/ \E p \in Pkg : Begin(p) \/ Configure(p) \/ Installed(p)
           \/ \E p \in Pkg, d \in Pkg : Prepare(p, d)
           \/ \E p \in Pkg, f \in File, i \in Inode : Fixup(p, f, i) \/ New(p, f, i)
           \/ \E p \in Pkg, f \in File : InPlace(p, f)
           \/ \E p \in Pkg : Rebuild(p) \/ Reconfigure(p) \/ Dirclean(p)
           \/ \E p \in Pkg : Merge(p)
           \/ BeginFinalize \/ Finalize \/ Interrupt \/ UNCHANGED vars
<1>1. ASSUME NEW p \in Pkg, NEW f \in File, NEW i \in Inode, Install(p, f, i) PROVE New(p, f, i)
  BY <1>1 DEF Install, New
<1>2. ASSUME NEW p \in Pkg, NEW f \in File, NEW i \in Inode, Append(p, f, i) PROVE New(p, f, i) \/ InPlace(p, f)
  BY <1>2 DEF Append, New, InPlace
<1> QED BY <1>1, <1>2 DEF Next, Build

\* What Prepare leaves: each file is that of the dependency or as before.
LEMMA PrepareDirs ==
    ASSUME TypeOK, NEW p \in Pkg, NEW d \in Pkg, Prepare(p, d)
    PROVE  /\ Rdeps[d] \subseteq Rdeps[p]
           /\ \A f \in File : (dir'[p][f] = dir[d][f] /\ dir[d][f] # NoFile) \/ dir'[p][f] = dir[p][f]
           /\ \A q \in Pkg \ {p} : dir'[q] = dir[q]
           /\ data' = data
<1>1. /\ d \in Depends[p] /\ data' = data
      /\ dir' = [dir EXCEPT ![p] = Link(dir[d], dir[p])]
  BY DEF Prepare, First
<1>2. dir[d] \in [File -> Inode \union {NoFile}] /\ dir[p] \in [File -> Inode \union {NoFile}]
  BY DEF TypeOK
<1>3. dir'[p] = Link(dir[d], dir[p]) /\ \A q \in Pkg \ {p} : dir'[q] = dir[q]
  BY <1>1 DEF TypeOK
<1>4. \A f \in File : (dir'[p][f] = dir[d][f] /\ dir[d][f] # NoFile) \/ dir'[p][f] = dir[p][f]
  BY <1>2, <1>3, LinkType
<1> QED BY <1>1, <1>3, <1>4

-----------------------------------------------------------------------------
(***************************************************************************)
(* Isolation is inductive: what a package takes over from a dependency was *)
(* put there by a recursive dependency of the dependency, which is one of  *)
(* the package too.                                                        *)
(***************************************************************************)
\* A directory that changes only in what p itself puts there stays isolated.
LEMMA IsolationKept ==
    ASSUME TypeOK, Isolation, NEW p \in Pkg, NEW f \in File, NEW i \in Inode,
           f \in Provides[p] \union Appends[p] \/ dir[p][f] # NoFile,
           dir' = [dir EXCEPT ![p][f] = i]
    PROVE  Isolation'
<1> SUFFICES ASSUME NEW q \in Pkg, NEW g \in File, dir'[q][g] # NoFile
             PROVE  \E r \in Rdeps[q] : g \in Provides[r] \union Appends[r]
  BY DEF Isolation
<1>1. CASE dir'[q][g] = dir[q][g] BY <1>1 DEF Isolation
<1>2. CASE q = p /\ g = f BY <1>2 DEF Isolation
<1> QED BY <1>1, <1>2 DEF TypeOK

\* Every step keeps the directories isolated.
LEMMA IsolationStep == ASSUME TypeOK, Isolation, [Next]_vars PROVE Isolation'
<1>1. ASSUME NEW p \in Pkg, NEW d \in Pkg, Prepare(p, d) PROVE Isolation'
  <2> SUFFICES ASSUME NEW q \in Pkg, NEW g \in File, dir'[q][g] # NoFile
               PROVE  \E r \in Rdeps[q] : g \in Provides[r] \union Appends[r]
    BY DEF Isolation
  <2>5. CASE dir'[q][g] = dir[q][g] BY <2>5 DEF Isolation
  <2>6. CASE q = p /\ dir[d][g] # NoFile BY <1>1, PrepareDirs, <2>6 DEF Isolation
  <2> QED BY <1>1, PrepareDirs, <2>5, <2>6
<1>2. ASSUME NEW p \in Pkg, NEW f \in File, NEW i \in Inode, Fixup(p, f, i) PROVE Isolation'
  BY <1>2, IsolationKept DEF Fixup, Foreign
<1>3. ASSUME NEW p \in Pkg, NEW f \in File, NEW i \in Inode, Install(p, f, i) PROVE Isolation'
  BY <1>3, IsolationKept DEF Install, Create
<1>4. ASSUME NEW p \in Pkg, NEW f \in File, NEW i \in Inode, Append(p, f, i) PROVE Isolation'
  <2>1. CASE dir[p][f] = NoFile
    BY <1>4, <2>1, IsolationKept DEF Append, Create
  <2>2. CASE dir[p][f] # NoFile
    BY <1>4, <2>2 DEF Append, Isolation
  <2> QED BY <2>1, <2>2
<1>5. ASSUME NEW p \in Pkg, Dirclean(p) PROVE Isolation'
  BY <1>5 DEF Dirclean, Empty, Isolation, TypeOK
<1>6. CASE UNCHANGED dir BY <1>6 DEF Isolation
<1> QED BY <1>1, <1>2, <1>3, <1>4, <1>5, <1>6
        DEF Next, Build, Begin, Configure, Installed, Rebuild, Reconfigure, Merge,
            BeginFinalize, Finalize, Interrupt, vars

\* A package only sees files of its recursive dependencies, whatever else
\* was built before, whatever commands were given and however make ended.
THEOREM Isolated == Spec => []Isolation
<1>1. Init => Isolation
  BY DEF Init, Isolation, Empty
<1>2. TypeOK /\ Isolation /\ [Next]_vars => Isolation'
  BY IsolationStep
<1> QED BY <1>1, <1>2, TypeCorrect, PTL DEF Spec

-----------------------------------------------------------------------------
(***************************************************************************)
(* OwnPaths is inductive: an inode in use is only ever written to in       *)
(* place, which leaves the paths in it alone.                              *)
(***************************************************************************)
\* The paths in the inodes that are in use do not change.
RootsKept == \A p \in Pkg, f \in File : dir[p][f] # NoFile => data'[dir[p][f]].root = data[dir[p][f]].root

\* A step that writes a fresh inode, with paths of p, in the directory of p.
LEMMA FreshRoots ==
    ASSUME TypeOK, OwnPaths, NEW p \in Pkg, NEW f \in File, NEW i \in Inode, NEW e,
           Fresh(i), e.root = p, stage' = stage,
           data' = [data EXCEPT ![i] = e], dir' = [dir EXCEPT ![p][f] = i]
    PROVE  OwnPaths'
<1> SUFFICES ASSUME NEW q \in Pkg, stage[q] \in {"configured", "installed"},
                    NEW g \in Paths, dir'[q][g] # NoFile
             PROVE  data'[dir'[q][g]].root = q
  BY DEF OwnPaths
<1>1. CASE q = p /\ g = f BY <1>1 DEF TypeOK
<1>2. CASE dir'[q][g] = dir[q][g]
  <2>1. dir[q][g] # i BY FreshUnused
  <2>2. data'[dir[q][g]] = data[dir[q][g]] BY <1>2, <2>1 DEF TypeOK
  <2> QED BY <1>2, <2>2 DEF OwnPaths
<1> QED BY <1>1, <1>2 DEF TypeOK

\* A step that keeps the directories and adds a writer to inodes.
LEMMA SameRoots ==
    ASSUME TypeOK, OwnPaths, dir' = dir, RootsKept,
           \A p \in Pkg : stage'[p] \in {"configured", "installed"} =>
                             stage[p] \in {"configured", "installed"}
    PROVE  OwnPaths'
BY DEF OwnPaths, RootsKept

\* Every step keeps the paths own.
LEMMA OwnPathsStep == ASSUME TypeOK, OwnPaths, [Next]_vars PROVE OwnPaths'
<1> USE DEF TypeOK
<1>1. ASSUME NEW p \in Pkg, NEW d \in Pkg, Prepare(p, d) PROVE OwnPaths'
  BY <1>1 DEF Prepare, OwnPaths
<1>2. ASSUME NEW p \in Pkg, NEW f \in File, NEW i \in Inode, Fixup(p, f, i) PROVE OwnPaths'
  <2>1. dir[p][f] \in Inode BY <1>2 DEF Fixup, Foreign
  <2> DEFINE e == [data[dir[p][f]] EXCEPT !.root = p, !.by = @ \union {p}]
  <2>2. e.root = p BY <2>1 DEF Datum
  <2> HIDE DEF e
  <2>3. data' = [data EXCEPT ![i] = e] BY <1>2 DEF Fixup, e
  <2> QED BY <1>2, <2>2, <2>3, FreshRoots DEF Fixup
<1>3. ASSUME NEW p \in Pkg, NEW f \in File, NEW i \in Inode, Writes(p, f), Create(p, f, i) PROVE OwnPaths'
  <2> DEFINE e == [from |-> p, rev |-> rev[p], root |-> p, by |-> {p}]
  <2>1. e.root = p OBVIOUS
  <2> HIDE DEF e
  <2>2. data' = [data EXCEPT ![i] = e] BY <1>3 DEF Create, e
  <2> QED BY <1>3, <2>1, <2>2, FreshRoots DEF Create, Writes
<1>4. ASSUME NEW p \in Pkg, NEW f \in File, NEW i \in Inode, Append(p, f, i), dir[p][f] # NoFile PROVE OwnPaths'
  <2>1. data' = [data EXCEPT ![dir[p][f]].by = @ \union {p}] /\ dir' = dir /\ stage' = stage
    BY <1>4 DEF Append, Writes
  <2>2. \A j \in Inode : data'[j].root = data[j].root
    BY <2>1 DEF Datum
  <2>3. RootsKept BY <2>2 DEF RootsKept
  <2> QED BY <2>1, <2>3, SameRoots
<1>5. CASE Finalize
  <2>1. \A j \in Inode : data'[j].root = data[j].root
    BY <1>5 DEF Finalize, Datum
  <2>2. RootsKept BY <2>1 DEF RootsKept
  <2> QED BY <1>5, <2>2, SameRoots DEF Finalize
<1>6. ASSUME NEW p \in Pkg, Configure(p) PROVE OwnPaths'
  BY <1>6 DEF Configure, Foreign, OwnPaths
<1>7. ASSUME NEW p \in Pkg, Begin(p) \/ Installed(p) \/ Rebuild(p) \/ Reconfigure(p) \/ Merge(p) PROVE OwnPaths'
  <2>1. dir' = dir /\ data' = data
    BY <1>7 DEF Begin, Installed, Rebuild, Reconfigure, Merge
  <2>2. \A q \in Pkg : stage'[q] \in {"configured", "installed"} => stage[q] \in {"configured", "installed"}
    <3>1. CASE Begin(p) BY <3>1 DEF Begin
    <3>2. CASE Installed(p) BY <3>2 DEF Installed
    <3>3. CASE Rebuild(p) BY <3>3 DEF Rebuild, Command
    <3>4. CASE Reconfigure(p) BY <3>4 DEF Reconfigure
    <3>5. CASE Merge(p) BY <3>5 DEF Merge
    <3> QED BY <1>7, <3>1, <3>2, <3>3, <3>4, <3>5
  <2> QED BY <2>1, <2>2, SameRoots DEF RootsKept
<1>8. ASSUME NEW p \in Pkg, Dirclean(p) PROVE OwnPaths'
  BY <1>8 DEF Dirclean, Empty, OwnPaths
<1>9. CASE BeginFinalize \/ Interrupt \/ UNCHANGED vars
  BY <1>9 DEF BeginFinalize, Interrupt, vars, OwnPaths
<1>10. ASSUME NEW p \in Pkg, NEW f \in File, NEW i \in Inode, Install(p, f, i) \/ Append(p, f, i) PROVE OwnPaths'
  BY <1>10, <1>3, <1>4 DEF Install, Append
<1> QED BY <1>1, <1>2, <1>5, <1>6, <1>7, <1>8, <1>9, <1>10 DEF Next, Build

\* From its configuration on, the paths in the files a package sees name the
\* package's own directory, whatever is done to others in between.
THEOREM PathsOwned == Spec => []OwnPaths
<1>1. Init => OwnPaths
  BY DEF Init, OwnPaths
<1>2. TypeOK /\ OwnPaths /\ [Next]_vars => OwnPaths'
  BY OwnPathsStep
<1> QED BY <1>1, <1>2, TypeCorrect, PTL DEF Spec
-----------------------------------------------------------------------------
(***************************************************************************)
(* Nobody but its recursive dependencies wrote into a file a package sees, *)
(* except who writes in place into a file of that name without having been *)
(* given an inode of its own.  Two facts carry it: an inode only ever has  *)
(* one name, so what is written in place to a file shows nowhere but in    *)
(* files of that name; and a file that was fixed up for a package has an   *)
(* inode of the package, to be linked by its dependents only.              *)
(***************************************************************************)
\* Inode i is file f of some directory.
Holds(i, f) == target[f] = i \/ \E p \in Pkg : dir[p][f] = i

\* No inode has two names.
OneName == \A i \in Inode : \A f, g \in File : Holds(i, f) /\ Holds(i, g) => f = g

\* A step that only links, removes or rewrites files keeps the names.
LEMMA LinksKeepNames ==
    ASSUME OneName, \A i \in Inode, f \in File : Holds(i, f)' => Holds(i, f)
    PROVE  OneName'
BY DEF OneName

\* A fresh inode gets the one name it is created under.
LEMMA FreshName ==
    ASSUME TypeOK, OneName, NEW p \in Pkg, NEW f \in File, NEW i \in Inode, Fresh(i),
           target' = target, dir' = [dir EXCEPT ![p][f] = i]
    PROVE  OneName'
<1>1. ASSUME NEW j \in Inode, NEW g \in File, Holds(j, g)' PROVE Holds(j, g) \/ (j = i /\ g = f)
  <2>1. CASE target'[g] = j BY <2>1 DEF Holds
  <2>2. ASSUME NEW q \in Pkg, dir'[q][g] = j PROVE Holds(j, g) \/ (j = i /\ g = f)
    <3>1. CASE q = p /\ g = f BY <2>2, <3>1 DEF TypeOK
    <3>2. CASE ~(q = p /\ g = f)
      <4>1. dir'[q][g] = dir[q][g] BY <3>2 DEF TypeOK
      <4> QED BY <2>2, <4>1 DEF Holds
    <3> QED BY <3>1, <3>2
  <2> QED BY <1>1, <2>1, <2>2 DEF Holds
<1>2. ASSUME NEW g \in File PROVE ~Holds(i, g)
  BY <1>2 DEF Fresh, Unused, Holds
<1> QED BY <1>1, <1>2 DEF OneName

\* Every step keeps one name for an inode.
LEMMA NameStep == ASSUME TypeOK, OneName, [Next]_vars PROVE OneName'
<1>1. ASSUME NEW p \in Pkg, NEW d \in Pkg, Prepare(p, d) PROVE OneName'
  <2>1. target' = target BY <1>1 DEF Prepare
  <2>2. ASSUME NEW i \in Inode, NEW f \in File, Holds(i, f)' PROVE Holds(i, f)
    <3>1. CASE target'[f] = i BY <2>1, <3>1 DEF Holds
    <3>2. ASSUME NEW q \in Pkg, dir'[q][f] = i PROVE Holds(i, f)
      <4>1. dir'[q][f] = dir[q][f] \/ dir'[q][f] = dir[d][f] BY <1>1, PrepareDirs
      <4> QED BY <3>2, <4>1 DEF Holds
    <3> QED BY <2>2, <3>1, <3>2 DEF Holds
  <2> QED BY <2>2, LinksKeepNames
<1>2. ASSUME NEW p \in Pkg, NEW f \in File, NEW i \in Inode, Fixup(p, f, i) PROVE OneName'
  BY <1>2, FreshName DEF Fixup
<1>3. ASSUME NEW p \in Pkg, NEW f \in File, NEW i \in Inode, New(p, f, i) PROVE OneName'
  BY <1>3, FreshName DEF New, Create, Writes
<1>4. ASSUME NEW p \in Pkg, Merge(p) PROVE OneName'
  <2>1. dir' = dir /\ target' = Link(dir[p], target)
    BY <1>4 DEF Merge
  <2>2. dir[p] \in [File -> Inode \union {NoFile}] /\ target \in [File -> Inode \union {NoFile}]
    BY DEF TypeOK
  <2>3. \A f \in File : target'[f] = dir[p][f] \/ target'[f] = target[f]
    BY <2>1, <2>2, LinkType
  <2>4. ASSUME NEW i \in Inode, NEW f \in File, Holds(i, f)' PROVE Holds(i, f)
    BY <2>1, <2>3, <2>4 DEF Holds
  <2> QED BY <2>4, LinksKeepNames
<1>5. ASSUME NEW p \in Pkg, Dirclean(p) PROVE OneName'
  <2>1. ASSUME NEW i \in Inode, NEW f \in File, Holds(i, f)' PROVE Holds(i, f)
    BY <1>5, <2>1 DEF Dirclean, Empty, Holds, TypeOK
  <2> QED BY <2>1, LinksKeepNames
<1>6. CASE UNCHANGED <<dir, target>>
  BY <1>6 DEF OneName, Holds
<1> QED BY <1>1, <1>2, <1>3, <1>4, <1>5, <1>6, Steps
        DEF Begin, Configure, Installed, InPlace, Writes, Rebuild, Reconfigure, Command,
            BeginFinalize, Finalize, Interrupt, vars

\* The paths in a file name the directory of a recursive dependency.
RootsOfDeps ==
    \A p \in Pkg, f \in File : dir[p][f] # NoFile => data[dir[p][f]].root \in Rdeps[p]

Writers(p, f) == Rdeps[p] \union InPlaceWriters(f)

WritersInv == WrittenByDepsOnly /\ RootsOfDeps

\* WritersInv of one file.
OwnWriters(p, f) == data[dir[p][f]].by \subseteq Writers(p, f) /\ data[dir[p][f]].root \in Rdeps[p]

LEMMA WritersOf == WritersInv <=> \A p \in Pkg, f \in File : dir[p][f] # NoFile => OwnWriters(p, f)
BY DEF WritersInv, WrittenByDepsOnly, RootsOfDeps, OwnWriters, Writers

LEMMA WritersOfNext ==
    ASSUME \A p \in Pkg, f \in File : dir'[p][f] # NoFile =>
              data'[dir'[p][f]].by \subseteq Writers(p, f) /\ data'[dir'[p][f]].root \in Rdeps[p]
    PROVE  WritersInv'
BY DEF WritersInv, WrittenByDepsOnly, RootsOfDeps, Writers, InPlaceWriters

\* A step that writes a fresh inode in the directory of p.
LEMMA FreshWriters ==
    ASSUME TypeOK, WritersInv, NEW p \in Pkg, NEW f \in File, NEW i \in Inode, NEW e,
           Fresh(i), e.by \subseteq Writers(p, f), e.root = p,
           data' = [data EXCEPT ![i] = e], dir' = [dir EXCEPT ![p][f] = i]
    PROVE  WritersInv'
<1> SUFFICES ASSUME NEW q \in Pkg, NEW g \in File, dir'[q][g] # NoFile
             PROVE  data'[dir'[q][g]].by \subseteq Writers(q, g) /\ data'[dir'[q][g]].root \in Rdeps[q]
  BY WritersOfNext
<1>1. CASE q = p /\ g = f BY <1>1 DEF TypeOK
<1>2. CASE dir'[q][g] = dir[q][g]
  <2>1. dir[q][g] # i BY FreshUnused
  <2>2. data'[dir[q][g]] = data[dir[q][g]] BY <1>2, <2>1 DEF TypeOK
  <2> QED BY <1>2, <2>2, WritersOf DEF OwnWriters
<1> QED BY <1>1, <1>2 DEF TypeOK

\* A step that adds a writer to inodes: who is added to that of a file may be.
LEMMA AddedWriters ==
    ASSUME TypeOK, WritersInv, dir' = dir, NEW w,
           \A j \in Inode : data'[j].root = data[j].root /\ data'[j].by \subseteq data[j].by \union {w},
           \A q \in Pkg, g \in File :
               dir[q][g] # NoFile /\ data'[dir[q][g]].by # data[dir[q][g]].by => w \in Writers(q, g)
    PROVE  WritersInv'
<1> SUFFICES ASSUME NEW q \in Pkg, NEW g \in File, dir[q][g] # NoFile
             PROVE  data'[dir[q][g]].by \subseteq Writers(q, g) /\ data'[dir[q][g]].root \in Rdeps[q]
  BY WritersOfNext
<1>1. data[dir[q][g]].by \subseteq Writers(q, g) /\ data[dir[q][g]].root \in Rdeps[q]
  BY WritersOf DEF OwnWriters
<1>2. dir[q][g] \in Inode BY DEF TypeOK
<1> QED BY <1>1, <1>2

\* Every step keeps foreign writers out.
LEMMA WritersStep ==
    ASSUME TypeOK, OwnPaths, OneName, WritersInv, [Next]_vars
    PROVE  WritersInv'
<1> USE DEF TypeOK
<1>1. ASSUME NEW p \in Pkg, NEW d \in Pkg, Prepare(p, d) PROVE WritersInv'
  <2> SUFFICES ASSUME NEW q \in Pkg, NEW g \in File, dir'[q][g] # NoFile
               PROVE  data[dir'[q][g]].by \subseteq Writers(q, g) /\ data[dir'[q][g]].root \in Rdeps[q]
    BY <1>1, PrepareDirs, WritersOfNext
  <2>5. CASE dir'[q][g] = dir[q][g]
    BY <2>5, WritersOf DEF OwnWriters
  <2>6. CASE q = p /\ dir'[p][g] = dir[d][g] /\ dir[d][g] # NoFile
    <3>1. OwnWriters(d, g) BY <2>6, WritersOf
    <3>2. Rdeps[d] \subseteq Rdeps[p] BY <1>1, PrepareDirs
    <3> QED BY <2>6, <3>1, <3>2 DEF OwnWriters, Writers
  <2> QED BY <1>1, PrepareDirs, <2>5, <2>6
<1>2. ASSUME NEW p \in Pkg, NEW f \in File, NEW i \in Inode, Fixup(p, f, i) PROVE WritersInv'
  <2>1. dir[p][f] \in Inode /\ dir[p][f] # NoFile BY <1>2 DEF Fixup, Foreign
  <2> DEFINE e == [data[dir[p][f]] EXCEPT !.root = p, !.by = @ \union {p}]
  <2>2. e.by = data[dir[p][f]].by \union {p} /\ e.root = p BY <2>1 DEF Datum
  <2>3. data[dir[p][f]].by \subseteq Writers(p, f)
    BY <2>1, WritersOf DEF OwnWriters
  <2>4. e.by \subseteq Writers(p, f) BY <2>2, <2>3 DEF Writers
  <2>5. data' = [data EXCEPT ![i] = e] BY <1>2 DEF Fixup
  <2> HIDE DEF e
  <2> QED BY <1>2, <2>2, <2>4, <2>5, FreshWriters DEF Fixup
<1>3. ASSUME NEW p \in Pkg, NEW f \in File, NEW i \in Inode, New(p, f, i) PROVE WritersInv'
  <2> DEFINE e == [from |-> p, rev |-> rev[p], root |-> p, by |-> {p}]
  <2>1. e.by \subseteq Writers(p, f) /\ e.root = p BY DEF Writers
  <2>2. data' = [data EXCEPT ![i] = e] BY <1>3 DEF New, Create
  <2> HIDE DEF e
  <2> QED BY <1>3, <2>1, <2>2, FreshWriters DEF New, Create
<1>4. ASSUME NEW p \in Pkg, NEW f \in File, InPlace(p, f) PROVE WritersInv'
  <2>1. /\ dir' = dir /\ dir[p][f] \in Inode
        /\ data' = [data EXCEPT ![dir[p][f]].by = @ \union {p}]
    BY <1>4 DEF InPlace
  <2>2. \A j \in Inode : data'[j].root = data[j].root /\ data'[j].by \subseteq data[j].by \union {p}
    BY <2>1 DEF Datum
  <2>3. ASSUME NEW q \in Pkg, NEW g \in File, dir[q][g] # NoFile,
               data'[dir[q][g]].by # data[dir[q][g]].by
        PROVE  p \in Writers(q, g)
    <3>1. dir[q][g] = dir[p][f] BY <2>1, <2>3
    <3>2. CASE f \in Paths
      <4>1. data[dir[p][f]].root = p
        BY <1>4, <3>2 DEF InPlace, Writes, OwnPaths
      <4>2. data[dir[q][g]].root \in Rdeps[q]
        BY <2>3, WritersOf DEF OwnWriters
      <4> QED BY <3>1, <4>1, <4>2 DEF Writers
    <3>3. CASE f \notin Paths
      <4>1. Holds(dir[p][f], f) /\ Holds(dir[p][f], g)
        BY <3>1 DEF Holds
      <4>2. g = f BY <2>1, <4>1 DEF OneName
      <4> QED BY <1>4, <3>3, <4>2 DEF InPlace, Writers, InPlaceWriters
    <3> QED BY <3>2, <3>3
  <2> QED BY <2>1, <2>2, <2>3, AddedWriters
<1>5. CASE Finalize
  <2>1. PICK done \in SUBSET Edits :
          data' = [i \in Inode |-> IF \E f \in done : target[f] = i
                                     THEN [data[i] EXCEPT !.by = @ \union {World}] ELSE data[i]]
    BY <1>5 DEF Finalize
  <2>2. dir' = dir BY <1>5 DEF Finalize
  <2>3. \A j \in Inode : data'[j].root = data[j].root /\ data'[j].by \subseteq data[j].by \union {World}
    BY <2>1 DEF Datum
  <2>4. ASSUME NEW q \in Pkg, NEW g \in File, dir[q][g] # NoFile,
               data'[dir[q][g]].by # data[dir[q][g]].by
        PROVE  World \in Writers(q, g)
    <3>1. dir[q][g] \in Inode BY <2>4
    <3>2. PICK f \in done : target[f] = dir[q][g] BY <2>1, <2>4, <3>1
    <3>3. f \in File /\ f \in Edits BY <3>2
    <3>4. Holds(dir[q][g], f) /\ Holds(dir[q][g], g) BY <3>2 DEF Holds
    <3>5. g = f BY <3>1, <3>3, <3>4 DEF OneName
    <3> QED BY <3>3, <3>5 DEF Writers, InPlaceWriters
  <2> QED BY <2>2, <2>3, <2>4, AddedWriters
<1>6. ASSUME NEW p \in Pkg, Dirclean(p) PROVE WritersInv'
  <2> SUFFICES ASSUME NEW q \in Pkg, NEW g \in File, dir'[q][g] # NoFile
               PROVE  data'[dir'[q][g]].by \subseteq Writers(q, g) /\ data'[dir'[q][g]].root \in Rdeps[q]
    BY WritersOfNext
  <2>1. dir'[q][g] = dir[q][g] /\ data' = data BY <1>6 DEF Dirclean, Empty
  <2> QED BY <2>1, WritersOf DEF OwnWriters
<1>7. CASE UNCHANGED <<dir, data>>
  BY <1>7 DEF WritersInv, WrittenByDepsOnly, RootsOfDeps, InPlaceWriters
<1> QED BY <1>1, <1>2, <1>3, <1>4, <1>5, <1>6, <1>7, Steps
        DEF Begin, Configure, Installed, Rebuild, Reconfigure, Merge, BeginFinalize, Interrupt, vars

\* What a package sees was written by nobody but the package, its recursive
\* dependencies and those who write in place to a file of that name: packages
\* for which it was not fixed up, and the finalization.
THEOREM SharedUnspoilt == Spec => []WrittenByDepsOnly
<1>1. Init => OneName /\ WritersInv
  BY DEF Init, OneName, Holds, WritersInv, WrittenByDepsOnly, RootsOfDeps, Empty
<1>2. TypeOK /\ OwnPaths /\ OneName /\ WritersInv /\ [Next]_vars => OneName' /\ WritersInv'
  BY NameStep, WritersStep
<1>3. WritersInv => WrittenByDepsOnly
  BY DEF WritersInv
<1> QED BY <1>1, <1>2, <1>3, TypeCorrect, PathsOwned, PTL DEF Spec

-----------------------------------------------------------------------------
(***************************************************************************)
(* The image is up to date.  The files of a package travel from its own    *)
(* directory to those that are filled from it and on to the image: one     *)
(* part of ImageInv for each place, and the order of the builds (Ready,    *)
(* UpClosed) for the reason why none is passed on before it is current.    *)
(***************************************************************************)
\* What is recorded of an inode in use does not change, but for its writers and
\* its paths.
SameOrigin ==
    \A i \in Inode : ~Unused(i) => data'[i].from = data[i].from /\ data'[i].rev = data[i].rev

LEMMA FreshOrigin ==
    ASSUME TypeOK, NEW i \in Inode, NEW e, Fresh(i), data' = [data EXCEPT ![i] = e]
    PROVE  SameOrigin
BY DEF TypeOK, Fresh, SameOrigin

LEMMA OriginStep == ASSUME TypeOK, [Next]_vars PROVE SameOrigin
<1>1. ASSUME NEW p \in Pkg, NEW f \in File, NEW i \in Inode, Fixup(p, f, i) PROVE SameOrigin
  BY <1>1, FreshOrigin DEF Fixup
<1>2. ASSUME NEW p \in Pkg, NEW f \in File, NEW i \in Inode, New(p, f, i) PROVE SameOrigin
  BY <1>2, FreshOrigin DEF New, Create
<1>3. ASSUME NEW p \in Pkg, NEW f \in File, InPlace(p, f) PROVE SameOrigin
  <2>1. data' = [data EXCEPT ![dir[p][f]].by = @ \union {p}] /\ dir[p][f] \in Inode
    BY <1>3 DEF InPlace, TypeOK
  <2>2. \A j \in Inode : data'[j].from = data[j].from /\ data'[j].rev = data[j].rev
    BY <2>1 DEF TypeOK, Datum
  <2> QED BY <2>2 DEF SameOrigin
<1>4. CASE Finalize
  BY <1>4 DEF Finalize, TypeOK, Datum, SameOrigin
<1>5. CASE UNCHANGED data BY <1>5 DEF SameOrigin
<1> QED BY <1>1, <1>2, <1>3, <1>4, <1>5, Steps
        DEF Begin, Configure, Installed, Prepare, Rebuild, Reconfigure, Dirclean, Merge,
            BeginFinalize, Interrupt, vars

\* An inode in use that holds the latest build still does, unless a build of the
\* package is asked for.
LEMMA StillNewest ==
    ASSUME TypeOK, SameOrigin, NEW i, NEW p \in Pkg, Newest(i, p), rev'[p] = rev[p],
           NEW f \in File, i = target[f] \/ \E q \in Pkg : i = dir[q][f]
    PROVE  Newest(i, p)'
<1>1. i \in Inode /\ ~Unused(i)
  BY DEF Newest, TypeOK, Unused
<1> QED BY <1>1 DEF SameOrigin, Newest

\* Who has a file that p installs depends on p.
LEMMA HasFile ==
    ASSUME OneOwner, Isolation, NEW p \in Pkg, NEW f \in File, f \in Provides[p],
           NEW q \in Pkg, dir[q][f] # NoFile
    PROVE  p \in Rdeps[q]
<1>1. PICK r \in Rdeps[q] : f \in Provides[r] \union Appends[r]
  BY DEF Isolation
<1>2. p \in Rdeps[r]
  BY <1>1 DEF OneOwner
<1> QED BY <1>1, <1>2, RecursionAssumption

\* A package whose own files and those of its dependencies are current.
LEMMA UpToDate ==
    ASSUME OwnFiles, Current, NEW q \in Pkg, NEW p \in Rdeps[q], NEW f \in Provides[p],
           stage[q] = "installed", stage[p] = "installed", q \notin behind
    PROVE  Newest(dir[q][f], p)
<1>1. CASE p = q BY <1>1 DEF OwnFiles
<1>2. CASE p # q BY <1>2 DEF Current
<1> QED BY <1>1, <1>2

-----------------------------------------------------------------------------
LEMMA ReadyStep == ASSUME TypeOK, Ready, [Next]_vars PROVE Ready'
<1> SUFFICES ASSUME NEW q \in Pkg, stage'[q] = "prepare", NEW d \in Rdeps[q] \ {q}
             PROVE  stage'[d] = "installed"
  BY DEF Ready, DepsInstalled
<1> USE DEF TypeOK, Ready, DepsInstalled
<1>1. ASSUME NEW p \in Pkg, Begin(p) PROVE stage'[d] = "installed" BY <1>1 DEF Begin
<1>2. ASSUME NEW p \in Pkg, Configure(p) PROVE stage'[d] = "installed" BY <1>2 DEF Configure
<1>3. ASSUME NEW p \in Pkg, Installed(p) PROVE stage'[d] = "installed" BY <1>3 DEF Installed
<1>4. ASSUME NEW p \in Pkg, Rebuild(p) \/ Reconfigure(p) \/ Dirclean(p) PROVE stage'[d] = "installed"
  <2>1. Command(p) /\ stage'[q] = "prepare" => stage[q] = "prepare"
    <3>1. CASE Rebuild(p) BY <3>1 DEF Rebuild
    <3>2. CASE Reconfigure(p) BY <3>2 DEF Reconfigure
    <3>3. CASE Dirclean(p) BY <3>3 DEF Dirclean
    <3> QED BY <1>4, <3>1, <3>2, <3>3
  <2>2. Quiet
    BY <1>4 DEF Rebuild, Reconfigure, Dirclean, Command
  <2> QED BY <1>4, <2>1, <2>2 DEF Rebuild, Reconfigure, Dirclean, Quiet
<1>5. CASE Interrupt BY <1>5 DEF Interrupt
<1>6. CASE UNCHANGED stage BY <1>6
<1> QED BY <1>1, <1>2, <1>3, <1>4, <1>5, <1>6, Steps
        DEF Prepare, Fixup, New, InPlace, Writes, Merge, BeginFinalize, Finalize, vars

LEMMA UpClosedStep == ASSUME TypeOK, UpClosed, [Next]_vars PROVE UpClosed'
<1> SUFFICES ASSUME NEW d \in behind', NEW q \in Pkg, d \in Rdeps[q]
             PROVE  q \in behind'
  BY DEF UpClosed
<1>0. d \in Pkg
  BY RdepsAssumption
<1>1. ASSUME NEW p \in Pkg, Configure(p) PROVE q \in behind'
  <2>1. d \in behind /\ q \in behind
    BY <1>1 DEF Configure, UpClosed
  <2> QED BY <1>1, <2>1 DEF Configure
<1>2. ASSUME NEW p \in Pkg, Installed(p) PROVE q \in behind'
  <2>1. behind' = behind \union {r \in Pkg \ {p} : p \in Rdeps[r]}
    BY <1>2 DEF Installed
  <2>2. CASE d \in behind BY <2>1, <2>2 DEF UpClosed
  <2>3. CASE d # p /\ p \in Rdeps[d]
    <3>1. p \in Rdeps[q]
      BY <1>0, <2>3, RecursionAssumption
    <3>2. q # p
      <4>1. ASSUME q = p PROVE FALSE
        <5>1. PICK e \in Depends[p] : d \in Rdeps[e]
          BY <2>3, <4>1, RecursionAssumption
        <5>2. p \in Rdeps[e]
          BY <1>0, <2>3, <5>1, RecursionAssumption
        <5> QED BY <5>2, RecursionAssumption
      <4> QED BY <4>1
    <3> QED BY <2>1, <3>1, <3>2
  <2> QED BY <1>0, <2>1, <2>2, <2>3
<1>3. CASE UNCHANGED behind BY <1>3 DEF UpClosed
<1> QED BY <1>1, <1>2, <1>3, Steps
        DEF Begin, Prepare, Fixup, New, InPlace, Writes, Rebuild, Reconfigure, Dirclean,
            Merge, BeginFinalize, Finalize, Interrupt, vars

\* A file that stays where it is.
LEMMA Carried ==
    ASSUME TypeOK, SameOrigin, NEW q \in Pkg, NEW p \in Pkg, NEW f \in File,
           Newest(dir[q][f], p), rev'[p] = rev[p], dir'[q][f] = dir[q][f]
    PROVE  Newest(dir[q][f], p)'
<1>1. Newest(dir[q][f], p)' <=> dir[q][f] # NoFile /\ data'[dir[q][f]].from = p /\ data'[dir[q][f]].rev = rev'[p]
  BY DEF Newest
<1>2. dir[q][f] \in Inode /\ ~Unused(dir[q][f])
  BY DEF Newest, TypeOK, Unused
<1> QED BY <1>1, <1>2 DEF SameOrigin, Newest

\* What a step changes in the directories: only that of the package it is of.
LEMMA OneDir ==
    ASSUME TypeOK, NEW r \in Pkg,
           \/ \E d \in Pkg : Prepare(r, d)
           \/ \E f \in File, i \in Inode : Fixup(r, f, i) \/ New(r, f, i)
    PROVE  /\ \A q \in Pkg \ {r} : dir'[q] = dir[q] /\ wrote'[q] = wrote[q]
           /\ UNCHANGED <<stage, rev, behind>>
<1>1. ASSUME NEW d \in Pkg, Prepare(r, d)
      PROVE  /\ \A q \in Pkg \ {r} : dir'[q] = dir[q] /\ wrote'[q] = wrote[q]
             /\ UNCHANGED <<stage, rev, behind>>
  BY <1>1 DEF Prepare, TypeOK
<1>2. ASSUME NEW f \in File, NEW i \in Inode, Fixup(r, f, i)
      PROVE  /\ \A q \in Pkg \ {r} : dir'[q] = dir[q] /\ wrote'[q] = wrote[q]
             /\ UNCHANGED <<stage, rev, behind>>
  BY <1>2 DEF Fixup, TypeOK
<1>3. ASSUME NEW f \in File, NEW i \in Inode, New(r, f, i)
      PROVE  /\ \A q \in Pkg \ {r} : dir'[q] = dir[q] /\ wrote'[q] = wrote[q]
             /\ UNCHANGED <<stage, rev, behind>>
  BY <1>3 DEF New, Writes, Create, TypeOK
<1> QED BY <1>1, <1>2, <1>3

LEMMA OwnFilesStep == ASSUME OneOwner, TypeOK, OwnFiles, [Next]_vars PROVE OwnFiles'
<1> SUFFICES ASSUME NEW p \in Pkg, NEW f \in Provides[p],
                    stage'[p] = "installed" \/ (stage'[p] = "configured" /\ f \in wrote'[p])
             PROVE  Newest(dir[p][f], p)'
  BY DEF OwnFiles
<1> DEFINE Has == stage[p] = "installed" \/ (stage[p] = "configured" /\ f \in wrote[p])
<1>0. SameOrigin /\ f \in File
  BY OriginStep
<1>1. ASSUME Has, rev'[p] = rev[p], dir'[p][f] = dir[p][f] PROVE Newest(dir[p][f], p)'
  BY <1>0, <1>1, Carried DEF OwnFiles
<1> USE DEF TypeOK
<1>2. ASSUME NEW r \in Pkg, Begin(r) \/ Configure(r) \/ Installed(r) PROVE Newest(dir[p][f], p)'
  <2>1. UNCHANGED <<dir, rev>>
    BY <1>2 DEF Begin, Configure, Installed
  <2>2. CASE Begin(r) BY <1>1, <2>1, <2>2 DEF Begin
  <2>3. CASE Configure(r) BY <1>1, <2>1, <2>3 DEF Configure
  <2>4. CASE Installed(r) BY <1>1, <2>1, <2>4 DEF Installed
  <2> QED BY <1>2, <2>2, <2>3, <2>4
<1>3. ASSUME NEW r \in Pkg, NEW d \in Pkg, Prepare(r, d) PROVE Newest(dir[p][f], p)'
  <2>1. r # p
    BY <1>3 DEF Prepare
  <2>2. dir'[p] = dir[p] /\ wrote'[p] = wrote[p] /\ UNCHANGED <<stage, rev>>
    BY <1>3, <2>1, OneDir
  <2> QED BY <1>1, <2>2
<1>4. ASSUME NEW r \in Pkg, NEW g \in File, NEW i \in Inode, Fixup(r, g, i) PROVE Newest(dir[p][f], p)'
  <2>1. r # p
    BY <1>4 DEF Fixup
  <2>2. dir'[p] = dir[p] /\ wrote'[p] = wrote[p] /\ UNCHANGED <<stage, rev>>
    BY <1>4, <2>1, OneDir
  <2> QED BY <1>1, <2>2
<1>5. ASSUME NEW r \in Pkg, NEW g \in File, NEW i \in Inode, New(r, g, i) PROVE Newest(dir[p][f], p)'
  <2>1. CASE r = p /\ g = f
    <3>1. dir'[p][f] = i /\ data'[i].from = p /\ data'[i].rev = rev[p] /\ rev' = rev
      BY <1>5, <2>1 DEF New, Writes, Create
    <3> QED BY <3>1 DEF Newest
  <2>2. CASE r = p /\ g # f
    <3>1. dir'[p][f] = dir[p][f] /\ rev' = rev /\ Has
      BY <1>5, <2>2 DEF New, Writes, Create
    <3> QED BY <1>1, <3>1
  <2>3. CASE r # p
    <3>1. dir'[p] = dir[p] /\ wrote'[p] = wrote[p] /\ UNCHANGED <<stage, rev>>
      BY <1>5, <2>3, OneDir
    <3> QED BY <1>1, <3>1
  <2> QED BY <2>1, <2>2, <2>3
<1>6. ASSUME NEW r \in Pkg, NEW g \in File, InPlace(r, g) PROVE Newest(dir[p][f], p)'
  BY <1>1, <1>6 DEF InPlace, Writes
<1>7. ASSUME NEW r \in Pkg, Rebuild(r) \/ Reconfigure(r) \/ Dirclean(r) PROVE Newest(dir[p][f], p)'
  <2>1. CASE r = p BY <1>7, <2>1 DEF Rebuild, Reconfigure, Dirclean, Command
  <2>2. CASE r # p
    <3>1. rev'[p] = rev[p] /\ dir'[p] = dir[p]
      BY <1>7, <2>2 DEF Rebuild, Reconfigure, Dirclean, Command
    <3>2. stage'[p] = stage[p] /\ wrote'[p] = wrote[p]
      BY <1>7, <2>2 DEF Rebuild, Reconfigure, Dirclean
    <3> QED BY <1>1, <3>1, <3>2
  <2> QED BY <2>1, <2>2
<1>8. CASE Interrupt BY <1>1, <1>8 DEF Interrupt
<1>9. CASE UNCHANGED <<stage, wrote, rev, dir>> BY <1>1, <1>9
<1> QED BY <1>2, <1>3, <1>4, <1>5, <1>6, <1>7, <1>8, <1>9, Steps
        DEF Merge, BeginFinalize, Finalize, vars

LEMMA CurrentStep ==
    ASSUME OneOwner, TypeOK, UpClosed, Current, Filled, [Next]_vars PROVE Current'
<1> SUFFICES ASSUME NEW q \in Pkg, NEW p \in Rdeps[q] \ {q}, NEW f \in Provides[p],
                    q \notin behind', stage'[q] \in {"configured", "installed"}, stage'[p] = "installed"
             PROVE  Newest(dir[q][f], p)'
  BY DEF Current
<1> DEFINE Has == q \notin behind /\ stage[q] \in {"configured", "installed"} /\ stage[p] = "installed"
<1>0. SameOrigin /\ f \in File /\ p \in Pkg /\ p # q
  BY OriginStep
<1>1. ASSUME Has PROVE Newest(dir[q][f], p)
  BY <1>1 DEF Current
<1>2. ASSUME Has, rev'[p] = rev[p], dir'[q][f] = dir[q][f] PROVE Newest(dir[q][f], p)'
  BY <1>0, <1>1, <1>2, Carried
<1> USE DEF TypeOK
<1>3. ASSUME NEW r \in Pkg, Begin(r) PROVE Newest(dir[q][f], p)'
  BY <1>2, <1>3 DEF Begin
<1>4. ASSUME NEW r \in Pkg, Configure(r) PROVE Newest(dir[q][f], p)'
  <2>1. UNCHANGED <<dir, rev>>
    BY <1>4 DEF Configure
  <2>2. CASE r # q
    <3>1. q \notin behind /\ stage[q] = stage'[q] /\ stage[p] = "installed"
      BY <1>0, <1>4, <2>2 DEF Configure
    <3> QED BY <1>2, <2>1, <3>1
  <2>3. CASE r = q
    <3>1. (Rdeps[q] \ {q}) \intersect behind = {}
      <4>1. CASE behind' = behind BY <4>1 DEF UpClosed
      <4>2. CASE behind' # behind BY <1>4, <2>3, <4>2 DEF Configure
      <4> QED BY <4>1, <4>2
    <3>2. PICK d \in Depends[q] : p \in Rdeps[d]
      BY RecursionAssumption
    <3>3. d \in copied[q] /\ stage[q] = "prepare"
      BY <1>4, <2>3, <3>2 DEF Configure
    <3>4. Newest(dir[q][f], p)
      BY <3>1, <3>2, <3>3 DEF Filled
    <3> QED BY <1>0, <2>1, <3>4, Carried
  <2> QED BY <2>2, <2>3
<1>5. ASSUME NEW r \in Pkg, Installed(r) PROVE Newest(dir[q][f], p)'
  <2>1. r # p /\ q \notin behind
    BY <1>0, <1>5 DEF Installed
  <2>2. stage[q] \in {"configured", "installed"} /\ stage[p] = "installed"
    BY <1>0, <1>5, <2>1 DEF Installed
  <2> QED BY <1>2, <1>5, <2>1, <2>2 DEF Installed
<1>6. ASSUME NEW r \in Pkg, NEW d \in Pkg, Prepare(r, d) PROVE Newest(dir[q][f], p)'
  <2>1. r # q
    BY <1>6 DEF Prepare
  <2> QED BY <1>2, <1>6, <2>1, OneDir
<1>7. ASSUME NEW r \in Pkg, NEW g \in File, NEW i \in Inode, Fixup(r, g, i) PROVE Newest(dir[q][f], p)'
  <2>1. r # q
    BY <1>7 DEF Fixup
  <2> QED BY <1>2, <1>7, <2>1, OneDir
<1>8. ASSUME NEW r \in Pkg, NEW g \in File, NEW i \in Inode, New(r, g, i) PROVE Newest(dir[q][f], p)'
  <2>0. Has
    BY <1>8, OneDir
  <2>1. ~(r = q /\ g = f)
    <3>1. dir[q][f] # NoFile
      BY <1>1, <2>0 DEF Newest
    <3>2. f \notin Provides[q]
      BY <1>0 DEF OneOwner
    <3> QED BY <1>8, <3>1, <3>2 DEF New
  <2>2. dir'[q][f] = dir[q][f] /\ rev' = rev
    BY <1>0, <1>8, <2>1 DEF New, Writes, Create
  <2> QED BY <1>2, <2>0, <2>2
<1>9. ASSUME NEW r \in Pkg, NEW g \in File, InPlace(r, g) PROVE Newest(dir[q][f], p)'
  BY <1>2, <1>9 DEF InPlace, Writes
<1>10. ASSUME NEW r \in Pkg, Rebuild(r) \/ Reconfigure(r) \/ Dirclean(r) PROVE Newest(dir[q][f], p)'
  <2>1. r # p /\ behind' = behind
    BY <1>0, <1>10 DEF Rebuild, Reconfigure, Dirclean, Command
  <2>2. rev'[p] = rev[p] /\ stage[p] = "installed"
    BY <1>0, <1>10, <2>1 DEF Rebuild, Reconfigure, Dirclean, Command
  <2>3. dir'[q] = dir[q] /\ stage[q] \in {"configured", "installed"}
    <3>1. CASE Rebuild(r) BY <3>1 DEF Rebuild, Command
    <3>2. CASE Reconfigure(r) BY <3>2 DEF Reconfigure, Command
    <3>3. CASE Dirclean(r) BY <3>3 DEF Dirclean, Command
    <3> QED BY <1>10, <3>1, <3>2, <3>3
  <2> QED BY <1>2, <2>1, <2>2, <2>3
<1>11. CASE Interrupt BY <1>0, <1>2, <1>11 DEF Interrupt
<1>12. CASE UNCHANGED <<stage, rev, dir, behind>> BY <1>2, <1>12
<1> QED BY <1>3, <1>4, <1>5, <1>6, <1>7, <1>8, <1>9, <1>10, <1>11, <1>12, Steps
        DEF Merge, BeginFinalize, Finalize, vars

\* What a directory is filled from is complete.
LEMMA Source ==
    ASSUME OneOwner, TypeOK, Ready, OwnFiles, Current,
           NEW q \in Pkg, NEW d \in Depends[q], NEW p \in Rdeps[d], NEW f \in Provides[p],
           stage[q] = "prepare", (Rdeps[q] \ {q}) \intersect behind = {}
    PROVE  Newest(dir[d][f], p)
<1>1. d \in Rdeps[q] \ {q} /\ p \in Rdeps[q] \ {q} /\ d \in Pkg
  BY RecursionAssumption
<1>2. stage[d] = "installed" /\ stage[p] = "installed"
  BY <1>1 DEF Ready, DepsInstalled
<1> QED BY <1>1, <1>2, UpToDate

LEMMA FilledStep ==
    ASSUME OneOwner, TypeOK, Isolation, Ready, OwnFiles, Current, Filled, [Next]_vars PROVE Filled'
<1> SUFFICES ASSUME NEW q \in Pkg, NEW d \in copied'[q], NEW p \in Rdeps[d], NEW f \in Provides[p],
                    stage'[q] = "prepare", (Rdeps[q] \ {q}) \intersect behind' = {}
             PROVE  Newest(dir[q][f], p)'
  BY DEF Filled
<1> DEFINE Clear == (Rdeps[q] \ {q}) \intersect behind = {}
<1>0. SameOrigin /\ TypeOK'
  BY OriginStep, TypeStep
<1>a. d \in Pkg /\ p \in Pkg /\ f \in File
  BY <1>0 DEF TypeOK
<1>1. ASSUME d \in copied[q], stage[q] = "prepare", Clear PROVE Newest(dir[q][f], p)
  BY <1>1 DEF Filled
<1>2. ASSUME d \in copied[q], stage[q] = "prepare", Clear, rev'[p] = rev[p], dir'[q][f] = dir[q][f]
      PROVE  Newest(dir[q][f], p)'
  BY <1>0, <1>1, <1>2, <1>a, Carried
<1> USE DEF TypeOK
<1>3. ASSUME NEW r \in Pkg, Begin(r) PROVE Newest(dir[q][f], p)'
  BY <1>2, <1>3 DEF Begin
<1>4. ASSUME NEW r \in Pkg, Configure(r) PROVE Newest(dir[q][f], p)'
  <2>1. r # q /\ stage[q] = "prepare" /\ stage[r] = "prepare"
    BY <1>4 DEF Configure
  <2>2. r \notin Rdeps[q]
    BY <2>1 DEF Ready, DepsInstalled
  <2>3. Clear
    BY <1>4, <2>2 DEF Configure
  <2> QED BY <1>2, <1>4, <2>1, <2>3 DEF Configure
<1>5. ASSUME NEW r \in Pkg, Installed(r) PROVE Newest(dir[q][f], p)'
  <2>1. stage[q] = "prepare" /\ Clear
    BY <1>5 DEF Installed
  <2> QED BY <1>2, <1>5, <2>1 DEF Installed
<1>6. ASSUME NEW r \in Pkg, NEW c \in Pkg, Prepare(r, c) PROVE Newest(dir[q][f], p)'
  <2>1. UNCHANGED <<stage, rev, behind>>
    BY <1>6, OneDir
  <2>2. CASE r # q
    <3>1. copied'[q] = copied[q] /\ dir'[q] = dir[q]
      BY <1>6, <2>2, OneDir DEF Prepare
    <3> QED BY <1>2, <2>1, <3>1
  <2>3. CASE r = q
    <3>1. c \in Depends[q] /\ copied'[q] = copied[q] \union {c}
      BY <1>6, <2>3 DEF Prepare, First
    <3>2. \/ dir'[q][f] = dir[c][f] /\ dir[c][f] # NoFile
          \/ dir'[q][f] = dir[q][f] /\ dir[c][f] = NoFile
      <4>1. dir'[q] = Link(dir[c], dir[q])
        BY <1>6, <2>3 DEF Prepare
      <4> QED BY <1>a, <4>1 DEF Link
    <3>3. CASE dir'[q][f] = dir[c][f] /\ dir[c][f] # NoFile
      <4>1. p \in Rdeps[c]
        BY <1>a, <3>3, HasFile
      <4>2. Newest(dir[c][f], p)
        BY <2>1, <3>1, <4>1, Source
      <4>3. Newest(dir[c][f], p)' <=> dir'[c][f] # NoFile /\ data'[dir'[c][f]].from = p /\ data'[dir'[c][f]].rev = rev'[p]
        BY DEF Newest
      <4>4. c # q /\ dir'[c] = dir[c]
        BY <1>6, <2>3, <3>1, OneDir, RecursionAssumption
      <4>5. Newest(dir[c][f], p)'
        BY <1>0, <1>a, <2>1, <4>2, <4>4, Carried
      <4> QED BY <3>3, <4>4, <4>5 DEF Newest
    <3>4. CASE dir'[q][f] = dir[q][f] /\ dir[c][f] = NoFile
      <4>1. d # c
        <5>1. ASSUME d = c PROVE FALSE
          <6>1. Newest(dir[c][f], p)
            BY <2>1, <3>1, <5>1, Source
          <6> QED BY <3>4, <6>1 DEF Newest
        <5> QED BY <5>1
      <4>2. d \in copied[q]
        BY <3>1, <4>1
      <4> QED BY <1>2, <2>1, <3>4, <4>2
    <3> QED BY <3>2, <3>3, <3>4
  <2> QED BY <2>2, <2>3
<1>7. ASSUME NEW r \in Pkg, NEW g \in File, NEW i \in Inode, Fixup(r, g, i) PROVE Newest(dir[q][f], p)'
  <2>1. UNCHANGED <<stage, rev, behind, copied>>
    BY <1>7, OneDir DEF Fixup
  <2>2. CASE dir'[q][f] = dir[q][f] BY <1>2, <2>1, <2>2
  <2>3. CASE r = q /\ g = f
    <3>1. Newest(dir[q][f], p)
      BY <1>1, <2>1
    <3>2. dir[q][f] \in Inode
      BY <1>7, <2>3 DEF Fixup, Foreign
    <3>3. data[dir[q][f]].from = p /\ data[dir[q][f]].rev = rev[p]
      BY <3>1 DEF Newest
    <3>4. dir'[q][f] = i /\ data'[i] = [data[dir[q][f]] EXCEPT !.root = q, !.by = @ \union {q}]
      BY <1>7, <2>3 DEF Fixup
    <3>5. data'[i].from = p /\ data'[i].rev = rev[p]
      BY <3>2, <3>3, <3>4 DEF Datum
    <3> QED BY <2>1, <3>4, <3>5 DEF Newest
  <2> QED BY <1>7, <2>2, <2>3 DEF Fixup
<1>8. ASSUME NEW r \in Pkg, NEW g \in File, NEW i \in Inode, New(r, g, i) PROVE Newest(dir[q][f], p)'
  <2>1. UNCHANGED <<stage, rev, behind, copied>>
    BY <1>8, OneDir DEF New, Writes
  <2>2. r # q
    BY <1>8, <2>1 DEF New, Writes
  <2>3. dir'[q] = dir[q]
    BY <1>8, <2>2 DEF New, Create
  <2> QED BY <1>2, <2>1, <2>3
<1>9. ASSUME NEW r \in Pkg, NEW g \in File, InPlace(r, g) PROVE Newest(dir[q][f], p)'
  BY <1>2, <1>9 DEF InPlace, Writes
<1>10. ASSUME NEW r \in Pkg, Rebuild(r) \/ Reconfigure(r) \/ Dirclean(r) PROVE FALSE
  <2>1. Quiet
    BY <1>10 DEF Rebuild, Reconfigure, Dirclean, Command
  <2>2. stage'[q] = stage[q] \/ stage'[q] \in {"configured", "none"}
    <3>1. CASE Rebuild(r) BY <3>1 DEF Rebuild
    <3>2. CASE Reconfigure(r) BY <3>2 DEF Reconfigure
    <3>3. CASE Dirclean(r) BY <3>3 DEF Dirclean
    <3> QED BY <1>10, <3>1, <3>2, <3>3
  <2> QED BY <2>1, <2>2 DEF Quiet
<1>11. CASE Interrupt BY <1>11 DEF Interrupt
<1>12. CASE UNCHANGED <<stage, rev, dir, behind, copied>> BY <1>2, <1>12
<1> QED BY <1>3, <1>4, <1>5, <1>6, <1>7, <1>8, <1>9, <1>10, <1>11, <1>12, Steps
        DEF Merge, BeginFinalize, Finalize, vars

LEMMA ImageFilledStep ==
    ASSUME OneOwner, TypeOK, Isolation, OwnFiles, Current, ImageFilled, [Next]_vars PROVE ImageFilled'
<1>0. SameOrigin
  BY OriginStep
<1> USE DEF TypeOK
\* While the image is made nothing else happens.
<1>1. CASE final' # "no"
  <2>1. ASSUME NEW r \in Pkg
        PROVE  ~Begin(r) /\ ~Configure(r) /\ ~Installed(r) /\ ~Rebuild(r) /\ ~Reconfigure(r) /\ ~Dirclean(r)
    <3>1. ASSUME final' = final PROVE stage[r] = "installed"
      BY <1>1, <3>1 DEF ImageFilled
    <3>2. ~Begin(r) BY <1>1 DEF Begin
    <3>3. ~Configure(r) BY <3>1 DEF Configure
    <3>4. ~Installed(r) BY <3>1 DEF Installed
    <3>5. ~Rebuild(r) /\ ~Reconfigure(r) /\ ~Dirclean(r)
      BY <1>1 DEF Rebuild, Reconfigure, Dirclean, Command
    <3> QED BY <3>2, <3>3, <3>4, <3>5
  <2>2. ASSUME NEW r \in Pkg, NEW d \in Pkg PROVE ~Prepare(r, d)
    BY <1>1 DEF Prepare, ImageFilled
  <2>3. ASSUME NEW r \in Pkg, NEW f \in File, NEW i \in Inode PROVE ~Fixup(r, f, i) /\ ~New(r, f, i)
    BY <1>1 DEF Fixup, New, Writes, ImageFilled
  <2>4. ASSUME NEW r \in Pkg, NEW f \in File PROVE ~InPlace(r, f)
    BY <1>1 DEF InPlace, Writes, ImageFilled
  <2>5. ~Interrupt
    BY <1>1 DEF Interrupt
  <2>6. (\E r \in Pkg : Merge(r)) \/ BeginFinalize \/ Finalize \/ UNCHANGED vars
    BY <2>1, <2>2, <2>3, <2>4, <2>5, Steps
  <2>7. UNCHANGED <<stage, rev, behind>> /\ \A p \in Pkg : stage[p] = "installed"
    BY <1>1, <2>6 DEF Merge, BeginFinalize, Finalize, vars, ImageFilled
  <2>8. final' = "yes" => merged' = Pkg
    BY <2>6 DEF Merge, BeginFinalize, Finalize, vars, ImageFilled
  <2>9. ASSUME behind' = {}, NEW p \in merged', NEW f \in Provides[p] PROVE Newest(target[f], p)'
    <3>0. p \in Pkg /\ f \in File /\ behind = {}
      BY <2>6, <2>7, <2>9 DEF Merge, First, BeginFinalize, Finalize, vars
    <3>1. Newest(target[f], p)' <=> target'[f] # NoFile /\ data'[target'[f]].from = p /\ data'[target'[f]].rev = rev'[p]
      BY DEF Newest
    <3>2. ASSUME p \in merged, final # "no", target'[f] = target[f] PROVE Newest(target[f], p)'
      <4>1. Newest(target[f], p)
        BY <3>0, <3>2 DEF ImageFilled
      <4>2. target[f] \in Inode /\ ~Unused(target[f])
        BY <3>0, <4>1 DEF Newest, Unused
      <4> QED BY <1>0, <2>7, <3>1, <3>2, <4>1, <4>2 DEF SameOrigin, Newest
    <3>3. ASSUME NEW r \in Pkg, Merge(r) PROVE Newest(target[f], p)'
      <4>1. target'[f] = IF dir[r][f] # NoFile THEN dir[r][f] ELSE target[f]
        BY <3>0, <3>3 DEF Merge, Link
      <4>2. CASE dir[r][f] # NoFile
        <5>1. p \in Rdeps[r]
          BY <3>0, <4>2, HasFile
        <5>2. Newest(dir[r][f], p)
          BY <2>7, <3>0, <5>1, UpToDate
        <5>3. dir[r][f] \in Inode /\ ~Unused(dir[r][f])
          BY <3>0, <4>2 DEF Unused
        <5> QED BY <1>0, <2>7, <3>1, <4>1, <4>2, <5>2, <5>3 DEF SameOrigin, Newest
      <4>3. CASE dir[r][f] = NoFile
        <5>1. r # p
          BY <2>7, <4>3 DEF OwnFiles, Newest
        <5>2. p \in merged /\ final # "no"
          BY <2>9, <3>3, <5>1 DEF Merge
        <5> QED BY <3>2, <4>1, <4>3, <5>2
      <4> QED BY <4>2, <4>3
    <3>4. CASE BeginFinalize BY <2>9, <3>4 DEF BeginFinalize
    <3>5. CASE Finalize BY <2>9, <3>2, <3>5 DEF Finalize
    <3>6. CASE UNCHANGED vars BY <1>1, <2>9, <3>2, <3>6 DEF vars
    <3> QED BY <2>6, <3>3, <3>4, <3>5, <3>6
  <2>10. \A p \in Pkg : stage'[p] = "installed"
    BY <2>7
  <2> QED BY <2>8, <2>9, <2>10 DEF ImageFilled
<1>2. CASE final' = "no" BY <1>2 DEF ImageFilled
<1> QED BY <1>1, <1>2

\* The inductive invariant: wherever a file of a package was passed on, it is
\* the latest, unless the place is behind.
THEOREM ImageInvariance == ASSUME OneOwner PROVE Spec => []ImageInv
<1>1. Init => ImageInv
  <2> SUFFICES ASSUME Init PROVE ImageInv OBVIOUS
  <2>1. \A p \in Pkg : stage[p] = "none"
    BY DEF Init
  <2>2. behind = {} /\ final = "no"
    BY DEF Init
  <2> QED BY <2>1, <2>2 DEF ImageInv, Ready, UpClosed, OwnFiles, Current, Filled, ImageFilled
<1>2. TypeOK /\ Isolation /\ ImageInv /\ [Next]_vars => ImageInv'
  <2> SUFFICES ASSUME TypeOK, Isolation, ImageInv, [Next]_vars PROVE ImageInv' OBVIOUS
  <2>1. Ready /\ UpClosed /\ OwnFiles /\ Current /\ Filled /\ ImageFilled
    BY DEF ImageInv
  <2>2. Ready' /\ UpClosed' /\ OwnFiles'
    BY <2>1, ReadyStep, UpClosedStep, OwnFilesStep
  <2>3. Current' /\ Filled' /\ ImageFilled'
    BY <2>1, CurrentStep, FilledStep, ImageFilledStep
  <2> QED BY <2>2, <2>3 DEF ImageInv
<1> QED BY <1>1, <1>2, TypeCorrect, Isolated, PTL DEF Spec

\* When each file has one package that installs it, and who writes into it
\* depends on that package, the image holds the latest build of every file,
\* unless a package is behind: whatever was built again, configured again or
\* cleaned, and however often make was killed.
THEOREM Image == ASSUME OneOwner PROVE Spec => []ImageUpToDate
<1>1. ImageInv => ImageUpToDate
  BY DEF ImageInv, ImageFilled, ImageUpToDate, Latest
<1> QED BY <1>1, ImageInvariance, PTL
=============================================================================
