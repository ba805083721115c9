------------------------------ MODULE MCPkgDirs ------------------------------
\* Instances of PkgDirs for TLC.
EXTENDS PkgDirs, TLC

CONSTANTS skeleton, lib, app, fstab, la, exe

\* A chain with a short cut: app needs lib and the skeleton, lib the skeleton.
ChainPkg      == {skeleton, lib, app}
ChainDepends  == (skeleton :> {}) @@ (lib :> {skeleton}) @@ (app :> {skeleton, lib})
ChainRdeps    == (skeleton :> {skeleton}) @@ (lib :> {skeleton, lib}) @@ (app :> ChainPkg)

\* The alphabetical order has the dependencies first.
DepsFirst     == (app :> 3) @@ (lib :> 2) @@ (skeleton :> 1)

AllFiles  == {fstab, la, exe}
OneEach   == (skeleton :> {fstab}) @@ (lib :> {la}) @@ (app :> {exe})

\* In place, the program writes to a file of its library that was fixed up for
\* it, the library to fstab of the skeleton, as libselinux does, and the
\* finalization to fstab too, as it does to what it strips or gives an rpath.
Writers   == (skeleton :> {}) @@ (lib :> {fstab}) @@ (app :> {la})
Edited    == {fstab}

\* What an inode nothing refers to held last makes no difference.
View == <<stage, copied, wrote, dir, target, [i \in Inode |-> IF Unused(i) THEN Blank ELSE data[i]],
          rev, commands, merged, final, behind>>
=============================================================================
