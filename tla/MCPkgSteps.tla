----------------------------- MODULE MCPkgSteps -----------------------------
\* Instances of PkgSteps for TLC: a program with patches, and the library it
\* links with and takes headers from while it is patched, whose source is a
\* local directory.
EXTENDS PkgSteps, TLC

CONSTANTS prog, lib

None == [s \in DependsStep |-> {}]

TwoPkg      == {prog, lib}
TwoInstalls == (prog :> {"target"}) @@ (lib :> {"staging", "target"})
TwoDepends  == (prog :> [None EXCEPT !["configure"] = {lib}, !["patch"] = {lib}]) @@ (lib :> None)
TwoPatches  == (prog :> 2) @@ (lib :> 0)
=============================================================================
