----------------------------- MODULE MCDlWrapper -----------------------------
\* Instances of DlWrapper for TLC.
EXTENDS DlWrapper, TLC

\* Nothing orders or names a client or a content: sound for invariants.
Symmetry == Permutations(Client) \union Permutations(Data)
=============================================================================
