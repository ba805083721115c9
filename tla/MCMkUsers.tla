------------------------------ MODULE MCMkUsers ------------------------------
\* Instances of MkUsers for TLC: a skeleton with root and sync, as in
\* system/skeleton, where the main group of sync has the first system gid.
EXTENDS MkUsers, TLC

CONSTANTS sync, foo, wheel, users, grp, extra

AllUsers  == {root, sync, foo}
AllGroups == {wheel, users, grp, extra}

SkelUid     == (root :> 0) @@ (sync :> 1) @@ (foo :> NoId)
SkelUserGid == (root :> 0) @@ (sync :> 2) @@ (foo :> NoId)
SkelGid     == (wheel :> 0) @@ (users :> 2) @@ (grp :> NoId) @@ (extra :> NoId)
SkelMembers == (wheel :> {root}) @@ (users :> {root}) @@ (grp :> {}) @@ (extra :> {})

\* Automatic ids, ids that are free, ids of the skeleton, ids out of range.
SomeLines ==
    [username : {NoName, foo, sync}, uid : {-2, -1, 1, 3}, group : {users, grp},
     gid : {-1, 2, 3}, groups : {<<>>, <<users>>, <<extra, grp>>}, home : {"/foo"}]
    \union [username : {root, foo}, uid : {-1, 0}, group : {grp}, gid : {-3, 0, -2}, groups : {<<>>},
             home : {NoHome, BadHome}]
    \union [username : {NoName}, uid : {0}, group : {grp}, gid : {-2}, groups : {<<extra>>, <<users>>}, home : {NoHome}]
=============================================================================
