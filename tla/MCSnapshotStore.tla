-------------------------- MODULE MCSnapshotStore --------------------------
(***************************************************************************)
(* A small instance of SnapshotStore: a commit that needs dependencies and *)
(* one that has some of its own, two installs that differ in every file.   *)
(***************************************************************************)
EXTENDS SnapshotStore

CONSTANTS s1, s2

MCCommit == [s \in {s1, s2} |->
                IF s = s1 THEN {<<"manifest", 1>>, <<"code", 1>>}
                ELSE {<<"manifest", 2>>, <<"modules/a", 3>>}]

Resolution(asked, state, sha, files) ==
    [requested |-> asked, state |-> state, commitSha |-> sha, files |-> files]

MCResolutions ==
    {Resolution(s1, s1, s1, MCCommit[s1]), Resolution(s2, s2, None, MCCommit[s2]),
     Resolution(s1, s2, s2, MCCommit[s2]), Resolution(s1, s1, s2, MCCommit[s1]),
     \* An agent of another release decodes a file of the commit differently.
     Resolution(s1, s1, s1, {<<"manifest", 1>>, <<"code", 2>>}),
     Resolution(s1, s1, s1, {<<"unsafe", 1>>}),
     Resolution(s1, s1, s1, {<<"manifest", 1>>, <<"code", 1>>, <<"more", 1>>})}

MCInstalls == {{<<"modules/a", b>>, <<"modules/b", b>>} : b \in 1..2}
MCEarlier == {{<<"modules/a", 1>>, <<"modules/b", 1>>}}
MCGenerated == {{}, {<<"out", 1>>}, {<<"modules/a", 9>>}}
=============================================================================
