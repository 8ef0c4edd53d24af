------------------------ MODULE MCCheckRunPublisher ------------------------
(***************************************************************************)
(* A small instance of CheckRunPublisher for TLC: one repository with two  *)
(* commits, and results that differ in time, in hash, or in one field that *)
(* their identity is made of.                                              *)
(***************************************************************************)
EXTENDS CheckRunPublisher

CONSTANTS r, s1, s2

MCRepos == {r}
MCShas == {s1, s2}

Good(sha, time, hash, status) ==
    [result |-> [snapshotId |-> <<r, sha>>, projectId |-> r, createdAt |-> time,
                 contentHash |-> hash, id |-> 2, status |-> status],
     snapshot |-> [id |-> <<r, sha>>, projectId |-> r, provider |-> "github",
                   reference |-> sha, commitSha |-> sha, sourceState |-> sha],
     repository |-> r, expected |-> None]

Base == Good(s1, 1, 1, "pass")

MCInputs ==
    {Base, Good(s1, 1, None, "partial"), Good(s2, 1, 1, "blocked")}
    \cup {[Base EXCEPT !.result.snapshotId = <<r, s2>>],
          [Base EXCEPT !.result.projectId = s2],
          [Base EXCEPT !.snapshot.id = <<r, s2>>],
          [Base EXCEPT !.snapshot.provider = "local"],
          [Base EXCEPT !.snapshot.reference = s2],
          [Base EXCEPT !.snapshot.commitSha = s2],
          [Base EXCEPT !.snapshot.sourceState = None],
          [Base EXCEPT !.expected = s2],
          Good(s1, -1, 1, "pass"), Good(s1, 1, 1, "unknown")}

MCForeignVers == {[ms |-> 3, hash |-> 1]}
=============================================================================
