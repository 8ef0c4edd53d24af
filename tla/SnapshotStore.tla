--------------------------- MODULE SnapshotStore ---------------------------
(***************************************************************************)
(* The directories a sandbox is given, and the three kinds of work that    *)
(* write them, any number at a time and in several processes:              *)
(*   "source"    createSnapshotStorePublisher publishes the files of a     *)
(*               commit (adapters-source/src/snapshot-store-publisher.ts); *)
(*   "artifact"  PnpmDependencyArtifactBuilder builds the dependencies of  *)
(*               a commit (engine/src/dependency-provisioning.ts);         *)
(*   "composed"  VerificationApplicationService composes both, by          *)
(*               ComposedSnapshotStore, ExecutionEnvironmentMaterializer   *)
(*               and OfflineDependencyProvisioner.                         *)
(* Each fills a private staging tree and renames it to a name that must    *)
(* not exist yet; who loses that race accepts only an equal tree.          *)
(*                                                                         *)
(* A tree is a set of files <<path, bytes>>, and stands for its own hash.  *)
(* Listing, hashing and comparing a directory that only ever appears whole *)
(* is one step; copying the artifact, which may change meanwhile, is one   *)
(* step per file.                                                          *)
(*                                                                         *)
(* A definition marked "Faulty" takes no part in the specification.        *)
(***************************************************************************)
EXTENDS Integers, FiniteSets

CONSTANTS
    None,          \* nothing: no directory, no metadata, no lock, no job
    Malformed,     \* metadata that cannot be read
    Stale,         \* a lock that nobody will remove
    Workers,       \* the processes that publish, build and compose
    Sources,       \* source identities: exact commits
    Commit,        \* the files of each commit
    Resolutions,   \* what the inner resolver may answer
    DepPaths, GenPaths,
    Installs,      \* the dependency trees an install may produce
    Used,          \* the commits that earlier jobs were about
    Earlier,       \* what an earlier release composed into a source directory
    Generated,     \* prebuilt output a composition may be asked to add
    MaxFiles,      \* the publisher's limit
    MaxJobs,       \* bound: jobs ever started
    MaxCrashes,    \* bound: crashes
    MaxDisturbed   \* bound: changes of an artifact behind everybody's back

Files == UNION (Installs \cup Generated \cup {r.files : r \in Resolutions}
                  \cup {Commit[s] : s \in Sources})
Trees == SUBSET Files
Part(t, paths) == {f \in t : f[1] \in paths}

ASSUME StoreAssumption ==
    /\ None \notin Workers /\ Stale \notin Workers /\ None # Stale
    /\ \A t \in Trees : None # t /\ Malformed # t
    /\ \A r \in Resolutions :
         /\ {"requested", "state", "commitSha", "files"} \subseteq DOMAIN r
         /\ r.requested \in Sources
    /\ \A t \in Installs : t = Part(t, DepPaths)
    /\ {} \in Generated /\ Used \subseteq Sources /\ Earlier \subseteq Installs

\* <storeRoot>/<sha>, <artifactRoot>/<artifactId>, <storeRoot>/<sha>-dep-<hash>.
\* An artifact id is the hash of an identity that contains the commit.
SourceName(s) == <<"source", s, {}>>
ArtifactName(s) == <<"artifact", s, {}>>
ComposedName(s, hash) == <<"composed", s, hash>>
ComposedNames == {ComposedName(s, h) : s \in Sources, h \in Installs}
SnapshotNames == {SourceName(s) : s \in Sources} \cup ComposedNames
Names == SnapshotNames \cup {ArtifactName(s) : s \in Sources}

VARIABLES
    dir,       \* the directory of each name, or None
    meta,      \* <artifactId>.artifact.json: the trusted hash
    lock,      \* .locks/<identity>.lock: who made it
    pc, job,   \* where each worker is, and what it is to do
    stage,     \* its staging tree
    scratch,   \* its copy of the artifact, while there is one
    started, crashes,
    disturbed, \* history: artifacts changed behind everybody's back
    reported   \* history: every name and tree that was reported published

work == <<pc, job, stage, scratch>>
counts == <<started, crashes, disturbed>>
vars == <<dir, meta, lock, work, counts, reported>>

Composing == {"artifact", "copy", "lease", "verify", "release"}
Steps == {"check", "rename", "meta"} \cup Composing

\* left: the paths of the artifact still to be copied.
Job == [kind : {"source", "artifact", "composed"}, source : Sources, name : Names,
        files : Trees, gen : Generated, left : SUBSET DepPaths, ok : BOOLEAN]

ASSUME BoundAssumption == MaxJobs \in Nat /\ MaxCrashes \in Nat /\ None \notin Job

-----------------------------------------------------------------------------
(***************************************************************************)
(* Before and beside the store.                                            *)
(***************************************************************************)

\* Faulty: the resolved commit is not compared with the requested one.
StoreIdentityUnbound(r) == IF r.state \in Sources THEN r.state ELSE None

\* deriveSnapshotStoreIdentity, for GitHub references; None: it throws.
StoreIdentity(r) ==
    IF r.state = r.requested /\ r.commitSha \in {None, r.state} THEN r.state ELSE None

\* validateContents: limits and safe paths.
ValidContents(files) ==
    /\ Cardinality(files) <= MaxFiles
    /\ \A f \in files : f[1] # "unsafe"

\* treesEqual: the source exactly, and nothing besides but provisioned trees.
HoldsSource(existing, expected) ==
    expected \subseteq existing /\ (existing \ expected) = Part(existing \ expected, DepPaths \cup GenPaths)

\* Faulty: the loser of the race takes whatever the winner published.
AcceptsAnything(kind, existing, staged) == TRUE

\* Whether a published tree is accepted in the place of the staged one.
Accepts(kind, existing, staged) ==
    IF kind = "source" THEN HoldsSource(existing, staged) ELSE existing = staged

\* deriveNodeDependencyIdentity # undefined: there are a manifest and a lockfile.
NeedsDependencies(s) == \E f \in Commit[s] : f[1] = "manifest"

\* Faulty: the dependencies are not hashed again.
IntactUnread(t, hash) == TRUE

\* artifactEntriesContentHash over the dependency entries of a tree.
Intact(t, hash) == Part(t, DepPaths) = hash

\* Faulty: whatever is there is replaced.
FreeByForce(n) == TRUE

\* rename() onto a name: only one that does not exist.
Free(n) == dir[n] = None

\* prepare: the files of g are copied over tree t.
Overlay(t, g) == {f \in t : \A h \in g : h[1] # f[1]} \cup g

\* A declared output that is a file of the source is refused.
SharePath(t, u) == \E f \in t, g \in u : f[1] = g[1]

\* What a name of a snapshot may hold. An answer for a commit decides the files of its
\* directory: the publisher cannot know them otherwise.
Answers(s) == {Commit[s]} \cup {r.files : r \in {x \in Resolutions : StoreIdentity(x) = s}}
Complete(n) ==
    IF n[1] = "source" THEN {t \in Trees : \E a \in Answers(n[2]) : HoldsSource(t, a)}
    ELSE {t \in Trees : Intact(t, n[3]) /\ \E a \in Answers(n[2]) : a \subseteq t}

\* What earlier jobs left. A release before this one composed into the directory
\* of the source itself.
Init ==
    /\ \E src \in [Used -> {None, {}} \cup Earlier], art \in [Used -> {None} \cup Installs] :
         /\ dir = [n \in Names |->
                     IF n[2] \notin Used THEN None
                     ELSE IF n[1] = "source" /\ src[n[2]] # None THEN Commit[n[2]] \cup src[n[2]]
                     ELSE IF n[1] = "artifact" THEN art[n[2]] ELSE None]
         /\ meta \in [Sources -> {None, Malformed} \cup Installs]
         /\ \A s \in Sources : meta[s] # None => s \in Used /\ meta[s] \in {Malformed, art[s]}
    /\ lock = [n \in ComposedNames |-> None]
    /\ pc = [w \in Workers |-> "idle"]
    /\ job = [w \in Workers |-> None]
    /\ stage = [w \in Workers |-> {}]
    /\ scratch = [w \in Workers |-> {}]
    /\ started = 0 /\ crashes = 0 /\ disturbed = {} /\ reported = {}

-----------------------------------------------------------------------------
(***************************************************************************)
(* How a job starts and ends.                                              *)
(***************************************************************************)

Begin(w, j, tree, at) ==
    /\ pc' = [pc EXCEPT ![w] = at]
    /\ job' = [job EXCEPT ![w] = j]
    /\ stage' = [stage EXCEPT ![w] = tree]
    /\ UNCHANGED scratch

NewJob(k, s, n, files, gen) ==
    [kind |-> k, source |-> s, name |-> n, files |-> files, gen |-> gen,
     left |-> IF k = "composed" THEN DepPaths ELSE {}, ok |-> FALSE]

Starting(w) ==
    /\ pc[w] = "idle"
    /\ started < MaxJobs
    /\ started' = started + 1
    /\ UNCHANGED <<dir, meta, lock, crashes, disturbed, reported>>

\* resolveSnapshot of the publisher: anything wrong with the answer is refused
\* before the store is touched.
StartPublish(w, r) ==
    /\ Starting(w)
    /\ IF StoreIdentity(r) # None /\ ValidContents(r.files)
       THEN Begin(w, NewJob("source", r.requested, SourceName(StoreIdentity(r)), r.files, {}),
                  {}, "check")
       ELSE UNCHANGED work

\* runPnpm: the timer, the output limit, an error and the exit race, and the
\* first of them settles it.
Installed(outcome) == outcome = "exit 0"

\* build: installs in a directory of its own, then stages and hashes the tree.
StartBuild(w, s) ==
    /\ Starting(w)
    /\ \E outcome \in {"timeout", "output", "error", "exit 1", "exit 0"} :
         IF Installed(outcome)
         THEN \E t \in Installs :
                Begin(w, NewJob("artifact", s, ArtifactName(s), t, {}), t, "check")
         ELSE UNCHANGED work

\* Metadata is read, and all of it compared with the identity that is derived
\* from the source: none, malformed or of something else, it is refused.
Trusted(s) == meta[s] \in Installs

\* materializeSnapshotDependencies, up to the copy of the source: the metadata
\* names the trusted hash, which names the composition.
StartCompose(w, s, gen) ==
    /\ Starting(w)
    /\ IF /\ NeedsDependencies(s)
          /\ Trusted(s)
          /\ ~ Free(SourceName(s))
       THEN IF SharePath(dir[SourceName(s)], gen) THEN UNCHANGED work
            ELSE Begin(w, NewJob("composed", s, ComposedName(s, meta[s]), {}, gen),
                       dir[SourceName(s)], "artifact")
       ELSE UNCHANGED work

\* What the job would publish; the publisher compares before it stages anything.
Tree(w) == IF job[w].kind = "source" THEN job[w].files ELSE stage[w]

\* The staging tree and the scratch copy are removed on every path.
Finish(w, ok) ==
    /\ pc' = [pc EXCEPT ![w] = "idle"]
    /\ job' = [job EXCEPT ![w] = None]
    /\ stage' = [stage EXCEPT ![w] = {}]
    /\ scratch' = [scratch EXCEPT ![w] = {}]
    /\ reported' = IF ok THEN reported \cup {[source |-> job[w].source, name |-> job[w].name,
                                              tree |-> Tree(w)]}
                   ELSE reported

\* Whether w is inside the interval that the lease protects.
Leased(w) ==
    /\ pc[w] \in {"verify", "check", "rename", "release"}
    /\ job[w].kind = "composed"

\* Faulty: there is no finally.
GiveWithoutRelease(w, ok) == Finish(w, ok)

\* An error leaves through the finally that releases the lease.
Give(w, ok) ==
    IF Leased(w)
    THEN /\ pc' = [pc EXCEPT ![w] = "release"]
         /\ job' = [job EXCEPT ![w].ok = ok]
         /\ UNCHANGED <<stage, scratch, reported>>
    ELSE Finish(w, ok)

Advance(w, at) ==
    /\ pc' = [pc EXCEPT ![w] = at]
    /\ UNCHANGED <<job, stage, scratch, reported>>

-----------------------------------------------------------------------------
(***************************************************************************)
(* Publication, the same contract for all three.                           *)
(***************************************************************************)

\* The builder still has its metadata to write.
Published(w) ==
    IF job[w].kind = "artifact" THEN Advance(w, "meta") ELSE Give(w, TRUE)

Compare(w) ==
    IF Accepts(job[w].kind, dir[job[w].name], Tree(w)) THEN Published(w) ELSE Give(w, FALSE)

CheckExisting(w) ==
    /\ pc[w] = "check"
    /\ IF Free(job[w].name) THEN Advance(w, "rename") ELSE Compare(w)
    /\ UNCHANGED <<dir, meta, lock, counts>>

\* Staged(w): the staging tree is complete. The publisher writes it file by file.
Staged(w) == job[w].kind = "source" => stage[w] = job[w].files

WriteFile(w) ==
    /\ pc[w] = "rename"
    /\ job[w].kind = "source"
    /\ \E f \in job[w].files \ stage[w] : stage' = [stage EXCEPT ![w] = @ \cup {f}]
    /\ UNCHANGED <<dir, meta, lock, pc, job, scratch, counts, reported>>

Rename(w) ==
    /\ pc[w] = "rename"
    /\ Staged(w)
    /\ IF Free(job[w].name)
       THEN /\ dir' = [dir EXCEPT ![job[w].name] = stage[w]]
            /\ Published(w)
       ELSE /\ Compare(w)
            /\ UNCHANGED dir
    /\ UNCHANGED <<meta, lock, counts>>

\* writeDependencyArtifactMetadata: a temporary file and a rename.
WriteMeta(w) ==
    /\ pc[w] = "meta"
    /\ meta' = [meta EXCEPT ![job[w].source] = stage[w]]
    /\ Finish(w, TRUE)
    /\ UNCHANGED <<dir, lock, counts>>

-----------------------------------------------------------------------------
(***************************************************************************)
(* Composition.                                                            *)
(***************************************************************************)

\* provision, before the copy: the artifact still is what its metadata says.
CheckArtifact(w) ==
    /\ pc[w] = "artifact"
    /\ IF dir[ArtifactName(job[w].source)] = job[w].name[3]
       THEN Advance(w, "copy") ELSE Give(w, FALSE)
    /\ UNCHANGED <<dir, meta, lock, counts>>

\* cp(source, scratch), a file at a time.
CopyFile(w) ==
    LET from == dir[ArtifactName(job[w].source)] IN
    /\ pc[w] = "copy"
    /\ job[w].left # {}
    /\ IF from = None THEN Give(w, FALSE)
       ELSE \E p \in job[w].left :
              /\ scratch' = [scratch EXCEPT ![w] = @ \cup Part(from, {p})]
              /\ job' = [job EXCEPT ![w].left = @ \ {p}]
              /\ UNCHANGED <<pc, stage, reported>>
    /\ UNCHANGED <<dir, meta, lock, counts>>

\* materialize: the source, the dependencies, and the generated output over them.
Materialized(w) == Overlay(stage[w] \cup scratch[w], job[w].gen)

\* The copy is hashed, moved entry by entry to where no entry is, hashed there
\* again; then the generated output is copied over all of it.
Transfer(w) ==
    /\ pc[w] = "copy"
    /\ job[w].left = {}
    /\ IF /\ Intact(scratch[w], job[w].name[3])
          /\ Part(stage[w], DepPaths) = {}
       THEN /\ stage' = [stage EXCEPT ![w] = Materialized(w)]
            /\ scratch' = [scratch EXCEPT ![w] = {}]
            /\ pc' = [pc EXCEPT ![w] = "lease"]
            /\ UNCHANGED <<job, reported>>
       ELSE Give(w, FALSE)
    /\ UNCHANGED <<dir, meta, lock, counts>>

\* acquireCompositionLease: mkdir, polled ...
Acquire(w) ==
    /\ pc[w] = "lease"
    /\ lock[job[w].name] = None
    /\ lock' = [lock EXCEPT ![job[w].name] = w]
    /\ Advance(w, "verify")
    /\ UNCHANGED <<dir, meta, counts>>

\* Faulty: it polls for as long as the lock is there.
PastNoDeadline(w) == FALSE

\* ... until the deadline: whoever holds the lock, or left it behind.
PastDeadline(w) == lock[job[w].name] # None

GiveUpLease(w) ==
    /\ pc[w] = "lease"
    /\ PastDeadline(w)
    /\ Give(w, FALSE)
    /\ UNCHANGED <<dir, meta, lock, counts>>

\* The dependencies at their final place, once more, under the lease.
Verify(w) ==
    /\ pc[w] = "verify"
    /\ IF Intact(stage[w], job[w].name[3]) THEN Advance(w, "check") ELSE Give(w, FALSE)
    /\ UNCHANGED <<dir, meta, lock, counts>>

\* The lock is removed; a removal that fails is ignored, and leaves it for ever.
Unlocked(w) == {None} \cup (IF crashes < MaxCrashes THEN {Stale} ELSE {})

Release(w) ==
    /\ pc[w] = "release"
    /\ \E left \in Unlocked(w) :
         /\ lock' = [lock EXCEPT ![job[w].name] = left]
         /\ crashes' = IF left = None THEN crashes ELSE crashes + 1
    /\ Finish(w, job[w].ok)
    /\ UNCHANGED <<dir, meta, started, disturbed>>

-----------------------------------------------------------------------------
(***************************************************************************)
(* Everything else that happens.                                           *)
(***************************************************************************)

\* Any access to the file system may fail; what was renamed stays.
IOError(w) ==
    /\ pc[w] \in Steps \ {"release"}
    /\ Give(w, FALSE)
    /\ UNCHANGED <<dir, meta, lock, counts>>

\* The process dies: its staging tree is litter, its lock stays.
Crash(w) ==
    /\ pc[w] \in Steps
    /\ crashes < MaxCrashes
    /\ crashes' = crashes + 1
    /\ lock' = [n \in ComposedNames |-> IF lock[n] = w THEN Stale ELSE lock[n]]
    /\ pc' = [pc EXCEPT ![w] = "idle"]
    /\ job' = [job EXCEPT ![w] = None]
    /\ stage' = [stage EXCEPT ![w] = {}]
    /\ scratch' = [scratch EXCEPT ![w] = {}]
    /\ UNCHANGED <<dir, meta, started, disturbed, reported>>

\* The payload of an artifact is changed or removed in place.
Disturb(s) ==
    /\ Cardinality(disturbed) < MaxDisturbed
    /\ dir[ArtifactName(s)] # None
    /\ disturbed' = disturbed \cup {s}
    /\ \E t \in Installs \cup {None} : dir' = [dir EXCEPT ![ArtifactName(s)] = t]
    /\ UNCHANGED <<meta, lock, work, started, crashes, reported>>

Step(w) ==
    \/ CheckExisting(w) \/ WriteFile(w) \/ Rename(w) \/ WriteMeta(w)
    \/ CheckArtifact(w) \/ CopyFile(w) \/ Transfer(w)
    \/ Acquire(w) \/ GiveUpLease(w) \/ Verify(w) \/ Release(w)

Next ==
    \/ \E w \in Workers :
         \/ \E r \in Resolutions : StartPublish(w, r)
         \/ \E s \in Sources : StartBuild(w, s)
         \/ \E s \in Sources, gen \in Generated : StartCompose(w, s, gen)
         \/ Step(w) \/ IOError(w) \/ Crash(w)
    \/ \E s \in Sources : Disturb(s)

\* A job goes on as long as its process lives.
Fairness == \A w \in Workers : WF_vars(Step(w))

Spec == Init /\ [][Next]_vars /\ Fairness

-----------------------------------------------------------------------------
(***************************************************************************)
(* Properties.                                                             *)
(***************************************************************************)

\* Every variable has its type: a job is there exactly while its worker works.
TypeOK ==
    /\ dir \in [Names -> {None} \cup Trees]
    /\ meta \in [Sources -> {None, Malformed} \cup Installs]
    /\ lock \in [ComposedNames -> Workers \cup {None, Stale}]
    /\ pc \in [Workers -> Steps \cup {"idle"}]
    /\ job \in [Workers -> {None} \cup Job]
    /\ \A w \in Workers : pc[w] = "idle" <=> job[w] = None
    /\ stage \in [Workers -> Trees] /\ scratch \in [Workers -> Trees]
    /\ started \in 0..MaxJobs /\ crashes \in 0..MaxCrashes
    /\ disturbed \subseteq Sources
    /\ reported \subseteq [source : Sources, name : Names, tree : Trees]

\* What a sandbox may be given never changes and is never partial: the sources
\* and the compositions are a write-once store of complete trees, whatever
\* crashes, races and errors there are (snapshot-store-publisher.ts:379-404,
\* snapshot-composition.ts:49-59).
Stored == [n \in SnapshotNames |-> dir[n]]
Store == INSTANCE WriteOnceStore WITH Names <- SnapshotNames, stored <- Stored
WriteOnce == Store!Spec

\* A composition holds exactly the dependencies its name is made of and every
\* file of the source published under the commit, though the artifact may
\* change while it is copied and generated output is copied over the result
\* (dependency-provisioning.ts:689-791, snapshot-composition.ts:494-504).
ComposedIsTrusted ==
    \A n \in ComposedNames : dir[n] # None =>
        /\ Part(dir[n], DepPaths) = n[3]
        /\ dir[SourceName(n[2])] # None
        /\ dir[SourceName(n[2])] \subseteq dir[n]

\* Metadata that names a hash names that of the artifact beside it, however
\* many builds raced for the identity, unless somebody changed the payload in
\* place (dependency-provisioning.ts:996-1003).
MetadataIsOfArtifact ==
    \A s \in Sources : s \notin disturbed /\ meta[s] \in Installs => dir[ArtifactName(s)] = meta[s]

\* A snapshot that was reported published is the one of the requested commit,
\* and what it was reported to hold it still holds: the losers of races too
\* reported what is there (snapshot-store-publisher.ts:370-404,
\* snapshot-composition.ts:291-333).
ReportedIsStored ==
    \A r \in reported : r.name[1] # "artifact" =>
        /\ r.name[2] = r.source
        /\ dir[r.name] # None
        /\ r.tree \subseteq dir[r.name]

\* A lock is held exactly by the one worker inside the interval it protects;
\* one that gives up waiting never removes another's
\* (snapshot-composition.ts:146-172, 488-524).
LeaseIsExclusive ==
    \A n \in ComposedNames, w \in Workers :
        lock[n] = w <=> Leased(w) /\ job[w].name = n

\* The types, and that two workers never compose one identity at a time.
Inv == TypeOK /\ LeaseIsExclusive

\* Every job ends, also one that waits for a lock whose holder died or could
\* not remove it (snapshot-composition.ts:147-171).
JobsEnd == \A w \in Workers : pc[w] # "idle" ~> pc[w] = "idle"
=============================================================================
