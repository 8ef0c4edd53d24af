------------------------- MODULE SnapshotStoreProofs -------------------------
(***************************************************************************)
(* For any workers, commits, answers of the resolver, installs, limits and *)
(* numbers of crashes: the snapshot store is a write-once store of         *)
(* complete trees, composes one identity at a time, and what one name says *)
(* of another is true.                                                     *)
(***************************************************************************)
EXTENDS SnapshotStore, TLAPS

\* The types, as far as the proof needs them.
StoreTypes == dir \in [Names -> {None} \cup Trees]

WorkTypes ==
    /\ lock \in [ComposedNames -> Workers \cup {None, Stale}]
    /\ pc \in [Workers -> Steps \cup {"idle"}]
    /\ job \in [Workers -> {None} \cup Job]
    /\ stage \in [Workers -> Trees] /\ scratch \in [Workers -> Trees]

\* A job j at a step fits its staging tree: what it is to publish may be published
\* under its name when it comes to that. A composition keeps the source from its
\* start, and holds the dependencies it is named after once that was verified.
Fits(step, j, tree) ==
    step # "idle" =>
        /\ j \in Job
        /\ j.kind = "source" =>
             /\ step \in {"check", "rename"}
             /\ j.name = SourceName(j.source) /\ j.files \in Answers(j.source)
        /\ j.kind = "artifact" =>
             /\ step \in {"check", "rename", "meta"}
             /\ j.name = ArtifactName(j.source)
        /\ j.kind = "composed" =>
             /\ step \in Composing \cup {"check", "rename"}
             /\ \E h \in Installs : j.name = ComposedName(j.source, h)
             /\ \E a \in Answers(j.source) : a \subseteq tree
             /\ step \in {"artifact", "copy"} => ~SharePath(tree, j.gen)
             /\ step \in {"check", "rename"} => Intact(tree, j.name[3])

Work == \A w \in Workers : Fits(pc[w], job[w], stage[w])

\* Whatever a sandbox may be given is complete.
StoreComplete == \A n \in SnapshotNames : dir[n] # None => dir[n] \in Complete(n)

\* Leased, of a step and a job.
Holds(step, j) == step \in {"verify", "check", "rename", "release"} /\ j.kind = "composed"

WorkInv == WorkTypes /\ Work /\ LeaseIsExclusive
IInv == StoreTypes /\ StoreComplete /\ WorkInv

-----------------------------------------------------------------------------
(***************************************************************************)
(* One worker moves: the others are left alone.                            *)
(***************************************************************************)
Change(w, step, j, tree, copy) ==
    /\ pc' = [pc EXCEPT ![w] = step]
    /\ job' = [job EXCEPT ![w] = j]
    /\ stage' = [stage EXCEPT ![w] = tree]
    /\ scratch' = [scratch EXCEPT ![w] = copy]

LEMMA OneMoves ==
  ASSUME WorkInv, NEW w \in Workers, NEW step \in Steps \cup {"idle"}, NEW j \in {None} \cup Job,
         NEW tree \in Trees, NEW copy \in Trees, Change(w, step, j, tree, copy), Fits(step, j, tree),
         lock' \in [ComposedNames -> Workers \cup {None, Stale}]
  PROVE  /\ WorkTypes' /\ Work'
         /\ Leased(w)' <=> Holds(step, j)
         /\ job'[w] = j
         /\ \A v \in Workers \ {w} : Leased(v)' = Leased(v) /\ job'[v] = job[v]
  <1>1. WorkTypes'
    BY DEF WorkInv, WorkTypes, Change
  <1>2. /\ pc'[w] = step /\ job'[w] = j /\ stage'[w] = tree
        /\ \A v \in Workers \ {w} : pc'[v] = pc[v] /\ job'[v] = job[v] /\ stage'[v] = stage[v]
    BY DEF WorkInv, WorkTypes, Change
  <1>3. ASSUME NEW v \in Workers PROVE Fits(pc'[v], job'[v], stage'[v])
    BY <1>2 DEF WorkInv, Work
  <1>4. QED
    BY <1>1, <1>2, <1>3 DEF Work, Leased, Holds

\* A move that takes no lease and gives none.
LEMMA LockKept ==
  ASSUME WorkInv, NEW w \in Workers, NEW step \in Steps \cup {"idle"}, NEW j \in {None} \cup Job,
         NEW tree \in Trees, NEW copy \in Trees, Change(w, step, j, tree, copy), Fits(step, j, tree),
         lock' = lock, Holds(step, j) <=> Leased(w), Leased(w) => j.name = job[w].name
  PROVE  WorkInv'
  <1>1. lock' \in [ComposedNames -> Workers \cup {None, Stale}]
    BY DEF WorkInv, WorkTypes
  <1>2. /\ WorkTypes' /\ Work'
        /\ Leased(w)' <=> Holds(step, j)
        /\ job'[w] = j
        /\ \A v \in Workers \ {w} : Leased(v)' = Leased(v) /\ job'[v] = job[v]
    BY <1>1, OneMoves
  <1>3. ASSUME NEW n \in ComposedNames, NEW v \in Workers
        PROVE  lock'[n] = v <=> Leased(v)' /\ job'[v].name = n
    <2>1. lock[n] = v <=> Leased(v) /\ job[v].name = n
      BY DEF WorkInv, LeaseIsExclusive
    <2>2. CASE v = w
      BY <1>2, <2>1, <2>2
    <2>3. CASE v # w
      BY <1>2, <2>1, <2>3
    <2>4. QED
      BY <2>2, <2>3
  <1>4. QED
    BY <1>2, <1>3 DEF WorkInv, LeaseIsExclusive

\* A move that ends a lease, if there was one.
LEMMA LockGiven ==
  ASSUME WorkInv, NEW w \in Workers, Change(w, "idle", None, {}, {}),
         lock' \in [ComposedNames -> Workers \cup {None, Stale}],
         \A n \in ComposedNames : IF lock[n] = w THEN lock'[n] \in {None, Stale} ELSE lock'[n] = lock[n]
  PROVE  WorkInv'
  <1>1. Fits("idle", None, {}) /\ ~Holds("idle", None) /\ {} \in Trees
    BY DEF Fits, Holds, Trees
  <1>2. /\ WorkTypes' /\ Work' /\ ~Leased(w)'
        /\ \A v \in Workers \ {w} : Leased(v)' = Leased(v) /\ job'[v] = job[v]
    BY <1>1, OneMoves
  <1>3. ASSUME NEW n \in ComposedNames, NEW v \in Workers
        PROVE  lock'[n] = v <=> Leased(v)' /\ job'[v].name = n
    <2>1. lock[n] = v <=> Leased(v) /\ job[v].name = n
      BY DEF WorkInv, LeaseIsExclusive
    <2>2. v # None /\ v # Stale
      BY StoreAssumption
    <2>3. CASE v = w
      BY <1>2, <2>2, <2>3
    <2>4. CASE v # w
      BY <1>2, <2>1, <2>2, <2>4
    <2>5. QED
      BY <2>3, <2>4
  <1>4. QED
    BY <1>2, <1>3 DEF WorkInv, LeaseIsExclusive

\* The move that takes a lease.
LEMMA LockTaken ==
  ASSUME WorkInv, NEW w \in Workers, NEW step \in Steps, Change(w, step, job[w], stage[w], scratch[w]),
         Fits(step, job[w], stage[w]), Holds(step, job[w]), ~Leased(w), job[w] \in Job,
         NEW n \in ComposedNames, job[w].name = n, lock[n] = None, lock' = [lock EXCEPT ![n] = w]
  PROVE  WorkInv'
  <1>1. lock' \in [ComposedNames -> Workers \cup {None, Stale}]
    BY DEF WorkInv, WorkTypes
  <1>2. stage[w] \in Trees /\ scratch[w] \in Trees
    BY DEF WorkInv, WorkTypes
  <1>3. /\ WorkTypes' /\ Work' /\ Leased(w)' /\ job'[w] = job[w]
        /\ \A v \in Workers \ {w} : Leased(v)' = Leased(v) /\ job'[v] = job[v]
    BY <1>1, <1>2, OneMoves
  <1>4. ASSUME NEW m \in ComposedNames, NEW v \in Workers
        PROVE  lock'[m] = v <=> Leased(v)' /\ job'[v].name = m
    <2>1. lock[m] = v <=> Leased(v) /\ job[v].name = m
      BY DEF WorkInv, LeaseIsExclusive
    <2>2. lock'[m] = IF m = n THEN w ELSE lock[m]
      BY DEF WorkInv, WorkTypes
    <2>3. v # None
      BY StoreAssumption
    <2>4. CASE v = w
      BY <1>3, <2>1, <2>2, <2>4
    <2>5. CASE v # w
      BY <1>3, <2>1, <2>2, <2>3, <2>5
    <2>6. QED
      BY <2>4, <2>5
  <1>5. QED
    BY <1>3, <1>4 DEF WorkInv, LeaseIsExclusive

(***************************************************************************)
(* Ending a job, on whichever path.                                        *)
(***************************************************************************)
LEMMA GiveKeeps ==
  ASSUME WorkInv, NEW w \in Workers, pc[w] # "idle", NEW ok \in BOOLEAN, Give(w, ok), lock' = lock
  PROVE  WorkInv'
  <1>1. job[w] \in Job /\ Fits(pc[w], job[w], stage[w]) /\ stage[w] \in Trees /\ scratch[w] \in Trees
    BY DEF WorkInv, WorkTypes, Work, Fits
  <1>2. CASE Leased(w)
    <2> DEFINE j == [job[w] EXCEPT !.ok = ok]
    <2>1. Change(w, "release", j, stage[w], scratch[w])
      BY <1>2 DEF Give, Change, WorkInv, WorkTypes
    <2>2. j \in Job /\ j.kind = "composed" /\ j.name = job[w].name /\ j.source = job[w].source
          /\ j.gen = job[w].gen
      BY <1>1, <1>2 DEF Job, Leased
    <2>3. Fits("release", j, stage[w]) /\ Holds("release", j) /\ "release" \in Steps
      <3> HIDE DEF j
      <3>1. QED
        BY <1>1, <1>2, <2>2 DEF Fits, Holds, Leased, Steps, Composing
    <2> HIDE DEF j
    <2>4. QED
      BY <1>1, <1>2, <2>1, <2>2, <2>3, LockKept
  <1>3. CASE ~Leased(w)
    <2>1. Change(w, "idle", None, {}, {})
      BY <1>3 DEF Give, Finish, Change
    <2>2. Fits("idle", None, {}) /\ ~Holds("idle", None) /\ {} \in Trees
      BY DEF Fits, Holds, Trees
    <2>3. QED
      BY <1>3, <2>1, <2>2, LockKept
  <1>4. QED
    BY <1>2, <1>3

LEMMA AdvanceKeeps ==
  ASSUME WorkInv, NEW w \in Workers, NEW step \in Steps, Advance(w, step), lock' = lock,
         Fits(step, job[w], stage[w]), Holds(step, job[w]) <=> Leased(w)
  PROVE  WorkInv'
  <1>1. job[w] \in Job /\ stage[w] \in Trees /\ scratch[w] \in Trees
    BY DEF WorkInv, WorkTypes, Fits, Steps, Composing
  <1>2. Change(w, step, job[w], stage[w], scratch[w])
    BY DEF Advance, Change, WorkInv, WorkTypes
  <1>3. QED
    BY <1>1, <1>2, LockKept

LEMMA PublishedKeeps ==
  ASSUME WorkInv, NEW w \in Workers, pc[w] \in {"check", "rename"}, Published(w), lock' = lock
  PROVE  WorkInv'
  <1>1. job[w] \in Job /\ Fits(pc[w], job[w], stage[w])
    BY DEF WorkInv, Work, Fits
  <1>2. CASE job[w].kind = "artifact"
    <2>1. Fits("meta", job[w], stage[w]) /\ ~Holds("meta", job[w]) /\ ~Leased(w) /\ "meta" \in Steps
      BY <1>1, <1>2 DEF Fits, Holds, Leased, Steps
    <2>2. QED
      BY <1>2, <2>1, AdvanceKeeps DEF Published
  <1>3. CASE job[w].kind # "artifact"
    BY <1>3, GiveKeeps DEF Published
  <1>4. QED
    BY <1>2, <1>3

LEMMA CompareKeeps ==
  ASSUME WorkInv, NEW w \in Workers, pc[w] \in {"check", "rename"}, Compare(w), lock' = lock
  PROVE  WorkInv'
  BY PublishedKeeps, GiveKeeps DEF Compare

-----------------------------------------------------------------------------
(***************************************************************************)
(* The names and the trees.                                                *)
(***************************************************************************)
LEMMA TreesOfConstants ==
  /\ \A s \in Sources : Commit[s] \in Trees
  /\ \A t \in Installs \cup Generated : t \in Trees
  /\ \A r \in Resolutions : r.files \in Trees
  /\ {} \in Trees /\ \A t, u \in Trees : t \cup u \in Trees
  /\ \A t \in Trees : t # None
  <1>1. \A s \in Sources : Commit[s] \in Trees
    BY DEF Trees, Files
  <1>2. \A t \in Installs : t \in Trees
    BY DEF Trees, Files
  <1>3. \A t \in Generated : t \in Trees
    BY DEF Trees, Files
  <1>4. \A r \in Resolutions : r.files \in Trees
    BY DEF Trees, Files
  <1>5. {} \in Trees /\ \A t, u \in Trees : t \cup u \in Trees
    BY DEF Trees
  <1>6. \A t \in Trees : t # None
    BY StoreAssumption
  <1>7. QED
    BY <1>1, <1>2, <1>3, <1>4, <1>5, <1>6

LEMMA NamesOfSources ==
  /\ \A s \in Sources : SourceName(s) \in SnapshotNames /\ ArtifactName(s) \in Names \ SnapshotNames
  /\ \A s \in Sources, h \in Installs : ComposedName(s, h) \in ComposedNames
  /\ ComposedNames \subseteq SnapshotNames /\ SnapshotNames \subseteq Names
  <1>1. \A s \in Sources, h \in Installs : ComposedName(s, h) \in ComposedNames
    BY DEF ComposedNames
  <1>2. ComposedNames \subseteq SnapshotNames /\ SnapshotNames \subseteq Names
    BY DEF SnapshotNames, Names
  <1>3. \A s \in Sources : SourceName(s) \in SnapshotNames /\ ArtifactName(s) \in Names
    BY DEF SnapshotNames, Names
  <1>4. ASSUME NEW n \in SnapshotNames PROVE n[1] # "artifact"
    <2>1. ASSUME NEW s \in Sources, n = SourceName(s) PROVE n[1] # "artifact"
      BY <2>1 DEF SourceName
    <2>2. ASSUME NEW s \in Sources, NEW h \in Installs, n = ComposedName(s, h) PROVE n[1] # "artifact"
      BY <2>2 DEF ComposedName
    <2>3. QED
      BY <2>1, <2>2 DEF SnapshotNames, ComposedNames
  <1>5. \A s \in Sources : ArtifactName(s)[1] = "artifact"
    BY DEF ArtifactName
  <1>6. QED
    BY <1>1, <1>2, <1>3, <1>4, <1>5

\* What is complete under either kind of name.
LEMMA CompleteNames ==
  /\ \A s \in Sources : Complete(SourceName(s)) = {t \in Trees : \E a \in Answers(s) : HoldsSource(t, a)}
  /\ \A s \in Sources, h \in Installs :
        Complete(ComposedName(s, h)) = {t \in Trees : Intact(t, h) /\ \E a \in Answers(s) : a \subseteq t}
  BY DEF Complete, SourceName, ComposedName

-----------------------------------------------------------------------------
(***************************************************************************)
(* The jobs start.                                                         *)
(***************************************************************************)
LEMMA NewJobKeeps ==
  ASSUME WorkInv, NEW w \in Workers, pc[w] = "idle", NEW j \in Job, NEW tree \in Trees,
         NEW step \in {"check", "artifact"}, Begin(w, j, tree, step), lock' = lock,
         Fits(step, j, tree), j.kind = "composed" => step = "artifact"
  PROVE  WorkInv'
  <1>1. scratch[w] \in Trees /\ ~Leased(w) /\ ~Holds(step, j) /\ step \in Steps
    BY DEF WorkInv, WorkTypes, Leased, Holds, Steps, Composing
  <1>2. Change(w, step, j, tree, scratch[w])
    BY DEF Begin, Change, WorkInv, WorkTypes
  <1>3. QED
    BY <1>1, <1>2, LockKept

LEMMA WorkKept == WorkInv /\ UNCHANGED <<lock, work>> => WorkInv'
  BY DEF WorkInv, work, WorkTypes, Work, LeaseIsExclusive, Leased

LEMMA StartPublishKeeps ==
  ASSUME IInv, NEW w \in Workers, NEW r \in Resolutions, StartPublish(w, r)
  PROVE  WorkInv'
  <1> DEFINE j == NewJob("source", r.requested, SourceName(StoreIdentity(r)), r.files, {})
  <1>1. pc[w] = "idle" /\ lock' = lock
    BY DEF StartPublish, Starting
  <1>2. CASE StoreIdentity(r) # None /\ ValidContents(r.files)
    <2>1. StoreIdentity(r) = r.requested /\ r.requested \in Sources /\ r.files \in Trees /\ {} \in Trees
      BY <1>2, StoreAssumption, TreesOfConstants DEF StoreIdentity
    <2>2. j \in Job
      BY <2>1, NamesOfSources, StoreAssumption DEF NewJob, Job
    <2>3. r.files \in Answers(StoreIdentity(r))
      BY DEF Answers
    <2>4. Fits("check", j, {})
      BY <2>1, <2>2, <2>3 DEF Fits, NewJob
    <2>5. Begin(w, j, {}, "check") /\ j.kind = "source"
      BY <1>2 DEF StartPublish, NewJob
    <2> HIDE DEF j
    <2>6. QED
      BY <1>1, <2>1, <2>2, <2>4, <2>5, NewJobKeeps DEF IInv
  <1>3. CASE ~(StoreIdentity(r) # None /\ ValidContents(r.files))
    BY <1>1, <1>3, WorkKept DEF IInv, StartPublish
  <1>4. QED
    BY <1>2, <1>3

LEMMA StartBuildKeeps ==
  ASSUME IInv, NEW w \in Workers, NEW s \in Sources, StartBuild(w, s)
  PROVE  WorkInv'
  <1>1. pc[w] = "idle" /\ lock' = lock
    BY DEF StartBuild, Starting
  <1>2. ASSUME NEW t \in Installs, Begin(w, NewJob("artifact", s, ArtifactName(s), t, {}), t, "check")
        PROVE  WorkInv'
    <2> DEFINE j == NewJob("artifact", s, ArtifactName(s), t, {})
    <2>1. t \in Trees
      BY TreesOfConstants
    <2>2. j \in Job
      BY <2>1, NamesOfSources, StoreAssumption DEF NewJob, Job
    <2>3. Fits("check", j, t) /\ j.kind = "artifact"
      BY <2>2 DEF Fits, NewJob
    <2> HIDE DEF j
    <2>4. QED
      BY <1>1, <1>2, <2>1, <2>2, <2>3, NewJobKeeps DEF IInv, j
  <1>3. CASE UNCHANGED work
    BY <1>1, <1>3, WorkKept DEF IInv
  <1>4. QED
    BY <1>2, <1>3 DEF StartBuild

LEMMA StartComposeKeeps ==
  ASSUME IInv, NEW w \in Workers, NEW s \in Sources, NEW gen \in Generated, StartCompose(w, s, gen)
  PROVE  WorkInv'
  <1>1. pc[w] = "idle" /\ lock' = lock
    BY DEF StartCompose, Starting
  <1> DEFINE j == NewJob("composed", s, ComposedName(s, meta[s]), {}, gen)
             t == dir[SourceName(s)]
  <1>2. ASSUME meta[s] \in Installs, t # None, ~SharePath(t, gen), Begin(w, j, t, "artifact")
        PROVE  WorkInv'
    <2>1. t \in Trees /\ {} \in Trees
      BY <1>2, NamesOfSources, TreesOfConstants DEF IInv, StoreTypes
    <2>2. j \in Job
      BY <1>2, <2>1, NamesOfSources, StoreAssumption DEF NewJob, Job
    <2>3. PICK a \in Answers(s) : a \subseteq t
      BY <1>2, NamesOfSources, CompleteNames DEF IInv, StoreComplete, HoldsSource
    <2>4. /\ j.kind = "composed" /\ j.source = s /\ j.gen = gen
          /\ j.name = ComposedName(s, meta[s])
      BY DEF NewJob
    <2> HIDE DEF j, t
    <2>5. Fits("artifact", j, t)
      BY <1>2, <2>2, <2>3, <2>4 DEF Fits, Composing
    <2>6. QED
      BY <1>1, <1>2, <2>1, <2>2, <2>5, NewJobKeeps DEF IInv
  <1>3. CASE UNCHANGED work
    BY <1>1, <1>3, WorkKept DEF IInv
  <1>4. QED
    BY <1>2, <1>3 DEF StartCompose, Trusted, Free

-----------------------------------------------------------------------------
(***************************************************************************)
(* The steps of a job.                                                     *)
(***************************************************************************)
LEMMA CheckExistingKeeps ==
  ASSUME WorkInv, NEW w \in Workers, CheckExisting(w)
  PROVE  WorkInv'
  <1>1. pc[w] = "check" /\ lock' = lock /\ job[w] \in Job /\ Fits(pc[w], job[w], stage[w])
    BY DEF CheckExisting, WorkInv, Work, Fits
  <1>2. CASE Advance(w, "rename")
    <2>1. Fits("rename", job[w], stage[w]) /\ (Holds("rename", job[w]) <=> Leased(w)) /\ "rename" \in Steps
      BY <1>1 DEF Fits, Holds, Leased, Steps
    <2>2. QED
      BY <1>1, <1>2, <2>1, AdvanceKeeps
  <1>3. CASE Compare(w)
    BY <1>1, <1>3, CompareKeeps
  <1>4. QED
    BY <1>2, <1>3 DEF CheckExisting

LEMMA WriteFileKeeps ==
  ASSUME WorkInv, NEW w \in Workers, WriteFile(w)
  PROVE  WorkInv'
  <1>1. /\ pc[w] = "rename" /\ lock' = lock /\ job[w].kind = "source"
        /\ job[w] \in Job /\ Fits(pc[w], job[w], stage[w])
        /\ stage[w] \in Trees /\ scratch[w] \in Trees /\ job[w].files \in Trees
    BY DEF WriteFile, WorkInv, WorkTypes, Work, Fits, Job
  <1>2. PICK f \in job[w].files \ stage[w] : stage' = [stage EXCEPT ![w] = stage[w] \cup {f}]
    BY DEF WriteFile
  <1> DEFINE tree == stage[w] \cup {f}
  <1>3. tree \in Trees
    BY <1>1 DEF Trees
  <1>4. Change(w, "rename", job[w], tree, scratch[w])
    BY <1>1, <1>2 DEF WriteFile, Change, WorkInv, WorkTypes
  <1> HIDE DEF tree
  <1>5. Fits("rename", job[w], tree) /\ ~Holds("rename", job[w]) /\ ~Leased(w) /\ "rename" \in Steps
    BY <1>1 DEF Fits, Holds, Leased, Steps
  <1>6. QED
    BY <1>1, <1>3, <1>4, <1>5, LockKept

LEMMA RenameKeeps ==
  ASSUME WorkInv, NEW w \in Workers, Rename(w)
  PROVE  WorkInv'
  BY PublishedKeeps, CompareKeeps DEF Rename

LEMMA WriteMetaKeeps ==
  ASSUME WorkInv, NEW w \in Workers, WriteMeta(w)
  PROVE  WorkInv'
  <1>1. Change(w, "idle", None, {}, {}) /\ lock' = lock /\ ~Leased(w)
    BY DEF WriteMeta, Finish, Change, Leased
  <1>2. Fits("idle", None, {}) /\ ~Holds("idle", None) /\ {} \in Trees
    BY DEF Fits, Holds, Trees
  <1>3. QED
    BY <1>1, <1>2, LockKept

LEMMA CheckArtifactKeeps ==
  ASSUME WorkInv, NEW w \in Workers, CheckArtifact(w)
  PROVE  WorkInv'
  <1>1. pc[w] = "artifact" /\ lock' = lock /\ job[w] \in Job /\ Fits(pc[w], job[w], stage[w])
    BY DEF CheckArtifact, WorkInv, Work, Fits
  <1>2. CASE Advance(w, "copy")
    <2>1. Fits("copy", job[w], stage[w]) /\ ~Holds("copy", job[w]) /\ ~Leased(w) /\ "copy" \in Steps
      BY <1>1 DEF Fits, Holds, Leased, Steps, Composing
    <2>2. QED
      BY <1>1, <1>2, <2>1, AdvanceKeeps
  <1>3. CASE Give(w, FALSE)
    BY <1>1, <1>3, GiveKeeps
  <1>4. QED
    BY <1>2, <1>3 DEF CheckArtifact

LEMMA CopyFileKeeps ==
  ASSUME IInv, NEW w \in Workers, CopyFile(w)
  PROVE  WorkInv'
  <1> DEFINE from == dir[ArtifactName(job[w].source)]
  <1>1. /\ pc[w] = "copy" /\ lock' = lock /\ job[w] \in Job /\ Fits(pc[w], job[w], stage[w])
        /\ stage[w] \in Trees /\ scratch[w] \in Trees
    BY DEF CopyFile, IInv, WorkInv, WorkTypes, Work, Fits
  <1>2. CASE from = None
    BY <1>1, <1>2, GiveKeeps DEF CopyFile, IInv
  <1>3. CASE from # None
    <2>1. PICK p \in job[w].left :
            /\ scratch' = [scratch EXCEPT ![w] = scratch[w] \cup Part(from, {p})]
            /\ job' = [job EXCEPT ![w].left = job[w].left \ {p}]
            /\ UNCHANGED <<pc, stage, reported>>
      BY <1>3 DEF CopyFile
    <2> DEFINE j == [job[w] EXCEPT !.left = job[w].left \ {p}]
               copy == scratch[w] \cup Part(from, {p})
    <2>2. Change(w, "copy", j, stage[w], copy)
      BY <1>1, <2>1 DEF Change, IInv, WorkInv, WorkTypes
    <2>3. /\ j \in Job /\ j.kind = job[w].kind /\ j.name = job[w].name /\ j.source = job[w].source
          /\ j.gen = job[w].gen /\ j.files = job[w].files
      BY <1>1 DEF Job
    <2>4. copy \in Trees
      <3>1. job[w].source \in Sources
        BY <1>1 DEF Job
      <3>2. from \in Trees
        BY <1>3, <3>1, NamesOfSources DEF IInv, StoreTypes
      <3>3. QED
        BY <1>1, <3>2 DEF Part, Trees
    <2> HIDE DEF j, copy, from
    <2>5. Fits("copy", j, stage[w]) /\ ~Holds("copy", j) /\ ~Leased(w) /\ "copy" \in Steps
      BY <1>1, <2>3 DEF Fits, Holds, Leased, Steps, Composing
    <2>6. QED
      BY <1>1, <2>2, <2>3, <2>4, <2>5, LockKept DEF IInv
  <1>4. QED
    BY <1>2, <1>3

LEMMA TransferKeeps ==
  ASSUME WorkInv, NEW w \in Workers, Transfer(w)
  PROVE  WorkInv'
  <1>1. /\ pc[w] = "copy" /\ lock' = lock /\ job[w] \in Job /\ Fits(pc[w], job[w], stage[w])
        /\ job[w].kind = "composed"
        /\ stage[w] \in Trees /\ scratch[w] \in Trees /\ {} \in Trees
    BY DEF Transfer, WorkInv, WorkTypes, Work, Fits, Job, Trees
  <1>2. CASE Give(w, FALSE)
    BY <1>1, <1>2, GiveKeeps
  <1>3. CASE /\ stage' = [stage EXCEPT ![w] = Materialized(w)]
             /\ scratch' = [scratch EXCEPT ![w] = {}]
             /\ pc' = [pc EXCEPT ![w] = "lease"]
             /\ UNCHANGED <<job, reported>>
    <2> DEFINE tree == Materialized(w)
    <2>1. Change(w, "lease", job[w], tree, {})
      BY <1>3 DEF Change, WorkInv, WorkTypes
    <2>2. tree \in Trees
      BY <1>1, TreesOfConstants DEF Materialized, Overlay, Trees, Job
    <2>3. PICK a \in Answers(job[w].source) : a \subseteq stage[w]
      BY <1>1 DEF Fits
    <2>4. a \subseteq tree
      BY <1>1, <2>3 DEF Fits, SharePath, Materialized, Overlay
    <2> HIDE DEF tree
    <2>5. Fits("lease", job[w], tree) /\ ~Holds("lease", job[w]) /\ ~Leased(w) /\ "lease" \in Steps
      BY <1>1, <2>3, <2>4 DEF Fits, Holds, Leased, Steps, Composing
    <2>6. QED
      BY <1>1, <2>1, <2>2, <2>5, LockKept
  <1>4. QED
    BY <1>2, <1>3 DEF Transfer

LEMMA AcquireKeeps ==
  ASSUME WorkInv, NEW w \in Workers, Acquire(w)
  PROVE  WorkInv'
  <1>1. /\ pc[w] = "lease" /\ lock[job[w].name] = None /\ Advance(w, "verify")
        /\ lock' = [lock EXCEPT ![job[w].name] = w]
        /\ job[w] \in Job /\ Fits(pc[w], job[w], stage[w])
    BY DEF Acquire, WorkInv, Work, Fits
  <1>2. job[w].kind = "composed" /\ job[w].name \in ComposedNames
    <2>1. job[w].kind = "composed" /\ job[w].source \in Sources
      BY <1>1 DEF Fits, Job
    <2>2. PICK h \in Installs : job[w].name = ComposedName(job[w].source, h)
      BY <1>1, <2>1 DEF Fits
    <2>3. QED
      BY <2>1, <2>2, NamesOfSources
  <1>3. Change(w, "verify", job[w], stage[w], scratch[w])
    BY <1>1 DEF Advance, Change, WorkInv, WorkTypes
  <1>4. /\ Fits("verify", job[w], stage[w]) /\ Holds("verify", job[w]) /\ ~Leased(w)
        /\ "verify" \in Steps
    BY <1>1, <1>2 DEF Fits, Holds, Leased, Steps, Composing
  <1>5. QED
    BY <1>1, <1>2, <1>3, <1>4, LockTaken

LEMMA VerifyKeeps ==
  ASSUME WorkInv, NEW w \in Workers, Verify(w)
  PROVE  WorkInv'
  <1>1. /\ pc[w] = "verify" /\ lock' = lock /\ job[w] \in Job /\ Fits(pc[w], job[w], stage[w])
        /\ job[w].kind = "composed"
    BY DEF Verify, WorkInv, Work, Fits, Job
  <1>2. CASE Intact(stage[w], job[w].name[3]) /\ Advance(w, "check")
    <2>1. Fits("check", job[w], stage[w]) /\ Holds("check", job[w]) /\ Leased(w) /\ "check" \in Steps
      BY <1>1, <1>2 DEF Fits, Holds, Leased, Steps
    <2>2. QED
      BY <1>1, <1>2, <2>1, AdvanceKeeps
  <1>3. CASE Give(w, FALSE)
    BY <1>1, <1>3, GiveKeeps
  <1>4. QED
    BY <1>2, <1>3 DEF Verify

LEMMA ReleaseKeeps ==
  ASSUME WorkInv, NEW w \in Workers, Release(w)
  PROVE  WorkInv'
  <1>1. pc[w] = "release" /\ job[w] \in Job /\ Fits(pc[w], job[w], stage[w])
    BY DEF Release, WorkInv, Work, Fits
  <1>2. Leased(w) /\ job[w].source \in Sources
    BY <1>1 DEF Fits, Job, Leased
  <1>3. PICK h \in Installs : job[w].name = ComposedName(job[w].source, h)
    BY <1>1, <1>2 DEF Fits, Leased
  <1>4. job[w].name \in ComposedNames
    BY <1>2, <1>3, NamesOfSources
  <1>5. PICK left \in {None, Stale} : lock' = [lock EXCEPT ![job[w].name] = left]
    BY DEF Release, Unlocked
  <1>6. ASSUME NEW n \in ComposedNames
        PROVE  IF lock[n] = w THEN lock'[n] \in {None, Stale} ELSE lock'[n] = lock[n]
    <2>1. lock[n] = w <=> n = job[w].name
      BY <1>2 DEF WorkInv, LeaseIsExclusive
    <2>2. QED
      BY <1>4, <1>5, <2>1 DEF WorkInv, WorkTypes
  <1>7. lock' \in [ComposedNames -> Workers \cup {None, Stale}]
    BY <1>4, <1>5 DEF WorkInv, WorkTypes
  <1>8. Change(w, "idle", None, {}, {})
    BY DEF Release, Finish, Change
  <1>9. QED
    BY <1>6, <1>7, <1>8, LockGiven

LEMMA CrashKeeps ==
  ASSUME WorkInv, NEW w \in Workers, Crash(w)
  PROVE  WorkInv'
  <1>1. Change(w, "idle", None, {}, {})
    BY DEF Crash, Change
  <1>2. /\ lock' \in [ComposedNames -> Workers \cup {None, Stale}]
        /\ \A n \in ComposedNames : IF lock[n] = w THEN lock'[n] \in {None, Stale} ELSE lock'[n] = lock[n]
    BY DEF Crash, WorkInv, WorkTypes
  <1>3. QED
    BY <1>1, <1>2, LockGiven

-----------------------------------------------------------------------------
(***************************************************************************)
(* A step, and what it does to the store.                                  *)
(***************************************************************************)
LEMMA NextWork == IInv /\ [Next]_vars => WorkInv'
  <1> SUFFICES ASSUME IInv, [Next]_vars PROVE WorkInv'
    OBVIOUS
  <1>1. WorkInv
    BY DEF IInv
  <1>2. ASSUME NEW w \in Workers, Step(w) PROVE WorkInv'
    <2>1. ASSUME GiveUpLease(w) PROVE WorkInv'
      BY <1>1, <2>1, GiveKeeps DEF GiveUpLease
    <2>2. QED
      BY <1>1, <1>2, <2>1, CheckExistingKeeps, WriteFileKeeps, RenameKeeps, WriteMetaKeeps,
         CheckArtifactKeeps, CopyFileKeeps, TransferKeeps, AcquireKeeps, VerifyKeeps, ReleaseKeeps
         DEF Step
  <1>3. ASSUME NEW w \in Workers, IOError(w) PROVE WorkInv'
    BY <1>1, <1>3, GiveKeeps DEF IOError, Steps, Composing
  <1>4. ASSUME NEW s \in Sources, Disturb(s) PROVE WorkInv'
    BY <1>1, <1>4, WorkKept DEF Disturb
  <1>5. CASE UNCHANGED vars
    BY <1>1, <1>5, WorkKept DEF vars
  <1>6. QED
    BY <1>1, <1>2, <1>3, <1>4, <1>5, StartPublishKeeps, StartBuildKeeps, StartComposeKeeps, CrashKeeps
       DEF Next

\* Only a rename writes the store, and it writes a complete tree where none was.
Writes(n) ==
    /\ dir[n] = None
    /\ dir' = [dir EXCEPT ![n] = dir'[n]]
    /\ dir'[n] \in Trees
    /\ n \in SnapshotNames => dir'[n] \in Complete(n)

Replaces(s) ==
    /\ \E t \in Trees \cup {None} : dir' = [dir EXCEPT ![ArtifactName(s)] = t]
    /\ s \in disturbed'

LEMMA RenameWrites ==
  ASSUME IInv, NEW w \in Workers, Rename(w), dir' # dir
  PROVE  job[w].name \in Names /\ Writes(job[w].name)
  <1>1. /\ pc[w] = "rename" /\ Staged(w) /\ job[w] \in Job /\ Fits(pc[w], job[w], stage[w])
        /\ dir[job[w].name] = None /\ dir' = [dir EXCEPT ![job[w].name] = stage[w]]
        /\ stage[w] \in Trees
    BY DEF Rename, Free, IInv, WorkInv, WorkTypes, Work, Fits
  <1>2. job[w].name \in Names /\ job[w].source \in Sources /\ job[w].kind \in {"source", "artifact", "composed"}
    BY <1>1 DEF Job
  <1>3. dir'[job[w].name] = stage[w]
    BY <1>1, <1>2 DEF IInv, StoreTypes
  <1>4. ASSUME job[w].name \in SnapshotNames PROVE stage[w] \in Complete(job[w].name)
    <2>1. CASE job[w].kind = "source"
      <3>1. stage[w] = job[w].files
        BY <1>1, <2>1 DEF Staged
      <3>2. job[w].name = SourceName(job[w].source) /\ job[w].files \in Answers(job[w].source)
        BY <1>1, <2>1 DEF Fits
      <3>3. HoldsSource(stage[w], stage[w])
        BY DEF HoldsSource, Part
      <3>4. QED
        BY <1>1, <1>2, <3>1, <3>2, <3>3, CompleteNames
    <2>2. CASE job[w].kind = "artifact"
      BY <1>1, <1>2, <1>4, <2>2, NamesOfSources DEF Fits
    <2>3. CASE job[w].kind = "composed"
      <3>1. PICK h \in Installs : job[w].name = ComposedName(job[w].source, h)
        BY <1>1, <2>3 DEF Fits
      <3>2. job[w].name[3] = h
        BY <3>1 DEF ComposedName
      <3>3. Intact(stage[w], h) /\ \E a \in Answers(job[w].source) : a \subseteq stage[w]
        BY <1>1, <2>3, <3>2 DEF Fits
      <3>4. QED
        BY <1>1, <1>2, <3>1, <3>3, CompleteNames
    <2>4. QED
      BY <1>2, <2>1, <2>2, <2>3
  <1>5. QED
    BY <1>1, <1>2, <1>3, <1>4 DEF Writes

LEMMA NextDir ==
  ASSUME IInv, [Next]_vars
  PROVE  \/ UNCHANGED dir
         \/ \E n \in Names : Writes(n)
         \/ \E s \in Sources : Replaces(s)
  <1>1. ASSUME NEW w \in Workers, Step(w), ~UNCHANGED dir PROVE \E n \in Names : Writes(n)
    <2>1. Rename(w)
      BY <1>1 DEF Step, CheckExisting, WriteFile, WriteMeta, CheckArtifact, CopyFile, Transfer,
                  Acquire, GiveUpLease, Verify, Release
    <2>2. QED
      BY <1>1, <2>1, RenameWrites
  <1>2. ASSUME NEW s \in Sources, Disturb(s) PROVE Replaces(s)
    BY <1>2, TreesOfConstants DEF Disturb, Replaces
  <1>3. ASSUME NEW w \in Workers,
               \/ \E r \in Resolutions : StartPublish(w, r)
               \/ \E s \in Sources : StartBuild(w, s)
               \/ \E s \in Sources, gen \in Generated : StartCompose(w, s, gen)
               \/ IOError(w) \/ Crash(w)
        PROVE  UNCHANGED dir
    BY <1>3 DEF StartPublish, StartBuild, StartCompose, Starting, IOError, Crash
  <1>4. CASE UNCHANGED vars
    BY <1>4 DEF vars
  <1>5. QED
    BY <1>1, <1>2, <1>3, <1>4 DEF Next

LEMMA NextStore == IInv /\ [Next]_vars => StoreTypes' /\ StoreComplete'
  <1> SUFFICES ASSUME IInv, [Next]_vars PROVE StoreTypes' /\ StoreComplete'
    OBVIOUS
  <1>1. CASE UNCHANGED dir
    BY <1>1 DEF IInv, StoreTypes, StoreComplete
  <1>2. ASSUME NEW n \in Names, Writes(n) PROVE StoreTypes' /\ StoreComplete'
    BY <1>2, NamesOfSources DEF IInv, StoreTypes, StoreComplete, Writes
  <1>3. ASSUME NEW s \in Sources, Replaces(s) PROVE StoreTypes' /\ StoreComplete'
    BY <1>3, NamesOfSources DEF IInv, StoreTypes, StoreComplete, Replaces
  <1>4. QED
    BY <1>1, <1>2, <1>3, NextDir

LEMMA InitInv == Init => IInv
  <1> SUFFICES ASSUME Init PROVE IInv
    OBVIOUS
  <1>1. PICK src \in [Used -> {None, {}} \cup Earlier], art \in [Used -> {None} \cup Installs] :
          dir = [n \in Names |->
                   IF n[2] \notin Used THEN None
                   ELSE IF n[1] = "source" /\ src[n[2]] # None THEN Commit[n[2]] \cup src[n[2]]
                   ELSE IF n[1] = "artifact" THEN art[n[2]] ELSE None]
    BY DEF Init
  <1>2. ASSUME NEW n \in Names PROVE dir[n] \in {None} \cup Trees
    BY <1>1, TreesOfConstants, StoreAssumption
  <1>3. StoreTypes
    BY <1>1, <1>2 DEF StoreTypes
  <1>4. ASSUME NEW n \in SnapshotNames, dir[n] # None PROVE dir[n] \in Complete(n)
    <2>1. ASSUME NEW s \in Sources, n = SourceName(s) PROVE dir[n] \in Complete(n)
      <3>1. n \in Names /\ n[1] = "source" /\ n[2] = s
        BY <2>1, NamesOfSources DEF SourceName
      <3>2. s \in Used /\ src[s] # None /\ dir[n] = Commit[s] \cup src[s]
        BY <1>1, <1>4, <3>1
      <3>3. src[s] = Part(src[s], DepPaths)
        BY <3>2, StoreAssumption DEF Part
      <3>4. HoldsSource(dir[n], Commit[s])
        BY <3>2, <3>3 DEF HoldsSource, Part
      <3>5. Commit[s] \in Answers(s) /\ dir[n] \in Trees
        BY <1>2, <1>4, <3>1 DEF Answers
      <3>6. QED
        BY <2>1, <3>4, <3>5, CompleteNames
    <2>2. ASSUME NEW s \in Sources, NEW h \in Installs, n = ComposedName(s, h) PROVE FALSE
      <3>1. n \in Names /\ n[1] = "composed"
        BY <2>2, NamesOfSources DEF ComposedName
      <3>2. QED
        BY <1>1, <1>4, <3>1
    <2>3. QED
      BY <2>1, <2>2 DEF SnapshotNames, ComposedNames
  <1>5. WorkInv
    <2>1. /\ lock = [n \in ComposedNames |-> None] /\ pc = [w \in Workers |-> "idle"]
          /\ job = [w \in Workers |-> None] /\ stage = [w \in Workers |-> {}]
          /\ scratch = [w \in Workers |-> {}]
      BY DEF Init
    <2>2. WorkTypes
      BY <2>1, TreesOfConstants DEF WorkTypes
    <2>3. Work
      BY <2>1 DEF Work, Fits
    <2>4. LeaseIsExclusive
      BY <2>1, StoreAssumption DEF LeaseIsExclusive, Leased
    <2>5. QED
      BY <2>2, <2>3, <2>4 DEF WorkInv
  <1>6. QED
    BY <1>3, <1>4, <1>5 DEF IInv, StoreComplete

-----------------------------------------------------------------------------
(***************************************************************************)
(* The theorems.                                                           *)
(***************************************************************************)

\* The inductive invariant: every snapshot is complete, every job fits its staging
\* tree, and each lock belongs to the one worker inside its interval.
THEOREM InductiveInvariant == Spec => []IInv
  <1>1. Init => IInv
    BY InitInv
  <1>2. IInv /\ [Next]_vars => IInv'
    BY NextWork, NextStore DEF IInv
  <1>3. QED
    BY <1>1, <1>2, PTL DEF Spec

\* Two workers never compose one identity at a time, and no worker removes the
\* lock of another: acquireCompositionLease and its finally
\* (snapshot-composition.ts:146-172, 488-524).
THEOREM LeasesAreExclusive == Spec => []LeaseIsExclusive
  <1>1. IInv => LeaseIsExclusive
    BY DEF IInv, WorkInv
  <1>2. QED
    BY <1>1, InductiveInvariant, PTL

\* A step of the store maps to a step of the write-once store, or to none: a
\* rename puts one complete tree where there was none, and a payload changed in
\* place is no snapshot.
LEMMA StepRefines == IInv /\ [Next]_vars => [Store!Next]_Stored
  <1> SUFFICES ASSUME IInv, [Next]_vars PROVE Store!Next \/ UNCHANGED Stored
    OBVIOUS
  <1>1. CASE UNCHANGED dir
    BY <1>1 DEF Stored
  <1>2. ASSUME NEW s \in Sources, Replaces(s) PROVE UNCHANGED Stored
    <2>1. ASSUME NEW n \in SnapshotNames PROVE dir'[n] = dir[n]
      BY <1>2, NamesOfSources DEF Replaces, IInv, StoreTypes
    <2>2. QED
      BY <2>1 DEF Stored
  <1>3. ASSUME NEW n \in Names \ SnapshotNames, Writes(n) PROVE UNCHANGED Stored
    <2>1. ASSUME NEW m \in SnapshotNames PROVE dir'[m] = dir[m]
      BY <1>3, NamesOfSources DEF Writes, IInv, StoreTypes
    <2>2. QED
      BY <2>1 DEF Stored
  <1>4. ASSUME NEW n \in SnapshotNames, Writes(n) PROVE Store!Put(n)
    <2>1. Stored[n] = None /\ Stored'[n] = dir'[n]
      BY <1>4 DEF Stored, Writes
    <2>2. Stored'[n] # None /\ Stored'[n] \in Complete(n)
      BY <1>4, <2>1, TreesOfConstants DEF Writes
    <2>3. ASSUME NEW m \in SnapshotNames PROVE dir'[m] = IF m = n THEN dir'[n] ELSE dir[m]
      BY <1>4, NamesOfSources DEF Writes, IInv, StoreTypes
    <2>4. Stored' = [Stored EXCEPT ![n] = Stored'[n]]
      BY <2>1, <2>3 DEF Stored
    <2>5. QED
      BY <2>1, <2>2, <2>4 DEF Store!Put
  <1>5. QED
    BY <1>1, <1>2, <1>3, <1>4, NextDir DEF Store!Next

\* The snapshot store implements the write-once store of complete trees: what a
\* sandbox may be given is never partial, replaced or removed, whatever jobs
\* race, fail or crash (snapshot-store-publisher.ts:379-404,
\* snapshot-composition.ts:49-59).
THEOREM ImplementsWriteOnce == Spec => WriteOnce
  <1>1. IInv => Store!Init
    <2>1. Stored = [n \in SnapshotNames |-> Stored[n]]
      BY DEF Stored
    <2>2. QED
      BY <2>1 DEF IInv, StoreComplete, Stored, Store!Init
  <1>2. IInv /\ [Next]_vars => [Store!Next]_Stored
    BY StepRefines
  <1>3. QED
    BY <1>1, <1>2, InductiveInvariant, PTL DEF Spec, WriteOnce, Store!Spec

-----------------------------------------------------------------------------
(***************************************************************************)
(* What one name says of another: a composition of its source, metadata of *)
(* its artifact, a report of what is stored.                               *)
(***************************************************************************)

\* In store d, where the artifacts of x were changed in place, a job rests on what
\* it read and on what it has published.
Backed(d, x, step, j, tree) ==
    /\ step # "idle" /\ j.kind = "composed" =>
         d[SourceName(j.source)] # None /\ d[SourceName(j.source)] \subseteq tree
    /\ step = "release" /\ j.ok => d[j.name] # None /\ tree \subseteq d[j.name]
    /\ step = "meta" /\ j.source \notin x => d[ArtifactName(j.source)] = tree

AllBacked == \A w \in Workers : Backed(dir, disturbed, pc[w], job[w], stage[w])

Reports == (\A r \in reported : r.name \in Names) /\ ReportedIsStored

Metadata == meta \in [Sources -> {None, Malformed} \cup Trees] /\ MetadataIsOfArtifact

Relations == AllBacked /\ Reports /\ Metadata /\ ComposedIsTrusted

\* Only a rename makes a snapshot appear, and nothing makes it go.
LEMMA Appears ==
  ASSUME IInv, [Next]_vars, NEW n \in SnapshotNames, dir'[n] # dir[n]
  PROVE  \E w \in Workers : Rename(w) /\ n = job[w].name /\ dir[n] = None /\ dir'[n] = stage[w]
  <1>1. dir \in [Names -> {None} \cup Trees] /\ n \in Names
    BY NamesOfSources DEF IInv, StoreTypes
  <1>2. ASSUME NEW w \in Workers, Step(w)
        PROVE  Rename(w) /\ n = job[w].name /\ dir[n] = None /\ dir'[n] = stage[w]
    <2>1. Rename(w)
      BY <1>2 DEF Step, CheckExisting, WriteFile, WriteMeta, CheckArtifact, CopyFile, Transfer,
                  Acquire, GiveUpLease, Verify, Release
    <2>2. Free(job[w].name) /\ dir' = [dir EXCEPT ![job[w].name] = stage[w]]
      BY <2>1 DEF Rename
    <2>3. QED
      BY <1>1, <2>1, <2>2 DEF Free
  <1>3. ASSUME NEW s \in Sources, Disturb(s) PROVE FALSE
    <2>1. PICK t \in Installs \cup {None} : dir' = [dir EXCEPT ![ArtifactName(s)] = t]
      BY <1>3 DEF Disturb
    <2>2. QED
      BY <1>1, <2>1, NamesOfSources
  <1>4. ASSUME NEW w \in Workers,
               \/ \E r \in Resolutions : StartPublish(w, r)
               \/ \E s \in Sources : StartBuild(w, s)
               \/ \E s \in Sources, gen \in Generated : StartCompose(w, s, gen)
               \/ IOError(w) \/ Crash(w)
        PROVE  FALSE
    BY <1>4 DEF StartPublish, StartBuild, StartCompose, Starting, IOError, Crash
  <1>5. CASE UNCHANGED vars
    BY <1>5 DEF vars
  <1>6. QED
    BY <1>2, <1>3, <1>4, <1>5 DEF Next

LEMMA DisturbedGrows == [Next]_vars => disturbed \subseteq disturbed'
  <1> SUFFICES ASSUME [Next]_vars PROVE disturbed \subseteq disturbed'
    OBVIOUS
  <1>1. ASSUME NEW w \in Workers, Step(w) PROVE UNCHANGED disturbed
    BY <1>1 DEF Step, CheckExisting, WriteFile, Rename, WriteMeta, CheckArtifact, CopyFile, Transfer,
                Acquire, GiveUpLease, Verify, Release, counts
  <1>2. ASSUME NEW s \in Sources, Disturb(s) PROVE disturbed \subseteq disturbed'
    BY <1>2 DEF Disturb
  <1>3. ASSUME NEW w \in Workers,
               \/ \E r \in Resolutions : StartPublish(w, r)
               \/ \E s \in Sources : StartBuild(w, s)
               \/ \E s \in Sources, gen \in Generated : StartCompose(w, s, gen)
               \/ IOError(w) \/ Crash(w)
        PROVE  UNCHANGED disturbed
    BY <1>3 DEF StartPublish, StartBuild, StartCompose, Starting, IOError, Crash, counts
  <1>4. CASE UNCHANGED vars
    BY <1>4 DEF vars, counts
  <1>5. QED
    BY <1>1, <1>2, <1>3, <1>4 DEF Next

LEMMA Stays ==
  ASSUME IInv, [Next]_vars
  PROVE  /\ \A n \in SnapshotNames : dir[n] # None => dir'[n] = dir[n]
         /\ \A s \in Sources : s \notin disturbed' /\ dir[ArtifactName(s)] # None =>
               s \notin disturbed /\ dir'[ArtifactName(s)] = dir[ArtifactName(s)]
  <1>1. \A n \in SnapshotNames : dir[n] # None => dir'[n] = dir[n]
    BY Appears
  <1>2. ASSUME NEW s \in Sources, s \notin disturbed', dir[ArtifactName(s)] # None
        PROVE  s \notin disturbed /\ dir'[ArtifactName(s)] = dir[ArtifactName(s)]
    <2>1. ArtifactName(s) \in Names /\ dir \in [Names -> {None} \cup Trees]
      BY NamesOfSources DEF IInv, StoreTypes
    <2>2. ASSUME NEW n \in Names, Writes(n) PROVE dir'[ArtifactName(s)] = dir[ArtifactName(s)]
      BY <1>2, <2>1, <2>2 DEF Writes
    <2>3. ASSUME NEW r \in Sources, Replaces(r) PROVE dir'[ArtifactName(s)] = dir[ArtifactName(s)]
      <3>1. r # s
        BY <1>2, <2>3 DEF Replaces
      <3>2. ArtifactName(r) # ArtifactName(s)
        BY <3>1 DEF ArtifactName
      <3>3. QED
        BY <2>1, <2>3, <3>2 DEF Replaces
    <2>4. QED
      BY <1>2, <2>2, <2>3, NextDir, DisturbedGrows
  <1>3. QED
    BY <1>1, <1>2

\* What backs a job goes on backing it.
LEMMA BackedStays ==
  ASSUME IInv, [Next]_vars, NEW step, NEW j, NEW tree \in Trees, Fits(step, j, tree),
         Backed(dir, disturbed, step, j, tree)
  PROVE  Backed(dir', disturbed', step, j, tree)
  <1>1. CASE step = "idle"
    BY <1>1 DEF Backed
  <1>2. CASE step # "idle"
    <2>1. j \in Job /\ j.source \in Sources /\ j.name \in Names
      BY <1>2 DEF Fits, Job
    <2>2. step # "idle" /\ j.kind = "composed" =>
            dir'[SourceName(j.source)] # None /\ dir'[SourceName(j.source)] \subseteq tree
      BY <2>1, Stays, NamesOfSources DEF Backed
    <2>3. step = "release" /\ j.ok => dir'[j.name] # None /\ tree \subseteq dir'[j.name]
      <3>1. step = "release" => j.name \in SnapshotNames
        <4>1. step = "release" => j.kind = "composed"
          BY <2>1 DEF Fits, Job
        <4>2. QED
          BY <2>1, <4>1, <1>2, NamesOfSources DEF Fits
      <3>2. QED
        BY <3>1, Stays DEF Backed
    <2>4. step = "meta" /\ j.source \notin disturbed' => dir'[ArtifactName(j.source)] = tree
      BY <2>1, Stays, DisturbedGrows, TreesOfConstants DEF Backed
    <2>5. QED
      BY <2>2, <2>3, <2>4 DEF Backed
  <1>3. QED
    BY <1>1, <1>2

LEMMA OneBacked ==
  ASSUME IInv, [Next]_vars, AllBacked, NEW w \in Workers, NEW step, NEW j, NEW tree, NEW copy,
         Change(w, step, j, tree, copy), Backed(dir', disturbed', step, j, tree)
  PROVE  AllBacked'
  <1>1. /\ pc'[w] = step /\ job'[w] = j /\ stage'[w] = tree
        /\ \A v \in Workers \ {w} : pc'[v] = pc[v] /\ job'[v] = job[v] /\ stage'[v] = stage[v]
    BY DEF IInv, WorkInv, WorkTypes, Change
  <1>2. ASSUME NEW v \in Workers \ {w} PROVE Backed(dir', disturbed', pc'[v], job'[v], stage'[v])
    <2>1. /\ stage[v] \in Trees /\ Fits(pc[v], job[v], stage[v])
          /\ Backed(dir, disturbed, pc[v], job[v], stage[v])
      BY DEF IInv, WorkInv, WorkTypes, Work, AllBacked
    <2>2. Backed(dir', disturbed', pc[v], job[v], stage[v])
      BY <2>1, BackedStays
    <2>3. QED
      BY <1>1, <2>2
  <1>3. QED
    BY <1>1, <1>2 DEF AllBacked

LEMMA NoneMoves == IInv /\ [Next]_vars /\ AllBacked /\ UNCHANGED work => AllBacked'
  <1> SUFFICES ASSUME IInv, [Next]_vars, AllBacked, UNCHANGED work, NEW v \in Workers
               PROVE  Backed(dir', disturbed', pc'[v], job'[v], stage'[v])
    BY DEF AllBacked
  <1>1. /\ stage[v] \in Trees /\ Fits(pc[v], job[v], stage[v])
        /\ Backed(dir, disturbed, pc[v], job[v], stage[v])
    BY DEF IInv, WorkInv, WorkTypes, Work, AllBacked
  <1>2. Backed(dir', disturbed', pc[v], job[v], stage[v])
    BY <1>1, BackedStays
  <1>3. QED
    BY <1>2 DEF work

\* What was reported, and what w would report now.
Stands(w) ==
    /\ job[w].kind # "artifact" => dir'[job[w].name] # None /\ Tree(w) \subseteq dir'[job[w].name]
    /\ job[w].kind = "artifact" => dir'[ArtifactName(job[w].source)] = stage[w]

LEMMA ReportsStay == IInv /\ [Next]_vars /\ Reports /\ UNCHANGED reported => Reports'
  <1> SUFFICES ASSUME IInv, [Next]_vars, Reports, UNCHANGED reported, NEW r \in reported, r.name[1] # "artifact"
               PROVE  r.name[2] = r.source /\ dir'[r.name] # None /\ r.tree \subseteq dir'[r.name]
    BY DEF Reports, ReportedIsStored
  <1>1. r.name \in SnapshotNames
    BY DEF Reports, Names, ArtifactName
  <1>2. QED
    BY <1>1, Stays DEF Reports, ReportedIsStored

LEMMA FinishReports ==
  ASSUME IInv, [Next]_vars, Reports, NEW w \in Workers, pc[w] # "idle", NEW ok \in BOOLEAN,
         Finish(w, ok), ok => Stands(w)
  PROVE  Reports'
  <1>1. job[w] \in Job /\ Fits(pc[w], job[w], stage[w]) /\ job[w].source \in Sources /\ job[w].name \in Names
    BY DEF IInv, WorkInv, Work, Fits, Job
  <1>2. CASE ~ok
    BY <1>2, ReportsStay DEF Finish
  <1>3. CASE ok
    <2> DEFINE report == [source |-> job[w].source, name |-> job[w].name, tree |-> Tree(w)]
    <2>1. reported' = reported \cup {report}
      BY <1>3 DEF Finish
    <2>2. ASSUME NEW r \in reported, r.name[1] # "artifact"
          PROVE  r.name[2] = r.source /\ dir'[r.name] # None /\ r.tree \subseteq dir'[r.name]
      <3>1. r.name \in SnapshotNames
        BY <2>2 DEF Reports, Names, ArtifactName
      <3>2. QED
        BY <2>2, <3>1, Stays DEF Reports, ReportedIsStored
    <2>3. ASSUME job[w].name[1] # "artifact"
          PROVE  job[w].name[2] = job[w].source /\ dir'[job[w].name] # None /\ Tree(w) \subseteq dir'[job[w].name]
      <3>1. job[w].kind \in {"source", "composed"}
        BY <1>1, <2>3 DEF Fits, Job, ArtifactName
      <3>2. job[w].name[2] = job[w].source
        BY <1>1, <3>1 DEF Fits, SourceName, ComposedName
      <3>3. QED
        BY <1>3, <3>1, <3>2 DEF Stands
    <2>4. report.source = job[w].source /\ report.name = job[w].name /\ report.tree = Tree(w)
      OBVIOUS
    <2> HIDE DEF report
    <2>5. QED
      BY <1>1, <2>1, <2>2, <2>3, <2>4 DEF Reports, ReportedIsStored
  <1>4. QED
    BY <1>2, <1>3

LEMMA GiveRelates ==
  ASSUME IInv, [Next]_vars, AllBacked, Reports, NEW w \in Workers, pc[w] # "idle", NEW ok \in BOOLEAN,
         Give(w, ok), ok => Stands(w)
  PROVE  AllBacked' /\ Reports'
  <1>1. /\ job[w] \in Job /\ Fits(pc[w], job[w], stage[w]) /\ stage[w] \in Trees
        /\ Backed(dir, disturbed, pc[w], job[w], stage[w])
    BY DEF IInv, WorkInv, WorkTypes, Work, Fits, AllBacked
  <1>2. Backed(dir', disturbed', pc[w], job[w], stage[w])
    BY <1>1, BackedStays
  <1>3. CASE Leased(w)
    <2> DEFINE j == [job[w] EXCEPT !.ok = ok]
    <2>1. Change(w, "release", j, stage[w], scratch[w])
      BY <1>3 DEF Give, Change, IInv, WorkInv, WorkTypes
    <2>2. /\ j.kind = "composed" /\ j.name = job[w].name /\ j.source = job[w].source /\ j.ok = ok
          /\ job[w].kind = "composed"
      BY <1>1, <1>3 DEF Job, Leased
    <2> HIDE DEF j
    <2>3. Backed(dir', disturbed', "release", j, stage[w])
      BY <1>2, <2>2 DEF Backed, Stands, Tree
    <2>4. Reports'
      BY <1>3, ReportsStay DEF Give
    <2>5. QED
      BY <2>1, <2>3, <2>4, OneBacked
  <1>4. CASE ~Leased(w)
    <2>1. Finish(w, ok) /\ Change(w, "idle", None, {}, {})
      BY <1>4 DEF Give, Finish, Change
    <2>2. Backed(dir', disturbed', "idle", None, {})
      BY DEF Backed
    <2>3. QED
      BY <2>1, <2>2, OneBacked, FinishReports
  <1>5. QED
    BY <1>3, <1>4

LEMMA AdvanceRelates ==
  ASSUME IInv, [Next]_vars, AllBacked, Reports, NEW w \in Workers, pc[w] # "idle",
         NEW step \in Steps, step # "release", Advance(w, step),
         step = "meta" => job[w].kind = "artifact" /\ Stands(w)
  PROVE  AllBacked' /\ Reports'
  <1>1. /\ stage[w] \in Trees /\ Fits(pc[w], job[w], stage[w])
        /\ Backed(dir, disturbed, pc[w], job[w], stage[w])
    BY DEF IInv, WorkInv, WorkTypes, Work, AllBacked
  <1>2. Backed(dir', disturbed', pc[w], job[w], stage[w])
    BY <1>1, BackedStays
  <1>3. Backed(dir', disturbed', step, job[w], stage[w])
    BY <1>2 DEF Backed, Stands
  <1>4. Change(w, step, job[w], stage[w], scratch[w]) /\ UNCHANGED reported
    BY DEF Advance, Change, IInv, WorkInv, WorkTypes
  <1>5. QED
    BY <1>3, <1>4, OneBacked, ReportsStay

\* What is accepted in the place of the staged tree, or just took its name, stands.
LEMMA PublishedRelates ==
  ASSUME IInv, [Next]_vars, AllBacked, Reports, NEW w \in Workers, pc[w] \in {"check", "rename"},
         Published(w), Stands(w)
  PROVE  AllBacked' /\ Reports'
  <1>1. CASE job[w].kind = "artifact"
    BY <1>1, AdvanceRelates DEF Published, Steps
  <1>2. CASE job[w].kind # "artifact"
    BY <1>2, GiveRelates DEF Published
  <1>3. QED
    BY <1>1, <1>2

LEMMA CompareRelates ==
  ASSUME IInv, [Next]_vars, AllBacked, Reports, NEW w \in Workers, pc[w] \in {"check", "rename"},
         Compare(w), dir[job[w].name] # None, UNCHANGED dir
  PROVE  AllBacked' /\ Reports'
  <1>1. CASE Accepts(job[w].kind, dir[job[w].name], Tree(w)) /\ Published(w)
    <2>1. Fits(pc[w], job[w], stage[w])
      BY DEF IInv, WorkInv, Work
    <2>2. job[w].kind = "artifact" => job[w].name = ArtifactName(job[w].source)
      BY <2>1 DEF Fits
    <2>3. Tree(w) \subseteq dir[job[w].name] /\ (job[w].kind # "source" => dir[job[w].name] = Tree(w))
      BY <1>1 DEF Accepts, HoldsSource
    <2>4. Stands(w)
      BY <2>2, <2>3 DEF Stands, Tree
    <2>5. QED
      BY <1>1, <2>4, PublishedRelates
  <1>2. CASE Give(w, FALSE)
    BY <1>2, GiveRelates
  <1>3. QED
    BY <1>1, <1>2 DEF Compare

-----------------------------------------------------------------------------
(***************************************************************************)
(* The relations are kept by every step.                                   *)
(***************************************************************************)
LEMMA CheckExistingRelates ==
  ASSUME IInv, [Next]_vars, AllBacked, Reports, NEW w \in Workers, CheckExisting(w)
  PROVE  AllBacked' /\ Reports'
  <1>1. CASE Advance(w, "rename")
    BY <1>1, AdvanceRelates DEF CheckExisting, Steps
  <1>2. CASE dir[job[w].name] # None /\ Compare(w)
    BY <1>2, CompareRelates DEF CheckExisting
  <1>3. QED
    BY <1>1, <1>2 DEF CheckExisting, Free

LEMMA WriteFileRelates ==
  ASSUME IInv, [Next]_vars, AllBacked, Reports, NEW w \in Workers, WriteFile(w)
  PROVE  AllBacked' /\ Reports'
  <1>1. PICK f \in job[w].files \ stage[w] : stage' = [stage EXCEPT ![w] = stage[w] \cup {f}]
    BY DEF WriteFile
  <1>2. Change(w, "rename", job[w], stage[w] \cup {f}, scratch[w])
    BY <1>1 DEF WriteFile, Change, IInv, WorkInv, WorkTypes
  <1>3. Backed(dir', disturbed', "rename", job[w], stage[w] \cup {f})
    BY DEF WriteFile, Backed
  <1>4. QED
    BY <1>2, <1>3, OneBacked, ReportsStay DEF WriteFile

LEMMA RenameRelates ==
  ASSUME IInv, [Next]_vars, AllBacked, Reports, NEW w \in Workers, Rename(w)
  PROVE  AllBacked' /\ Reports'
  <1>1. /\ pc[w] = "rename" /\ Staged(w) /\ job[w] \in Job /\ Fits(pc[w], job[w], stage[w])
        /\ stage[w] \in Trees /\ job[w].name \in Names
    BY DEF Rename, IInv, WorkInv, WorkTypes, Work, Fits, Job
  <1>2. CASE dir' = [dir EXCEPT ![job[w].name] = stage[w]] /\ Published(w)
    <2>1. dir'[job[w].name] = stage[w]
      BY <1>1, <1>2 DEF IInv, StoreTypes
    <2>2. Tree(w) = stage[w]
      BY <1>1 DEF Tree, Staged
    <2>3. job[w].kind = "artifact" => job[w].name = ArtifactName(job[w].source)
      BY <1>1 DEF Fits
    <2>4. Stands(w)
      BY <1>1, <2>1, <2>2, <2>3, TreesOfConstants DEF Stands
    <2>5. QED
      BY <1>1, <1>2, <2>4, PublishedRelates
  <1>3. CASE dir[job[w].name] # None /\ Compare(w) /\ UNCHANGED dir
    BY <1>1, <1>3, CompareRelates
  <1>4. QED
    BY <1>2, <1>3 DEF Rename, Free

LEMMA WriteMetaRelates ==
  ASSUME IInv, [Next]_vars, AllBacked, Reports, Metadata, NEW w \in Workers, WriteMeta(w)
  PROVE  AllBacked' /\ Reports' /\ Metadata'
  <1>1. /\ pc[w] = "meta" /\ Finish(w, TRUE) /\ meta' = [meta EXCEPT ![job[w].source] = stage[w]]
        /\ UNCHANGED <<dir, disturbed>>
    BY DEF WriteMeta, counts
  <1>2. job[w] \in Job /\ job[w].source \in Sources /\ job[w].kind = "artifact"
    BY <1>1 DEF IInv, WorkInv, Work, Fits, Job, Composing
  <1>3. job[w].source \notin disturbed => dir[ArtifactName(job[w].source)] = stage[w]
    BY <1>1 DEF AllBacked, Backed
  <1>4. Reports'
    <2>1. job[w].name = ArtifactName(job[w].source)
      BY <1>1, <1>2 DEF IInv, WorkInv, Work, Fits
    <2>2. job[w].name[1] = "artifact" /\ job[w].name \in Names
      BY <1>2, <2>1, NamesOfSources DEF ArtifactName
    <2>3. \A r \in reported' : r \in reported \/ r.name = job[w].name
      BY <1>1 DEF Finish
    <2>4. QED
      BY <1>1, <2>2, <2>3 DEF Reports, ReportedIsStored
  <1>5. AllBacked'
    <2>1. Change(w, "idle", None, {}, {}) /\ Backed(dir', disturbed', "idle", None, {})
      BY <1>1 DEF Finish, Change, Backed
    <2>2. QED
      BY <2>1, OneBacked
  <1>6. Metadata'
    <2>1. stage[w] \in Trees
      BY DEF IInv, WorkInv, WorkTypes
    <2>2. meta' \in [Sources -> {None, Malformed} \cup Trees]
      BY <1>1, <2>1 DEF Metadata
    <2>3. ASSUME NEW s \in Sources, s \notin disturbed, meta'[s] \in Installs
          PROVE  dir[ArtifactName(s)] = meta'[s]
      <3>1. CASE s = job[w].source
        BY <1>1, <1>2, <1>3, <2>3, <3>1 DEF Metadata
      <3>2. CASE s # job[w].source
        BY <1>1, <2>3, <3>2 DEF Metadata, MetadataIsOfArtifact
      <3>3. QED
        BY <3>1, <3>2
    <2>4. QED
      BY <1>1, <2>2, <2>3 DEF Metadata, MetadataIsOfArtifact
  <1>7. QED
    BY <1>4, <1>5, <1>6

LEMMA CheckArtifactRelates ==
  ASSUME IInv, [Next]_vars, AllBacked, Reports, NEW w \in Workers, CheckArtifact(w)
  PROVE  AllBacked' /\ Reports'
  BY AdvanceRelates, GiveRelates DEF CheckArtifact, Steps, Composing

LEMMA CopyFileRelates ==
  ASSUME IInv, [Next]_vars, AllBacked, Reports, NEW w \in Workers, CopyFile(w)
  PROVE  AllBacked' /\ Reports'
  <1> DEFINE from == dir[ArtifactName(job[w].source)]
  <1>1. CASE from = None
    BY <1>1, GiveRelates DEF CopyFile
  <1>2. CASE from # None
    <2>1. /\ pc[w] = "copy" /\ job[w] \in Job /\ Fits(pc[w], job[w], stage[w]) /\ stage[w] \in Trees
          /\ Backed(dir, disturbed, pc[w], job[w], stage[w])
      BY DEF CopyFile, IInv, WorkInv, WorkTypes, Work, Fits, AllBacked
    <2>2. PICK p \in job[w].left :
            /\ scratch' = [scratch EXCEPT ![w] = scratch[w] \cup Part(from, {p})]
            /\ job' = [job EXCEPT ![w].left = job[w].left \ {p}]
            /\ UNCHANGED <<pc, stage, reported>>
      BY <1>2 DEF CopyFile
    <2> DEFINE j == [job[w] EXCEPT !.left = job[w].left \ {p}]
               copy == scratch[w] \cup Part(from, {p})
    <2>3. Change(w, "copy", j, stage[w], copy)
      BY <2>1, <2>2 DEF Change, IInv, WorkInv, WorkTypes
    <2>4. j.kind = job[w].kind /\ j.source = job[w].source
      BY <2>1 DEF Job
    <2> HIDE DEF j, copy
    <2>5. Backed(dir', disturbed', "copy", j, stage[w])
      <3>1. Backed(dir', disturbed', pc[w], job[w], stage[w])
        BY <2>1, BackedStays
      <3>2. QED
        BY <2>1, <2>4, <3>1 DEF Backed
    <2>6. QED
      BY <2>2, <2>3, <2>5, OneBacked, ReportsStay
  <1>3. QED
    BY <1>1, <1>2

LEMMA TransferRelates ==
  ASSUME IInv, [Next]_vars, AllBacked, Reports, NEW w \in Workers, Transfer(w)
  PROVE  AllBacked' /\ Reports'
  <1>1. /\ pc[w] = "copy" /\ job[w] \in Job /\ Fits(pc[w], job[w], stage[w]) /\ stage[w] \in Trees
        /\ Backed(dir, disturbed, pc[w], job[w], stage[w])
    BY DEF Transfer, IInv, WorkInv, WorkTypes, Work, Fits, AllBacked
  <1>2. CASE Give(w, FALSE)
    BY <1>1, <1>2, GiveRelates
  <1>3. CASE /\ stage' = [stage EXCEPT ![w] = Materialized(w)]
             /\ scratch' = [scratch EXCEPT ![w] = {}]
             /\ pc' = [pc EXCEPT ![w] = "lease"]
             /\ UNCHANGED <<job, reported>>
    <2> DEFINE tree == Materialized(w)
               source == dir'[SourceName(job[w].source)]
    <2>1. Change(w, "lease", job[w], tree, {})
      BY <1>3 DEF Change, IInv, WorkInv, WorkTypes
    <2>2. Backed(dir', disturbed', pc[w], job[w], stage[w])
      BY <1>1, BackedStays
    <2>3. job[w].kind = "composed" => source # None /\ source \subseteq tree
      <3>1. job[w].kind = "composed" => source # None /\ source \subseteq stage[w]
        BY <1>1, <2>2 DEF Backed
      <3>2. job[w].kind = "composed" => ~SharePath(stage[w], job[w].gen)
        BY <1>1 DEF Fits
      <3> HIDE DEF source
      <3>3. QED
        BY <3>1, <3>2 DEF SharePath, Materialized, Overlay
    <2> HIDE DEF tree
    <2>4. Backed(dir', disturbed', "lease", job[w], tree)
      BY <2>3 DEF Backed
    <2>5. QED
      BY <1>3, <2>1, <2>4, OneBacked, ReportsStay
  <1>4. QED
    BY <1>2, <1>3 DEF Transfer

LEMMA LeaseRelates ==
  ASSUME IInv, [Next]_vars, AllBacked, Reports, NEW w \in Workers,
         Acquire(w) \/ GiveUpLease(w) \/ Verify(w)
  PROVE  AllBacked' /\ Reports'
  <1>1. CASE Acquire(w)
    BY <1>1, AdvanceRelates DEF Acquire, Steps, Composing
  <1>2. CASE GiveUpLease(w)
    BY <1>2, GiveRelates DEF GiveUpLease
  <1>3. CASE Verify(w)
    BY <1>3, AdvanceRelates, GiveRelates DEF Verify, Steps
  <1>4. QED
    BY <1>1, <1>2, <1>3

LEMMA ReleaseRelates ==
  ASSUME IInv, [Next]_vars, AllBacked, Reports, NEW w \in Workers, Release(w)
  PROVE  AllBacked' /\ Reports'
  <1>1. pc[w] = "release" /\ Finish(w, job[w].ok) /\ UNCHANGED dir
    BY DEF Release
  <1>2. job[w] \in Job /\ job[w].ok \in BOOLEAN /\ job[w].kind = "composed"
    BY <1>1 DEF IInv, WorkInv, Work, Fits, Job
  <1>3. job[w].ok => Stands(w)
    BY <1>1, <1>2 DEF AllBacked, Backed, Stands, Tree
  <1>4. Change(w, "idle", None, {}, {}) /\ Backed(dir', disturbed', "idle", None, {})
    BY <1>1 DEF Finish, Change, Backed
  <1>5. QED
    BY <1>1, <1>2, <1>3, <1>4, OneBacked, FinishReports

LEMMA CrashRelates ==
  ASSUME IInv, [Next]_vars, AllBacked, Reports, NEW w \in Workers, Crash(w)
  PROVE  AllBacked' /\ Reports'
  <1>1. Change(w, "idle", None, {}, {}) /\ Backed(dir', disturbed', "idle", None, {})
    BY DEF Crash, Change, Backed
  <1>2. QED
    BY <1>1, OneBacked, ReportsStay DEF Crash

LEMMA BeginRelates ==
  ASSUME IInv, [Next]_vars, AllBacked, Reports, NEW w \in Workers, NEW j, NEW tree, NEW step \in {"check", "artifact"},
         Begin(w, j, tree, step), UNCHANGED <<dir, reported>>,
         j.kind = "composed" => dir[SourceName(j.source)] # None /\ dir[SourceName(j.source)] \subseteq tree
  PROVE  AllBacked' /\ Reports'
  <1>1. Change(w, step, j, tree, scratch[w])
    BY DEF Begin, Change, IInv, WorkInv, WorkTypes
  <1>2. Backed(dir', disturbed', step, j, tree)
    BY DEF Backed
  <1>3. QED
    BY <1>1, <1>2, OneBacked, ReportsStay

LEMMA StartRelates ==
  ASSUME IInv, [Next]_vars, AllBacked, Reports, NEW w \in Workers,
         \/ \E r \in Resolutions : StartPublish(w, r)
         \/ \E s \in Sources : StartBuild(w, s)
         \/ \E s \in Sources, gen \in Generated : StartCompose(w, s, gen)
  PROVE  AllBacked' /\ Reports'
  <1>1. UNCHANGED <<dir, reported>>
    BY DEF StartPublish, StartBuild, StartCompose, Starting
  <1>2. CASE UNCHANGED work
    BY <1>1, <1>2, NoneMoves, ReportsStay
  <1>3. ASSUME NEW r \in Resolutions, StartPublish(w, r), ~UNCHANGED work PROVE AllBacked' /\ Reports'
    <2> DEFINE j == NewJob("source", r.requested, SourceName(StoreIdentity(r)), r.files, {})
    <2>1. Begin(w, j, {}, "check") /\ j.kind = "source"
      BY <1>3 DEF StartPublish, NewJob
    <2> HIDE DEF j
    <2>2. QED
      BY <1>1, <2>1, BeginRelates
  <1>4. ASSUME NEW s \in Sources, StartBuild(w, s), ~UNCHANGED work PROVE AllBacked' /\ Reports'
    <2>1. PICK t \in Installs : Begin(w, NewJob("artifact", s, ArtifactName(s), t, {}), t, "check")
      BY <1>4 DEF StartBuild
    <2> DEFINE j == NewJob("artifact", s, ArtifactName(s), t, {})
    <2>2. Begin(w, j, t, "check") /\ j.kind = "artifact"
      BY <2>1 DEF NewJob
    <2> HIDE DEF j
    <2>3. QED
      BY <1>1, <2>2, BeginRelates
  <1>5. ASSUME NEW s \in Sources, NEW gen \in Generated, StartCompose(w, s, gen), ~UNCHANGED work
        PROVE  AllBacked' /\ Reports'
    <2> DEFINE j == NewJob("composed", s, ComposedName(s, meta[s]), {}, gen)
               t == dir[SourceName(s)]
    <2>1. /\ Begin(w, j, t, "artifact") /\ t # None /\ j.source = s
      BY <1>5 DEF StartCompose, NewJob, Free
    <2> HIDE DEF j
    <2>2. QED
      BY <1>1, <2>1, BeginRelates
  <1>6. QED
    BY <1>2, <1>3, <1>4, <1>5

LEMMA NextRelates == IInv /\ [Next]_vars /\ AllBacked /\ Reports /\ Metadata => AllBacked' /\ Reports'
  <1> SUFFICES ASSUME IInv, [Next]_vars, AllBacked, Reports, Metadata PROVE AllBacked' /\ Reports'
    OBVIOUS
  <1>1. ASSUME NEW w \in Workers, Step(w) PROVE AllBacked' /\ Reports'
    BY <1>1, CheckExistingRelates, WriteFileRelates, RenameRelates, WriteMetaRelates, CheckArtifactRelates,
       CopyFileRelates, TransferRelates, LeaseRelates, ReleaseRelates DEF Step
  <1>2. ASSUME NEW w \in Workers, IOError(w) PROVE AllBacked' /\ Reports'
    BY <1>2, GiveRelates DEF IOError, Steps, Composing
  <1>3. ASSUME NEW s \in Sources, Disturb(s) PROVE AllBacked' /\ Reports'
    BY <1>3, NoneMoves, ReportsStay DEF Disturb
  <1>4. CASE UNCHANGED vars
    BY <1>4, NoneMoves, ReportsStay DEF vars
  <1>5. QED
    BY <1>1, <1>2, <1>3, <1>4, StartRelates, CrashRelates DEF Next

LEMMA MetadataStays == IInv /\ [Next]_vars /\ Metadata /\ UNCHANGED meta => Metadata'
  <1> SUFFICES ASSUME IInv, [Next]_vars, Metadata, UNCHANGED meta,
                      NEW s \in Sources, s \notin disturbed', meta[s] \in Installs
               PROVE  dir'[ArtifactName(s)] = meta[s]
    BY DEF Metadata, MetadataIsOfArtifact
  <1>1. s \notin disturbed
    BY DisturbedGrows
  <1>2. dir[ArtifactName(s)] = meta[s] /\ meta[s] # None
    BY <1>1, TreesOfConstants DEF Metadata, MetadataIsOfArtifact
  <1>3. QED
    BY <1>2, Stays

LEMMA NextMetadata == IInv /\ [Next]_vars /\ AllBacked /\ Reports /\ Metadata => Metadata'
  <1> SUFFICES ASSUME IInv, [Next]_vars, AllBacked, Reports, Metadata PROVE Metadata'
    OBVIOUS
  <1>1. ASSUME NEW w \in Workers, Step(w) PROVE Metadata'
    <2>1. CASE WriteMeta(w)
      BY <2>1, WriteMetaRelates
    <2>2. CASE ~WriteMeta(w)
      BY <1>1, <2>2, MetadataStays
         DEF Step, CheckExisting, WriteFile, Rename, CheckArtifact, CopyFile, Transfer,
             Acquire, GiveUpLease, Verify, Release
    <2>3. QED
      BY <2>1, <2>2
  <1>2. ASSUME NEW s \in Sources, Disturb(s) PROVE Metadata'
    BY <1>2, MetadataStays DEF Disturb
  <1>3. ASSUME NEW w \in Workers,
               \/ \E r \in Resolutions : StartPublish(w, r)
               \/ \E s \in Sources : StartBuild(w, s)
               \/ \E s \in Sources, gen \in Generated : StartCompose(w, s, gen)
        PROVE  Metadata'
    BY <1>3, MetadataStays DEF StartPublish, StartBuild, StartCompose, Starting
  <1>4. ASSUME NEW w \in Workers, IOError(w) \/ Crash(w) PROVE Metadata'
    BY <1>4, MetadataStays DEF IOError, Crash
  <1>5. CASE UNCHANGED vars
    BY <1>5, MetadataStays DEF vars
  <1>6. QED
    BY <1>1, <1>2, <1>3, <1>4, <1>5 DEF Next

\* A composition appears with the dependencies of its name, over the source it was
\* begun from; both stay.
LEMMA NextComposed == IInv /\ [Next]_vars /\ AllBacked /\ ComposedIsTrusted => ComposedIsTrusted'
  <1> SUFFICES ASSUME IInv, [Next]_vars, AllBacked, ComposedIsTrusted,
                      NEW n \in ComposedNames, dir'[n] # None
               PROVE  /\ Part(dir'[n], DepPaths) = n[3]
                      /\ dir'[SourceName(n[2])] # None
                      /\ dir'[SourceName(n[2])] \subseteq dir'[n]
    BY DEF ComposedIsTrusted
  <1>1. n \in SnapshotNames /\ n[1] = "composed" /\ n[2] \in Sources
    BY DEF SnapshotNames, ComposedNames, ComposedName
  <1>2. SourceName(n[2]) \in SnapshotNames
    BY <1>1, NamesOfSources
  <1>3. CASE dir[n] # None
    BY <1>1, <1>2, <1>3, Stays DEF ComposedIsTrusted
  <1>4. CASE dir[n] = None
    <2>1. PICK w \in Workers : Rename(w) /\ n = job[w].name /\ dir'[n] = stage[w]
      BY <1>1, <1>4, Appears
    <2>2. /\ pc[w] = "rename" /\ job[w] \in Job /\ Fits(pc[w], job[w], stage[w])
          /\ Backed(dir, disturbed, pc[w], job[w], stage[w])
      BY <2>1 DEF Rename, IInv, WorkInv, Work, Fits, AllBacked
    <2>3. job[w].kind = "composed"
      BY <1>1, <2>1, <2>2 DEF Fits, Job, SourceName, ArtifactName
    <2>4. n[2] = job[w].source /\ Intact(stage[w], n[3])
      BY <2>1, <2>2, <2>3 DEF Fits, ComposedName
    <2>5. dir[SourceName(n[2])] # None /\ dir[SourceName(n[2])] \subseteq stage[w]
      BY <2>2, <2>3, <2>4 DEF Backed
    <2>6. QED
      BY <1>2, <2>1, <2>4, <2>5, Stays DEF Intact
  <1>5. QED
    BY <1>3, <1>4

LEMMA InitRelations == Init => Relations
  <1> SUFFICES ASSUME Init PROVE Relations
    OBVIOUS
  <1>1. AllBacked
    BY DEF Init, AllBacked, Backed
  <1>2. Reports
    BY DEF Init, Reports, ReportedIsStored
  <1>3. PICK src \in [Used -> {None, {}} \cup Earlier], art \in [Used -> {None} \cup Installs] :
         /\ dir = [n \in Names |->
                     IF n[2] \notin Used THEN None
                     ELSE IF n[1] = "source" /\ src[n[2]] # None THEN Commit[n[2]] \cup src[n[2]]
                     ELSE IF n[1] = "artifact" THEN art[n[2]] ELSE None]
         /\ meta \in [Sources -> {None, Malformed} \cup Installs]
         /\ \A s \in Sources : meta[s] # None => s \in Used /\ meta[s] \in {Malformed, art[s]}
    BY DEF Init
  <1>4. ComposedIsTrusted
    <2>1. ASSUME NEW n \in ComposedNames PROVE dir[n] = None
      <3>1. n \in Names /\ n[1] = "composed"
        BY DEF Names, SnapshotNames, ComposedNames, ComposedName
      <3>2. QED
        BY <1>3, <3>1
    <2>2. QED
      BY <2>1 DEF ComposedIsTrusted
  <1>5. Metadata
    <2>1. meta \in [Sources -> {None, Malformed} \cup Trees]
      BY <1>3, TreesOfConstants
    <2>2. ASSUME NEW s \in Sources, meta[s] \in Installs PROVE dir[ArtifactName(s)] = meta[s]
      <3>1. meta[s] # None /\ meta[s] # Malformed
        BY <2>2, TreesOfConstants, StoreAssumption
      <3>2. s \in Used /\ meta[s] = art[s]
        BY <1>3, <3>1
      <3>3. /\ ArtifactName(s) \in Names
            /\ ArtifactName(s)[1] = "artifact" /\ ArtifactName(s)[2] = s
        BY NamesOfSources DEF ArtifactName
      <3>4. dir[ArtifactName(s)] = art[s]
        BY <1>3, <3>2, <3>3
      <3>5. QED
        BY <3>2, <3>4
    <2>3. QED
      BY <2>1, <2>2 DEF Metadata, MetadataIsOfArtifact
  <1>6. QED
    BY <1>1, <1>2, <1>4, <1>5 DEF Relations

\* The relations hold always: each of them needs the others, and all of them that
\* the store is write-once.
THEOREM RelationsInvariant == Spec => []Relations
  <1>1. Relations /\ IInv /\ [Next]_vars => Relations'
    BY NextRelates, NextMetadata, NextComposed DEF Relations
  <1>2. QED
    BY <1>1, InitRelations, InductiveInvariant, PTL DEF Spec

\* A composition holds exactly the dependencies it is named after and every file
\* of the source it was begun from, whatever happened to the artifact meanwhile
\* (dependency-provisioning.ts:689-791, snapshot-composition.ts:494-504).
THEOREM CompositionsAreTrusted == Spec => []ComposedIsTrusted
  <1>1. Relations => ComposedIsTrusted
    BY DEF Relations
  <1>2. QED
    BY <1>1, RelationsInvariant, PTL

\* However many builds race for an identity, its metadata names the artifact that
\* was kept (dependency-provisioning.ts:996-1003).
THEOREM MetadataMatches == Spec => []MetadataIsOfArtifact
  <1>1. Relations => MetadataIsOfArtifact
    BY DEF Relations, Metadata
  <1>2. QED
    BY <1>1, RelationsInvariant, PTL

\* Whoever reported a snapshot, the winner of a race or a loser, reported what is
\* stored, and it stays stored (snapshot-store-publisher.ts:370-404,
\* snapshot-composition.ts:291-333).
THEOREM ReportsHold == Spec => []ReportedIsStored
  <1>1. Relations => ReportedIsStored
    BY DEF Relations, Reports
  <1>2. QED
    BY <1>1, RelationsInvariant, PTL

-----------------------------------------------------------------------------
(***************************************************************************)
(* The types that the rest did not need.                                   *)
(***************************************************************************)

\* A worker at rest has no job; what is to become an artifact was installed.
Resting(step, j, tree) ==
    /\ step = "idle" => j = None
    /\ step # "idle" /\ j.kind = "artifact" => tree \in Installs

Rested == \A w \in Workers : Resting(pc[w], job[w], stage[w])
Reported == reported \subseteq [source : Sources, name : Names, tree : Trees]

Counts == /\ started \in 0..MaxJobs /\ crashes \in 0..MaxCrashes
          /\ disturbed \subseteq Sources

MetaTypes == meta \in [Sources -> {None, Malformed} \cup Installs]

TypeInv == Rested /\ Reported /\ Counts /\ MetaTypes

LEMMA OneRests ==
  ASSUME IInv, Rested, NEW w \in Workers, NEW step, NEW j, NEW tree, NEW copy,
         Change(w, step, j, tree, copy), Resting(step, j, tree)
  PROVE  Rested'
  <1>1. /\ pc'[w] = step /\ job'[w] = j /\ stage'[w] = tree
        /\ \A v \in Workers \ {w} : pc'[v] = pc[v] /\ job'[v] = job[v] /\ stage'[v] = stage[v]
    BY DEF IInv, WorkInv, WorkTypes, Change
  <1>2. QED
    BY <1>1 DEF Rested, Resting

LEMMA FinishRests ==
  ASSUME IInv, Rested, Reported, NEW w \in Workers, pc[w] # "idle", NEW ok \in BOOLEAN, Finish(w, ok)
  PROVE  Rested' /\ Reported'
  <1>1. job[w] \in Job /\ stage[w] \in Trees
    BY DEF IInv, WorkInv, WorkTypes, Work, Fits
  <1>2. [source |-> job[w].source, name |-> job[w].name, tree |-> Tree(w)]
          \in [source : Sources, name : Names, tree : Trees]
    BY <1>1 DEF Job, Tree
  <1>3. Reported'
    BY <1>2 DEF Finish, Reported
  <1>4. Change(w, "idle", None, {}, {}) /\ Resting("idle", None, {})
    BY DEF Finish, Change, Resting
  <1>5. QED
    BY <1>3, <1>4, OneRests

LEMMA GiveRests ==
  ASSUME IInv, Rested, Reported, NEW w \in Workers, pc[w] # "idle", NEW ok \in BOOLEAN, Give(w, ok)
  PROVE  Rested' /\ Reported'
  <1>1. CASE Leased(w)
    <2> DEFINE j == [job[w] EXCEPT !.ok = ok]
    <2>1. Change(w, "release", j, stage[w], scratch[w]) /\ UNCHANGED reported
      BY <1>1 DEF Give, Change, IInv, WorkInv, WorkTypes
    <2>2. job[w] \in Job /\ job[w].kind = "composed"
      BY <1>1 DEF Leased, IInv, WorkInv, Work, Fits
    <2>3. j.kind = "composed"
      BY <2>2 DEF Job
    <2> HIDE DEF j
    <2>4. QED
      BY <2>1, <2>3, OneRests DEF Resting, Reported
  <1>2. CASE ~Leased(w)
    BY <1>2, FinishRests DEF Give
  <1>3. QED
    BY <1>1, <1>2

LEMMA AdvanceRests ==
  ASSUME IInv, Rested, Reported, NEW w \in Workers, pc[w] # "idle", NEW step \in Steps, Advance(w, step)
  PROVE  Rested' /\ Reported'
  <1>1. Change(w, step, job[w], stage[w], scratch[w]) /\ UNCHANGED reported
    BY DEF Advance, Change, IInv, WorkInv, WorkTypes
  <1>2. Resting(step, job[w], stage[w])
    BY DEF Rested, Resting, Steps, Composing
  <1>3. QED
    BY <1>1, <1>2, OneRests DEF Reported

LEMMA CompareRests ==
  ASSUME IInv, Rested, Reported, NEW w \in Workers, pc[w] # "idle", Published(w) \/ Compare(w)
  PROVE  Rested' /\ Reported'
  BY GiveRests, AdvanceRests DEF Compare, Published, Steps

LEMMA StepRests ==
  ASSUME IInv, Rested, Reported, NEW w \in Workers, Step(w)
  PROVE  Rested' /\ Reported'
  <1>1. pc[w] # "idle" /\ job[w] \in Job
    BY DEF Step, CheckExisting, WriteFile, Rename, WriteMeta, CheckArtifact, CopyFile, Transfer,
           Acquire, GiveUpLease, Verify, Release, IInv, WorkInv, Work, Fits
  <1>2. CASE CheckExisting(w) \/ Rename(w) \/ WriteMeta(w)
    BY <1>1, <1>2, CompareRests, AdvanceRests, FinishRests DEF CheckExisting, Rename, WriteMeta, Steps
  <1>3. CASE CheckArtifact(w) \/ Acquire(w) \/ GiveUpLease(w) \/ Verify(w)
    BY <1>1, <1>3, AdvanceRests, GiveRests
       DEF CheckArtifact, Acquire, GiveUpLease, Verify, Steps, Composing
  <1>4. CASE Release(w)
    BY <1>1, <1>4, FinishRests DEF Release, Job
  <1>5. CASE WriteFile(w)
    <2>1. PICK f \in job[w].files : stage' = [stage EXCEPT ![w] = @ \cup {f}]
      BY <1>5 DEF WriteFile
    <2>2. /\ Change(w, pc[w], job[w], stage[w] \cup {f}, scratch[w]) /\ UNCHANGED reported
          /\ job[w].kind = "source"
      BY <1>5, <2>1 DEF WriteFile, Change, IInv, WorkInv, WorkTypes
    <2>3. QED
      BY <1>1, <2>2, OneRests DEF Resting, Reported
  <1>6. CASE CopyFile(w)
    <2>1. CASE Give(w, FALSE)
      BY <1>1, <2>1, GiveRests
    <2>2. CASE ~Give(w, FALSE)
      <3>1. PICK p \in job[w].left :
              /\ job' = [job EXCEPT ![w].left = @ \ {p}]
              /\ UNCHANGED <<pc, stage, reported>>
        BY <1>6, <2>2 DEF CopyFile
      <3> DEFINE j == [job[w] EXCEPT !.left = @ \ {p}]
      <3>2. Change(w, pc[w], j, stage[w], scratch'[w])
        BY <1>6, <2>2, <3>1 DEF CopyFile, Change, IInv, WorkInv, WorkTypes
      <3>3. j.kind = job[w].kind
        BY <1>1 DEF Job
      <3> HIDE DEF j
      <3>4. QED
        BY <1>1, <3>1, <3>2, <3>3, OneRests DEF Rested, Resting, Reported
    <2>3. QED
      BY <2>1, <2>2
  <1>7. CASE Transfer(w)
    <2>1. CASE Give(w, FALSE)
      BY <1>1, <2>1, GiveRests
    <2>2. CASE ~Give(w, FALSE)
      <3>1. Change(w, "lease", job[w], Materialized(w), {}) /\ UNCHANGED reported /\ pc[w] = "copy"
        BY <1>7, <2>2 DEF Transfer, Change, IInv, WorkInv, WorkTypes
      <3>2. job[w].kind # "artifact"
        BY <1>1, <3>1 DEF IInv, WorkInv, Work, Fits
      <3>3. QED
        BY <3>1, <3>2, OneRests DEF Resting, Reported
    <2>3. QED
      BY <2>1, <2>2
  <1>8. QED
    BY <1>2, <1>3, <1>4, <1>5, <1>6, <1>7 DEF Step

LEMMA NextRests == IInv /\ [Next]_vars /\ Rested /\ Reported => Rested' /\ Reported'
  <1> SUFFICES ASSUME IInv, [Next]_vars, Rested, Reported PROVE Rested' /\ Reported'
    OBVIOUS
  <1>1. ASSUME UNCHANGED work, UNCHANGED reported PROVE Rested' /\ Reported'
    BY <1>1 DEF work, Rested, Reported
  <1>2. ASSUME NEW w \in Workers, NEW j, NEW tree, NEW step \in {"check", "artifact"},
               Begin(w, j, tree, step), UNCHANGED reported, j.kind = "artifact" => tree \in Installs
        PROVE  Rested' /\ Reported'
    <2>1. Change(w, step, j, tree, scratch[w])
      BY <1>2 DEF Begin, Change, IInv, WorkInv, WorkTypes
    <2>2. QED
      BY <1>2, <2>1, OneRests DEF Resting, Reported
  <1>3. ASSUME NEW w \in Workers, NEW r \in Resolutions, StartPublish(w, r) PROVE Rested' /\ Reported'
    <2> DEFINE j == NewJob("source", r.requested, SourceName(StoreIdentity(r)), r.files, {})
    <2>1. Begin(w, j, {}, "check") \/ UNCHANGED work
      BY <1>3 DEF StartPublish
    <2>2. UNCHANGED reported /\ j.kind = "source"
      BY <1>3 DEF StartPublish, Starting, NewJob
    <2> HIDE DEF j
    <2>3. QED
      BY <1>1, <1>2, <2>1, <2>2
  <1>4. ASSUME NEW w \in Workers, NEW s \in Sources, StartBuild(w, s) PROVE Rested' /\ Reported'
    <2>1. UNCHANGED reported
      BY <1>4 DEF StartBuild, Starting
    <2>2. CASE UNCHANGED work
      BY <1>1, <2>1, <2>2
    <2>3. CASE ~UNCHANGED work
      <3>1. PICK t \in Installs : Begin(w, NewJob("artifact", s, ArtifactName(s), t, {}), t, "check")
        BY <1>4, <2>3 DEF StartBuild
      <3>2. QED
        BY <1>2, <2>1, <3>1
    <2>4. QED
      BY <2>2, <2>3
  <1>5. ASSUME NEW w \in Workers, NEW s \in Sources, NEW gen \in Generated, StartCompose(w, s, gen)
        PROVE  Rested' /\ Reported'
    <2> DEFINE j == NewJob("composed", s, ComposedName(s, meta[s]), {}, gen)
    <2>1. Begin(w, j, dir[SourceName(s)], "artifact") \/ UNCHANGED work
      BY <1>5 DEF StartCompose
    <2>2. UNCHANGED reported /\ j.kind = "composed"
      BY <1>5 DEF StartCompose, Starting, NewJob
    <2> HIDE DEF j
    <2>3. QED
      BY <1>1, <1>2, <2>1, <2>2
  <1>6. ASSUME NEW w \in Workers, IOError(w) PROVE Rested' /\ Reported'
    BY <1>6, GiveRests DEF IOError, Steps, Composing
  <1>7. ASSUME NEW w \in Workers, Crash(w) PROVE Rested' /\ Reported'
    <2>1. Change(w, "idle", None, {}, {}) /\ UNCHANGED reported
      BY <1>7 DEF Crash, Change
    <2>2. QED
      BY <2>1, OneRests DEF Resting, Reported
  <1>8. QED
    BY <1>1, <1>3, <1>4, <1>5, <1>6, <1>7, StepRests DEF Next, Disturb, vars

LEMMA NextCounts == IInv /\ [Next]_vars /\ Counts => Counts'
  <1> SUFFICES ASSUME IInv, [Next]_vars, Counts PROVE Counts'
    OBVIOUS
  <1> USE BoundAssumption DEF Counts
  <1>1. ASSUME NEW w \in Workers, Step(w) PROVE Counts'
    <2>1. CASE Release(w)
      BY <2>1 DEF Release, Unlocked
    <2>2. CASE ~Release(w)
      BY <1>1, <2>2 DEF Step, CheckExisting, WriteFile, Rename, WriteMeta, CheckArtifact, CopyFile,
                        Transfer, Acquire, GiveUpLease, Verify, counts
    <2>3. QED
      BY <2>1, <2>2
  <1>2. ASSUME NEW w \in Workers,
               \/ \E r \in Resolutions : StartPublish(w, r)
               \/ \E s \in Sources : StartBuild(w, s)
               \/ \E s \in Sources, gen \in Generated : StartCompose(w, s, gen)
        PROVE  Counts'
    <2>1. Starting(w)
      BY <1>2 DEF StartPublish, StartBuild, StartCompose
    <2>2. QED
      BY <2>1 DEF Starting
  <1>3. ASSUME NEW w \in Workers, IOError(w) \/ Crash(w) PROVE Counts'
    <2>1. CASE IOError(w)
      BY <2>1 DEF IOError, counts
    <2>2. CASE Crash(w)
      BY <2>2 DEF Crash
    <2>3. QED
      BY <1>3, <2>1, <2>2
  <1>4. ASSUME NEW s \in Sources, Disturb(s) PROVE Counts'
    BY <1>4 DEF Disturb
  <1>5. CASE UNCHANGED vars
    BY <1>5 DEF vars, counts
  <1>6. QED
    BY <1>1, <1>2, <1>3, <1>4, <1>5 DEF Next

LEMMA NextMetaTypes == IInv /\ [Next]_vars /\ Rested /\ MetaTypes => MetaTypes'
  <1> SUFFICES ASSUME IInv, [Next]_vars, Rested, MetaTypes PROVE MetaTypes'
    OBVIOUS
  <1>1. ASSUME NEW w \in Workers, WriteMeta(w) PROVE MetaTypes'
    <2>1. pc[w] = "meta" /\ Fits(pc[w], job[w], stage[w]) /\ Resting(pc[w], job[w], stage[w])
      BY <1>1 DEF WriteMeta, IInv, WorkInv, Work, Rested
    <2>2. job[w].kind = "artifact"
      BY <2>1 DEF Fits, Job, Composing
    <2>3. stage[w] \in Installs
      BY <2>1, <2>2 DEF Resting
    <2>4. QED
      BY <1>1, <2>3 DEF WriteMeta, MetaTypes
  <1>2. CASE UNCHANGED meta
    BY <1>2 DEF MetaTypes
  <1>3. ASSUME NEW w \in Workers, Step(w), ~WriteMeta(w) PROVE UNCHANGED meta
    BY <1>3 DEF Step, CheckExisting, WriteFile, Rename, CheckArtifact, CopyFile, Transfer, Acquire,
                GiveUpLease, Verify, Release
  <1>4. ASSUME NEW w \in Workers,
               \/ \E r \in Resolutions : StartPublish(w, r)
               \/ \E s \in Sources : StartBuild(w, s)
               \/ \E s \in Sources, gen \in Generated : StartCompose(w, s, gen)
               \/ IOError(w) \/ Crash(w)
        PROVE  UNCHANGED meta
    BY <1>4 DEF StartPublish, StartBuild, StartCompose, Starting, IOError, Crash
  <1>5. ASSUME (\E s \in Sources : Disturb(s)) \/ UNCHANGED vars PROVE UNCHANGED meta
    BY <1>5 DEF Disturb, vars
  <1>6. QED
    BY <1>1, <1>2, <1>3, <1>4, <1>5 DEF Next

\* Every variable keeps its type, whatever the crashes, races and errors, and no
\* two workers compose one identity at a time (snapshot-composition.ts:146-172,
\* 488-524).
THEOREM TypesAndLeases == Spec => []Inv
  <1>1. Init => TypeInv
    <2> SUFFICES ASSUME Init PROVE TypeInv
      OBVIOUS
    <2>1. Rested /\ Reported
      BY DEF Init, Rested, Resting, Reported
    <2>2. Counts
      BY BoundAssumption DEF Init, Counts
    <2>3. MetaTypes
      BY DEF Init, MetaTypes
    <2>4. QED
      BY <2>1, <2>2, <2>3 DEF TypeInv
  <1>2. IInv /\ TypeInv /\ [Next]_vars => TypeInv'
    BY NextRests, NextCounts, NextMetaTypes DEF TypeInv
  <1>3. IInv /\ TypeInv => Inv
    <2> SUFFICES ASSUME IInv, TypeInv PROVE Inv
      OBVIOUS
    <2>1. \A w \in Workers : pc[w] = "idle" <=> job[w] = None
      BY BoundAssumption DEF IInv, WorkInv, Work, Fits, TypeInv, Rested, Resting
    <2>2. QED
      BY <2>1 DEF IInv, StoreTypes, WorkInv, WorkTypes, TypeInv, Reported, Counts, MetaTypes, Inv, TypeOK
  <1>4. QED
    BY <1>1, <1>2, <1>3, InductiveInvariant, PTL DEF Spec
=============================================================================
