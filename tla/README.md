# Verification of VerifyAgent in TLA+

VerifyAgent is a GitHub pull-request verifier.  A webhook is authenticated and
turned into a queue job; one automatic loop takes jobs from a durable queue,
verifies them and stores the result in a durable registry; the settled outcome
is published as a pull-request comment.  Behind it stands an engine that fetches
the files of a commit, gives them their dependencies, runs checks in sandbox
processes and aggregates a verdict.  A process is JavaScript: one continuation
runs at a time, and everything that can go wrong goes wrong *between*
continuations, between two database commits or file operations, or between two
processes of which one recovers, or races with, what the other left.

This directory holds the TLA+ modules of that behaviour, the configurations
TLC checks them with, and proofs TLAPS checks.  `src/...` below is the root of
the repository.

    tlc -config X.cfg MC<module>      one run (see the table of runs)
    tlapm <module>Proofs.tla          the proofs of one module

- [1 The system](#1-the-system)
- [2 The modules and the code](#2-the-modules-and-the-code)
- [3 What is checked](#3-what-is-checked)
- [4 What is proved](#4-what-is-proved)
- [5 Disagreements with the documentation](#5-disagreements-with-the-documentation)
- [6 What is not modelled](#6-what-is-not-modelled)

## 1 The system

### Inventory

| component | code | state it keeps | operations |
|---|---|---|---|
| job runtime | `apps/worker/src/runtime.ts` | `running`, generations, the promise chain `processingSlot`, `wakeupResolve`/`wakeupNotified`, `recentSettled`, waiters, listeners | `start`, `stop`, `startAutoProcessing`, `stopAutoProcessing`, `processNext`, `drain`, `waitForQueueJob`, `onSettled` |
| in-memory queue | `apps/worker/src/in-memory-job-queue.ts` (re-exports `packages/engine/src/in-memory-job-queue.ts`) | the `entries` array, listeners | `enqueue`, `dequeue`, `onEnqueue`, `clear` |
| SQLite queue | `apps/worker/src/sqlite-job-queue.ts` | table `verification_queue_jobs` with a state column | `enqueue`, `dequeue`, `acknowledge`, `reject`, recovery when opened, `clear` |
| in-memory and file registry | `apps/worker/src/result-registry.ts` | three maps (verification, native job, queue job), an entry list, one file | `store`, three lookups, `clear`, load |
| SQLite registry | `apps/worker/src/sqlite-result-registry.ts` | table `verification_results` with three unique identities | `store`, three lookups, retention |
| webhook intake | `apps/github-bot/src/webhook.ts` | the replay guard's map | `reserve`, `commit`, `rollback`, `checkAndRemember`, the HTTP handler |
| orchestrator | `apps/github-bot/src/verification-orchestrator.ts` | none | decide, build the job, enqueue |
| composed service | `apps/api/src/github-verification-service.ts` | `accepting`, `started`, `startupTransition`, `shutdownTransition`, the publisher's subscription | `start`, `stop`, `close`, `getStatus` |
| comment publisher | `apps/api/src/github-pr-comment.ts`, `mvp-verdict.ts`, `pr-requirements.ts` | the comments of a pull request, at GitHub | publish: evaluate, render, find or create a comment, store the verdict |
| HTTP API | `apps/api/src/index.ts` | none | routes of health, status, results |
| sandbox transport | `packages/engine/src/sandbox-transport.ts` | one child process and its buffers | execute, time out, abort |
| application service and pipeline | `packages/engine/src/application-service.ts`, `pipeline.ts`, `execution.ts`, `aggregation.ts`, `packages/policy`, `packages/checks` | the record of one verification | stages, check execution, verdict |
| snapshot store | `packages/adapters-source/src/snapshot-store-publisher.ts`, `packages/engine/src/snapshot-composition.ts`, `dependency-provisioning.ts` | content-addressed directories | stage, publish, validate, provision |
| GitHub adapters | `packages/adapters-source/src/github.ts`, `github-app.ts`, `github-checks.ts` | of the Check Run publisher: a chain and the newest freshness per commit | fetch a commit, tree and blobs; discover an installation and get its token; publish Check Runs |
| domain, detection, AI, configuration | `packages/domain`, `adapters-lang`, `ai`, `config` | none | validation, classification |

The GitHub MVP runs the first nine (`src/README.md`, "Current MVP source of
truth"); the pipeline, the sandbox, the snapshot store and the Check Run
publisher are kept as the frozen engine, and modelled as its library callers
use it.

### How they interact

    GitHub --POST--> webhook intake --enqueue--> SQLite queue <--dequeue/ack/reject-- job runtime
                      (replay guard)                 |  onEnqueue --> wakeup --^        |
                                                     +-- recovery at restart            |-- processor
    composed service: start/stop/close over HTTP server, runtime, stores, publisher     |
                                                                                        v
                          comment publisher <--onSettled-- recentSettled <-- outcome -- SQLite registry

    engine:  GitHub --commit, tree, blobs--> source adapter --> snapshot store <-- builder (artifacts)
                                                                  |  composition (lease)
                plan, select --> check 1, check 2, ... --sandbox process each--> policy --> verdict
                                                                  verdict --> Check Run publisher

- *Calls with an await*: handler → `queue.enqueue`; `processNext` → `dequeue`,
  `processor.process`; service → `stopAutoProcessing`, server bind and close.
- *Callbacks*: the queue's `onEnqueue` listener resolves the loop's wakeup; the
  runtime's `onSettled` listeners start a publication.
- *Shared state*: the two databases, each committed on its own; the directories
  of the snapshot store, between processes.

### What is hard, and what makes each part correct

| component | hard behaviour | correct when |
|---|---|---|
| job runtime | starts, synchronous stops and awaited stops of several generations overlap with an operation in flight; one resolver is shared by successive loops | operations never overlap; no wakeup is lost; no stop hangs; an awaited stop leaves nothing running; a waiter does not miss its job |
| durable queue and registry | a crash, or a commit that fails, between result and acknowledgement; recovery; a row that does not decode | no accepted job is lost; no row is stranded; a result's identity is final; each job settles |
| registries | three indexes and a file change in several steps; replacement and eviction | the indexes agree; retention is bounded; the file is what memory retains |
| webhook intake | redelivery while the first delivery awaits; failure of the enqueue; expiry; the limit of the guard | no second job in the window; a failed delivery stays retryable |
| composed service | `start`, `stop`, `close` overlap; the bind fails half-way | started means serving, stopped means quiet; every call returns; no operation on closed stores |
| comment publisher | two publications for one pull request; late store into the registry | the newest verdict is the one shown |
| Check Run publisher | publications of one commit overlap; abandoned requests still land; freshness is forgotten | a newer verdict never gives way to an older one; nothing of others is touched |
| source adapter | each of many requests may fail, lie within limits or not | nothing partial and nothing of another commit is used |
| pipeline and transport | exit, timeout, output limit and late answers race; errors at every stage | a pass is earned; a failure is visible; no two sandbox processes at a time |
| snapshot store | publishers, builders and compositions of one identity race and crash; an artifact changes while it is copied | what is published is complete, trusted, and never changes |

Every place where one of these bites is a line of `hazards` in `PROJECT.json`,
with the property that watches it, or the reason why none does.

## 2 The modules and the code

| module | models | its actions |
|---|---|---|
| `JobRuntime` | `runtime.ts` 133-462 over the in-memory queue | one action per stretch of code between two awaits of `runLoop`/`runAutomaticNext`, one per public call |
| `DurableWorker` | `processNext` (`runtime.ts` 203-243) over the two SQLite stores | one action per commit or settled await, `StorageFault`, `Crash`, `Restart` |
| `ResultRegistry` | `result-registry.ts` | `Store`, `StoreRejected`, `Clear`, `Reload` |
| `WebhookIntake` | the replay guard and handler of `webhook.ts`, the orchestrator's enqueue | `Refuse`, `Accept`, `SettleRequest`, `Prune`, `Tick` |
| `ServiceLifecycle` | `start`, `stop`, `close` of `github-verification-service.ts` | one action per call and per stretch of a transition |
| `CommentPublisher` | `github-pr-comment.ts` `publish`, `attachCommentPublisher` of `github-verification-service.ts`, the second `store` into the SQLite registry | one action per request of a publication, `RequestFails`, `StopBegins`, `StopEnds`, `Exit`, `Restart` |
| `SettledOutcomes` | `rememberSettled`, `waitForQueueJob` of `runtime.ts` | `Finish`, `Settle`, `SettleDirectly`, `Wait`, `Timeout`, `Return`, `Restart` |
| `CheckRunPublisher` | `github-checks.ts`, `createGitHubCheckPublisher` | one action per call and per request, split where the effect at GitHub and its answer may part; `Crash`, `GivenUpLands`, `Vanishes` |
| `GitHubSource` | `resolveSnapshot` of `github.ts` and `github-app.ts` | one action per request with its refusals, `DiscoveryTimedOut` |
| `VerificationPipeline` | `application-service.ts`, `pipeline.ts`, `execution.ts`, `sandbox-transport.ts`, `aggregation.ts`, `planner.ts`, `selection.ts`, `default.ts`; extends `GitHubSource` | one action per stage and failure; the sandbox process's own steps; the transport's timers |
| `SnapshotStore` | `snapshot-store-publisher.ts`, `snapshot-composition.ts`, `environment-materializer.ts`, `dependency-provisioning.ts` | one action per access to a shared directory, per file that is copied or staged; `IOError`, `Crash`, `Disturb` |
| `WriteOnceStore` | what the store promises its readers | `Put` |
| `MC*` | | instances for TLC: symmetry, and an assumption on the instance's size |
| `*Proofs` | | theorems and proofs |

Variables carry the names of the code (`activeGeneration`, `processingSlot`,
`wakeupNotified`, `accepting`, `byJob`...).  A variable marked *history* in its
declaration exists only for a property: no guard reads it.  A definition whose
comment begins with *Faulty* is not part of any specification: it is a
plausible mistake in the operator after it, kept so that a reader can put it in
that operator's place and see the property it breaks.  In `WebhookIntake` and `ResultRegistry`
`Init`, `Next`, `Spec` and the like carry a prefix, because
`BoundedMemoriesProofs` extends both beside `SettledOutcomes`.

**JobRuntime.** A generation is one `startAutoProcessing`; `loop[g]` says at
which await its `runLoop` is suspended.  The promise chain of
`runAutomaticNext` is kept as two facts: whose unreleased slot is at the tail
(`processingSlot`) and on whose slot a suspended loop waits (`waitsOn`).  What
follows the release of a slot up to the next await is a separate action
(`LoopContinues`, `IdleWait`), because a `finally` that releases the slot and
the caller's continuation are different microtasks.  The model lets ready
continuations run in any order: its behaviours include those of the microtask
queue, and its safety does not depend on promise scheduling details.

**DurableWorker.** Two databases, hence `result`/`retained` and `row` change in
different actions, and `Crash` or `StorageFault` may come between them.  A job
is its place in `selectNext`'s order.  The processor is abstracted to "returns
a result under a fresh identity" or "throws".  A row that `decode()` refuses at
the head makes `dequeue` return null: then `Dequeue` is not enabled, which is
what the idle worker does until something else changes the head.

**ResultRegistry.** Memory is one record of three maps in insertion order, so
that `Insert`, `EvictOldest` and `Stored` are operators on it, used by `store`
and by the load of the file alike (`Loaded` applies them to the entries in
turn).  `filter` keeps the elements at a set of positions, in increasing order
(`Only`).  The write of the file may fail after memory changed, in `store` and in
`clear` (`synced`).

**WebhookIntake.** A request begins once its signature was accepted: nothing
before changes state.  `Accept` is everything up to the handler's first await,
enqueue included, `SettleRequest` everything after it.  The guard's map is a function
from deliveries to entries and, for the order of insertion, the relation
`newer`: what `prune` drops is what is expired, and then the oldest until the
limit is met.  Time is a countdown on each committed entry.

**ServiceLifecycle.** The runtime is reduced to what the service can see of it:
an active generation, `running`, an operation in flight, for which
`stopAutoProcessing` waits.  That reduction is what `JobRuntime` establishes
(`StopReturns`, `QuiescentAfterStop`).  When a transition settles, the calls
that await it continue in the same action: their continuations are queued by
the settlement itself, before any other code can run.

**SettledOutcomes.** The runtime's memory of outcomes, bounded by `MaxRecent`
(200 in the code), beside the registry that outlives it.

**CommentPublisher.** A job is one push to one pull request.  `pub[j]` is where
its publication stands; a write takes effect at GitHub (`WriteApplied`) before
its answer arrives (`Answered`), so a request can fail on either side of its
effect.  Comments and reviews are sequences of entries, each with the job that
last wrote it.  Listings are searched on their first page only (100 comments, 30
reviews in the code, `PageSize` here).  The evidence behind a verdict is not
modelled: `Gathered` chooses any verdict, since a failing request for evidence
changes the verdict and nothing else.

**CheckRunPublisher.** A key is a repository and an exact commit.  The chain of
promises is `after[c]`, the call it waits for, and `tail`, the last of each key.
`List` reads what GitHub has, `WriteApplied` changes it, `Answer` remembers it;
a request that is given up on (`WriteFails`) may still take effect at any later
time (`GivenUpLands`).  `Accepted` is the whole identity check of a result
against its snapshot; the instance breaks each of its comparisons once.

**GitHubSource, VerificationPipeline.** One verification.  `at` is the request or
stage it is at.  Every request may be refused in each of seven ways, and
`ErrorOf` gives the class each becomes.  The sandbox process is free: it writes
an answer, nonsense or too much, exits, fails to start, or outlives what it is
told (`Writes`, `Exits`, `LeftoverExits`); the transport settles on the first of
output, exit and timer, tells the process to stop and waits a bounded time
(`Leave`, `GiveUp`).  Selection and verdict are operators on the request and
the results.  A request's settings of a check are a set of words (`Settings`):
its place on the planner's lists and what its override says.

**SnapshotStore, WriteOnceStore.** A tree is a set of files and stands for its
own hash.  Workers are processes; each does one job at a time, and starts it in
the state the others left the directories in.  A directory that only ever
appears whole is read in one step; the artifact, whose payload `Disturb` may
change in place, is copied file by file (`CopyFile`) and hashed again.  A crash
leaves its staging tree as litter and its lock for ever (`Stale`).  The
refinement maps `stored[n]` to the directory of each snapshot's name.

### How the modules fit together

`JobRuntime` shows there is one worker at a time and that it does not sleep
through an enqueue; `DurableWorker` starts from exactly that worker and adds
durability; `SettledOutcomes` takes the outcomes it produces and
`CommentPublisher` publishes them; `ServiceLifecycle` starts and stops it.
`VerificationPipeline` extends `GitHubSource`, whose steps are its own first
steps; that what it calls publishing and composing succeeds or fails as a whole
is what `SnapshotStore` establishes by implementing `WriteOnceStore`, and a
verdict it reaches is what `CheckRunPublisher` publishes.  They are separate
modules because their products are far too large to check and because each uses
of the others only the facts above.

## 3 What is checked

Each run is `PROJECT.json`'s; states are distinct states found by TLC.

| run | instance | states | what it shows |
|---|---|---|---|
| `JobRuntime` | 2 jobs, 2 stoppers, 1 direct caller, 3 generations | 257,000 | operations never overlap, no wakeup is lost, stops return and leave nothing running |
| `DurableWorker` | 4 jobs (one always fails, the last does not decode), 5 identities, retention 1, 1 failure, 2 failing commits, 2 crashes | 79,900 | nothing is lost or stranded, identities are final, jobs settle unless an acknowledgement is torn |
| `ResultRegistry` | 3 identities of each kind, retention 2 | 1,270 | the indexes agree; the file holds what is retained |
| `WebhookIntake` | 3 deliveries (one to ignore), 3 requests, 2 entries, 2 ticks, 2 jobs per delivery | 115,000 | no second job in the window; failures stay retryable; the guard's limit |
| `CommentPublisher` | 3 jobs, 2 verdicts, page of 2, 2 results kept, 2 comments or reviews of others, 1 failing request | 3,398,000 | a stored verdict was shown; a publication that is not overtaken is shown where later ones update |
| `ServiceLifecycle` | 4 callers, with close | 2,750 | started serves, stopped is quiet, every call returns |
| `SettledOutcomes` | 3 jobs, 2 waiters, 2 outcomes kept, 1 restart | 16,900 | no waiter misses its job |
| `CheckRunPublisher` | 1 repository, 2 commits, 13 inputs (10 of them refused), 2 calls at a time and 3 in all, 3 runs, 1 remembered freshness, 1 crash, 1 abandoned request | 292,000 | no newer verdict gives way to an older one; what is written is shown; others' runs are untouched; chained calls settle |
| `SnapshotStore` | 2 workers, 2 commits, 7 answers, 2 installs, 3 generated outputs, 2 jobs, 1 crash, 1 change of an artifact | 111,000 | a write-once store of complete trees; compositions are trusted and exclusive; jobs end |
| `VerificationPipeline` | 29 requests over 7 commits (five exceed one limit each), 4 checks | 28,400 | a pass is earned on the exact commit; a failure is visible; the verification ends |
| `DurableWorker_torn`, `ServiceLifecycle_resurrect` | small | | one documented claim each, refuted: section 5 |

### The properties

*Job runtime.*  `AtMostOneOperation`: two generations never operate together.
`ParkedIsWakeable`: a suspended loop owns the one shared resolver, so a late
continuation of an old stop cannot have cleared it.  `QuiescentAfterStop`: after an awaited stop nothing is in flight, not even an
older generation stopped synchronously.  `QueuedJobIsTaken`, `StopReturns`:
no lost wakeup, no hanging stop.

*Durable worker.*  `NoAcceptedJobLost`: a row leaves the queue only after a
result was committed.  `ProcessingIsHeld`: under a live worker a row in state
processing is the one in hand, or one whose `reject` failed in this process; no
crash, failing store or failing acknowledgement leaves one, and a restart brings
all of them back.  `ResultIsFinal`: a retained result keeps its verification
identity through retries.  `SettledUnlessTorn`: each accepted job settles, or
one of the two states named in the property occurred.

*Registry.*  `RegistryInv`: the three indexes agree and retention is bounded;
`FileIsRetained`: a restart never brings back an evicted or replaced result.

*Intake.*  `NoSecondJobInWindow`, `IntakeInv` (one request per delivery at a time),
`RefusedOnlyIfHandled`.  The first two except deliveries the guard dropped at
its limit, which is what `prune` does to reservations and open windows alike;
the third does not.  `WindowsStayOpen`: where such a drop let two requests
coordinate one delivery, the rollback of one does not remove what the other
committed, nor does its commit prolong it.

*Lifecycle.*  `AtRest`: between transitions a started service serves and any
other is quiet.  `NoOperationOnClosedStores`.  `CallsReturn`: every call
returns, except while the loop spins: a start after a close runs it over closed
databases, where `dequeue` throws and `runLoop` continues at once in microtasks,
so nothing else in the process runs (`Spin`).

*Comments.*  `StoredWasPublished`: the registry holds a verdict only after the
pull request was shown it.  A publication is *overtaken* when another one writes
after it listed the comments.  `NewestIsShown`: until another one writes, the
comment later ones will update carries the verdict of the last publication,
whatever overlapped it and whatever earlier failures left, unless that one was
overtaken before its own write.  Therefore such a publication creates a comment
only where the first page has none of the bot's.

*Outcomes.*  `NoMissedOutcome`: a call waits only for a job whose outcome is not
remembered.  `Inv`: what is remembered of a job is its last settling.

*Check Runs.*  `NeverRegresses`: the verdict shown on a commit never gives way
to an older one, whatever the publisher forgot; excepted are changes behind its
back, which the property names.  `StaleIsSuperseded`: a result that was admitted
is refused as stale only if a newer one was shown, never because of one that
failed or was another App's.  (A result computed for another commit than
`expectedHeadSha` is refused with the same error before it is admitted, and
before any comparison: `Refusal`.)  `WrittenIsShown`: a publication that waits
for the answer of its write has its verdict on top of the commit's own runs, also
after the run it was to update vanished, unless an abandoned write created a run
since its listing.  `OthersUntouched`, `EveryCallSettles`; `Inv`: what stands on a
commit was computed for it.

*Snapshots.*  `WriteOnce`: the refinement.  `ComposedIsTrusted`: a composition
holds exactly the dependencies its name is made of, and all of its source.
`MetadataIsOfArtifact`: metadata names the artifact beside it, however many
builds raced.  `ReportedIsStored`: losers of races too report what is there.
`Inv`: the lock of a composition belongs to the one worker inside the interval
it protects.  `JobsEnd`: also of one that waits for a lock nobody will remove.

*Verification.*  `PassIsEarned`, `FailureIsVisible`: no transport error, late
answer, simulation, cancellation or check that was never selected ends as a pass
or hides as partial.  `SnapshotIsExact`: every check sees the one snapshot of
the requested commit, all of its text fetched.  `DependenciesFirst`: a check runs only if those it
depends on are planned, and after those of them that are selected.  `Inv`: a
sandbox process left behind was told to stop, waited for, and ended the
verification.  `VerificationEnds`, whatever the process does.

### The bounds and why they are enough

- *Three generations* are the fewest at which a generation queues behind one
  that is itself queueing, and at which an old stop's continuation meets both a
  retired and a newer generation.  *Two stoppers* may await different
  generations.  *Two jobs* let one be in flight while the other is queued.
  The proofs remove these bounds for the safety properties.
- *Two crashes and two failing commits* allow a crash during the recovery of a
  crash, and a reject that fails after a store that failed.  *Retention 1*
  makes every second result evict the first, so that a job runs again after its
  result is gone.
- *Retention 2 with three identities of each kind*: a replacement then changes
  an entry that is neither the oldest nor the only one, and an insertion evicts.
- *Two guard entries for three deliveries*: the limit is reached with a
  reservation in the map.  *Two ticks*: an entry can be older than another and
  both unexpired.  `MaxJobs` bounds a counter and nothing else.
- *Two workers and two jobs* in the snapshot store: every race is between two
  jobs, and whatever jobs before them left (a published source, one that an
  earlier release composed in place, an artifact with its metadata, without, or
  with unreadable metadata) is among the initial states of the commit in `Used`.
- *Two calls at a time, three in all* at the Check Runs: a chain, and a call
  after it; *one remembered freshness for two commits* evicts at every change of
  commit; *three runs* are an own one, a foreign one and one that is created.
- *29 requests*: one for each way through the stages and the planner's rules;
  *four checks* with one dependency and one without an execution spec.
- *Four callers*: a start waiting for a shutdown, a stop that joined it, a start
  that joins the startup, and one call more.
- *Two remembered outcomes for three jobs*: the bound is reached; *two waiters*
  for one job or two.
- *A page of 2 with two foreign entries*: the bot's comment can be the first of
  the page, share it with a duplicate or a foreign one, or be off it, as in a
  discussion of more than 100 comments.  *One failing request* is
  enough for a lost answer followed by the review fallback; *three jobs* for a
  race of two and a third that publishes beside or after them; *two results kept* for the eviction of a
  job whose publication is still in flight.
- Counters that only bound the exploration are constants named `Max...` and
  appear in the guard of the action they bound.

Every instance is large enough that each property of its run is violated when one
of the operators marked *Faulty* takes the place of the operator after it.

Symmetry (identities, jobs, waiters, deliveries, verdicts) is used in runs whose properties are
safety properties only.

### Fairness

| specification | fairness | why the code justifies it |
|---|---|---|
| `JobRuntime!FairSpec` | weak, each generation's loop step and each stop's continuation | a resolved promise's continuation is run by the event loop; the processor is awaited and settles (the canonical processor computes locally) |
| `DurableWorker!FairSpec` | weak, the worker's steps and `Restart` | the loop keeps consuming; the deployment restarts the process (`compose.example.yml`, `restart: unless-stopped`) |
| `ServiceLifecycle!FairSpec` | weak, the end of an operation and the steps of a transition | jobs settle; the server calls back for bind and close |
| `CheckRunPublisher!Spec` | weak, each call's `Work` | every request is answered or fails: Node's fetch gives up on a silent server |
| `SnapshotStore!Spec` | weak, each worker's `Step` | file operations and the polling of the lock end while the process lives |
| `VerificationPipeline!Spec` | weak, the requests to GitHub, the awaits of the stages, and the three timers (`TimedOut`, `Leave`, `GiveUp`) | fetch's own limits; copies end; timers fire.  Nothing is assumed of the sandbox process |

Nothing is assumed of callers, of the arrival of webhooks, of failures or of
time.  `ServiceLifecycle` assumes no fairness for the beginning of an operation.

### Deadlock

Checked everywhere except in the `DurableWorker`, `CheckRunPublisher` and
`SnapshotStore` runs: with bounded jobs, calls and crashes these systems
legitimately come to rest, idle with nothing left to do.  What could wait for
ever there is the subject of `SettledUnlessTorn`, `EveryCallSettles` and
`JobsEnd`.

## 4 What is proved

For all values of the constants, under the assumptions the modules state
(`RuntimeAssumption`, `DurableAssumption`, `LifecycleAssumption`,
`PublisherAssumption`, `SettledAssumption`, `IntakeAssumption`,
`RegistryAssumption`, `StoreAssumption`, `BoundAssumption`, `GitHubAssumption`, `PipelineAssumption`, `MarkerAssumption`: bounds are
naturals, markers differ from the values beside them, ranks are distinct, an
install holds dependency paths only, inputs have the fields of their types).
Every safety property of a passing run is stated by a theorem.

| theorem | statement |
|---|---|
| `JobRuntimeProofs!TypeCorrect` | `Spec => []TypeOK` |
| `JobRuntimeProofs!InductiveInvariant` | `Spec => [](TypeOK /\ IInv)` |
| `JobRuntimeProofs!OneOperation` | `Spec => []AtMostOneOperation` |
| `JobRuntimeProofs!WaiterKeepsItsResolver` | `Spec => []ParkedIsWakeable` |
| `JobRuntimeProofs!SubscribedAndQuiescent` | `Spec => [](ActiveIsSubscribed /\ QuiescentAfterStop)` |
| `DurableWorkerProofs!InductiveInvariant` | `Spec => [](TypeOK /\ IInv)` |
| `DurableWorkerProofs!NothingLost` | `Spec => []NoAcceptedJobLost` |
| `DurableWorkerProofs!NothingStranded` | `Spec => []ProcessingIsHeld` |
| `DurableWorkerProofs!IdentityIsFinal` | `Spec => ResultIsFinal` |
| `CommentPublisherProofs!InductiveInvariant` | `Spec => [](Publications /\ IInv)` |
| `CommentPublisherProofs!VerdictsWereShown` | `Spec => []StoredWasPublished` |
| `CommentPublisherProofs!TypesAreKept` | `Spec => []TypeOK` |
| `CommentPublisherProofs!TheNewestIsShown` | `Spec => []NewestIsShown` |
| `CheckRunPublisherProofs!InductiveInvariant` | `Spec => []IInv` |
| `CheckRunPublisherProofs!ShownOnItsCommit` | `Spec => []Inv` |
| `CheckRunPublisherProofs!VerdictsNeverRegress` | `Spec => NeverRegresses` |
| `CheckRunPublisherProofs!StaleWasSuperseded` | `Spec => StaleIsSuperseded` |
| `CheckRunPublisherProofs!WritesAreShown` | `Spec => WrittenIsShown` |
| `CheckRunPublisherProofs!OthersStay` | `Spec => OthersUntouched` |
| `ServiceLifecycleProofs!InductiveInvariant` | `Spec => [](TypeOK /\ IInv)` |
| `ServiceLifecycleProofs!RestsConsistent` | `Spec => []AtRest` |
| `ServiceLifecycleProofs!TransitionsAreSafe` | `Spec => [](TransitionsExclude /\ NoOperationOnClosedStores)` |
| `BoundedMemoriesProofs!NoCallerMisses` | `Spec => []NoMissedOutcome` |
| `BoundedMemoriesProofs!RemembersTheLast` | `Spec => []Inv` |
| `BoundedMemoriesProofs!OneRequestCoordinates` | `IntakeSpec => []IntakeInv` |
| `BoundedMemoriesProofs!FailuresStayRetryable` | `IntakeSpec => []RefusedOnlyIfHandled` |
| `BoundedMemoriesProofs!NoReplayInWindow` | `IntakeSpec => NoSecondJobInWindow` |
| `BoundedMemoriesProofs!OpenWindowsStay` | `IntakeSpec => WindowsStayOpen` |
| `BoundedMemoriesProofs!IndexesStayConsistent` | `RegistrySpec => []RegistryInv` |
| `BoundedMemoriesProofs!FileHoldsTheRetained` | `RegistrySpec => []FileIsRetained` |
| `SnapshotStoreProofs!InductiveInvariant` | `Spec => []IInv` |
| `SnapshotStoreProofs!TypesAndLeases` | `Spec => []Inv` |
| `SnapshotStoreProofs!LeasesAreExclusive` | `Spec => []LeaseIsExclusive` |
| `SnapshotStoreProofs!ImplementsWriteOnce` | `Spec => WriteOnce` |
| `SnapshotStoreProofs!CompositionsAreTrusted` | `Spec => []ComposedIsTrusted` |
| `SnapshotStoreProofs!MetadataMatches` | `Spec => []MetadataIsOfArtifact` |
| `SnapshotStoreProofs!ReportsHold` | `Spec => []ReportedIsStored` |
| `VerificationPipelineProofs!InductiveInvariant` | `Spec => []IInv` |
| `VerificationPipelineProofs!TypesAndProcesses` | `Spec => []Inv` |
| `VerificationPipelineProofs!PassesAreEarned` | `Spec => []PassIsEarned` |
| `VerificationPipelineProofs!FailuresAreVisible` | `Spec => []FailureIsVisible` |
| `VerificationPipelineProofs!OneExactSnapshot` | `Spec => []SnapshotIsExact` |
| `VerificationPipelineProofs!OrderedAndAlone` | `Spec => [](DependenciesFirst /\ NoProcessLeft)` |

**Job runtime.**  `AtMostOneOperation` is not inductive: whether a generation
that is granted its slot is alone depends on the whole chain.  `IInv` adds that
the chain is a queue ordered by generation: each chained loop waits on the
nearest older chained loop (`ChainLinks`), the tail is the newest (`ChainTail`),
a loop outside the chain holds no link into it (`NoStaleLink`), and generations
are minted in order (`GenerationOrder`).  The head of the chain alone has no
link, and only a loop without a link operates.  `QuiescentAfterStop` needs
`Retirement` besides: while an older loop is chained, every newer one is still
queueing behind it, so the newest loop's return, which the stop awaited, implies
that all older ones left.  `ParkedIsWakeable` needs `WakeupOwner`: a suspended
loop belongs to the active generation, and hence there is only one.

**Durable worker.**  `IInv` adds that the row of the job in hand is in state
processing and that a job is acknowledged only with a committed result
(`HeldRow`); a row leaves its hand in state processing only through a failing
`reject`.  The action property `ResultIsFinal` follows from the guard of
`StoreCommits` and the types.

**Service.**  `IInv` says what is up at every point of a startup
(`StartupInvariant`), of a shutdown (`ShutdownInvariant`) and between them
(`RestInvariant`).

**Comments.**  `StoredWasPublished` is not inductive: that what is stored was
shown depends on what the publication carried since its evidence.  `IInv` adds
that a publication in flight has its verdict, that what took effect is that
verdict, and that its job's result has none yet.  `OneStep` reduces each action
to the one publication it moves; `FoundPosition` is why the first marked entry
exists (a least element, by well-founded inclusion of intervals).  The types of
the two sequences play no part there: `Publications` is what that proof needs of
them.  What is shown needs them, and `ShownInv`: a write overtakes every other
publication that knows a listing, so a publication that was not overtaken knows
the comments as they are (`InOrder`, `UpToDate`), since the only entries that
appear meanwhile are other people's and never come before the bot's; and until
another publication writes its verdict stands in a comment or a review, and a
marked comment that is the oldest of the first page is its own (`Shown`).

**Check Runs.**  Nothing in the publisher's memory says that one publication of
a commit works at a time; the chain of promises does (`ChainInv`: at most one
unsettled call of a key waits for nobody, only such a call works, and the last of
the chain is nobody's predecessor).  Therefore what a call saw when it listed is
still so when it writes (`ListedInv`), unless a request that was given up on
lands, or GitHub changes, in between: exactly the cases that `NeverRegresses`
names.  `MemoryInv` keeps the remembered freshness among what was shown, so that
a refusal of an admitted result as stale had a newer verdict before it; `WritesInv` and `RunsInv` keep
each update aimed at a run of its own commit, late ones included, because run
numbers are not given out again.

**Outcomes.**  `NoMissedOutcome` is inductive beside the types once it is known
that remembering an outcome makes no other job remembered (`RememberEffect`),
with or without an eviction: the job that settles has its waiters resolved in the
same step.  `RemembersLast` needs the same lemma: an outcome is replaced in its
place, so an eviction uncovers no older one.

**Replay guard.**  `IntakeIInv` adds to `IntakeInv` that `newer` orders what is held
(`Ordered`), what a request that handles a delivery has done (`Handling`), that
no reservation outlives its request and nothing is committed that was not handled
(`Entries`), and that the entry of a delivery that the limit did not drop follows
its request and then its window (`Undropped`).  That the guard is `Bounded` rests
on a finite set of entries having an oldest one in a strict order
(`OldestExists`): one pass of `prune` leaves at most the limit (`KeptIsBounded`),
and the reservation being made comes on top of it.

**Registry.**  `RegistryIInv` says more than the indexes' agreement: `OrderOf` and
`IndexesOf` make memory one set of results under three identities
(`InsertKeepsSound`, `EvictKeepsSound`), the entry list names each queue job once
(`Lists`), and the file, whichever store wrote it, names each identity once
(`IsFile`).  The last part is why a restart is sound: no entry of such a file
conflicts with one before it and none is evicted (`NextEntryIsStored`), so the
memory after loading n entries is the one that holds exactly those (`First`).
`LoadedIsFile` proves that of the recursion in `Loaded`: the recursive equation
has this solution, and a second one would have a least entry at which it differs
(`LeastNumber`).  `IncreasingExists` is why `filter` can be said by positions: the
rank of each position is one to one onto the ranks.

**Snapshot store.**  `IInv` has three parts.  `StoreComplete`: every snapshot is
complete.  `Work`: what a job is to publish may be published under its name when
it comes to that; a composition carries its whole source from the start,
keeps it through the overlay of generated output because shared paths are
refused, and holds the dependencies of its name once `Verify` has looked.
`LeaseIsExclusive`: a lock and the interval it protects coincide.  Every action
moves one worker (`OneMoves`), and either keeps its lease, gives it or takes it
(`LockKept`, `LockGiven`, `LockTaken`); only `Rename` writes a snapshot, and where
none was (`NextDir`).  The refinement follows step by step (`StepRefines`): that
write is `Store!Put`, anything else a stutter.

The properties that relate two names rest on that: what a job read or published
goes on being there (`Stays`), so it goes on backing the job (`BackedStays`).
`Relations` adds to the three properties what backs each job in hand
(`AllBacked`): a composition has the source it was begun from, a job that is
releasing its lease after a success has its tree stored, and a builder about to
write metadata has its artifact in place unless that was changed behind its
back.  `NextRelates`, `NextMetadata` and `NextComposed` need each other's
relations, hence the one theorem `RelationsInvariant` from which the three follow.
`TypesAndLeases` takes the leases from `IInv` and adds the types of what plays no
part in it: counters, reports, metadata, and the lease times of a worker at rest.

**Verification.**  `IInv` follows a verification through its stages: what was
fetched (`SourceInv`), what the sandbox will be asked for (`SnapshotInv`), which
checks are left (`SelectionInv`), which process may run (`ProcessInv`), what is
earned when the transport takes an answer for a success (`EarnedInv`), and the
verdict.  `NextBlobIsUnread` and `NextCheckIsFirst` are why the choice of the
next blob and check is one: least elements, by well-founded induction's
consequence for numbers.  `TypesAndProcesses` adds the types and that dependencies
are provided at most once.

Model-checked only: the liveness properties (`QueuedJobIsTaken`, `StopReturns`,
`SettledUnlessTorn`, `CallsReturn`, `EveryCallSettles`, `JobsEnd`,
`VerificationEnds`), which need fairness and ENABLED, out of the prover's reach.

## 5 Disagreements with the documentation

Each of these two is a run TLC ends with a counterexample, and a row of
`findings`.

1. `DurableWorker_torn`: the result and the acknowledgement are commits of two
   databases.  After a crash between them the recovered job runs under a new
   verification identity, the registry refuses it, the queue gets it back, for
   ever, while `docs/RESULT-STORAGE.md:41-44` describes it as recovered.
2. `ServiceLifecycle_resurrect`: stop, start, stop in a row ends with the
   service up after the last stop returned (`github-verification-service.ts:227-229`
   says it cannot).

Further disagreements, met while modelling; the models behave as the code does:

- A job that always fails returns to the head of the SQLite queue
  (`sqlite-job-queue.ts:86-97`) and starves the others; `runtime.ts:82-84` says
  that a failing job never stops the loop and that no retries are attempted.
  `SettledUnlessTorn` speaks of the jobs before it only.
- After a replacement the file registry's entry list and its memory evict in
  different orders (`result-registry.ts:276-281`, 174): a result still served is
  missing from the file of the "restart-safe registry" (207-210).
  `FileIsRetained` states the direction that holds.
- Nothing orders two publications of one pull request: two that both list no
  comment both create one (`github-pr-comment.ts:537`, 557), while
  `docs/GITHUB-APP-DEPLOYMENT.md:90` and `src/README.md:41` speak of one marked
  comment that is updated.  `NewestIsShown` excepts an overtaken publication; TLC
  refutes it without that exception, with two jobs and no fault.
- A start that joins a close goes on over closed databases
  (`github-verification-service.ts:338-339`: "start fresh"; `CallsReturn`
  excepts the spinning that follows).
- `waitForQueueJob` does not look in the registry, as `runtime.ts:104-107` says
  it does.
- A lock whose holder died, or could not remove it, blocks its composition until
  somebody removes it, while `snapshot-composition.ts:117` says it is always
  released through `finally`; each composition then gives up at its deadline
  (`JobsEnd`).

What a reader of the code may not expect, and the models show or rest on:

- *Snapshot store.*  A crash between the rename of an artifact and the write of
  its metadata (`dependency-provisioning.ts:996`) leaves an artifact that only a
  build of the very same bytes can complete.  A directory that an earlier
  release composed in place is accepted by the publisher, but can never be
  composed: it has entries where the dependencies belong.
- *Verification.*  The wire id of a sandbox job is shared by its checks and
  retries (`execution.ts:133`): only the process of its own binds an answer to a
  check.  A disabled check satisfies a dependency, and a dependent check runs
  although the one it depends on failed.  An error of the planner has no code
  and ends as unclassified.  A 429 during the discovery of an installation loses
  its class (`github-app.ts:725-739`).  A file with `..` in its name fails the
  whole acquisition; a symbolic link becomes a text file; the sha and size of a
  blob are taken as GitHub states them (`github.ts:686-712`).  With explicit
  provisioning the sandbox is asked for the plain source snapshot.

## 6 What is not modelled

Abstracted in the modules above:

- contents of results and payloads, HTTP header and signature checks, wording of
  errors, logging; `clear()` of the queues and `checkAndRemember` (used by the
  handler without an orchestrator);
- the evidence behind a comment's verdict (`mvp-verdict.ts`,
  `pr-requirements.ts`): a nondeterministic choice in `CommentPublisher!Gathered`;
- the abort of a sandbox execution by a signal: no caller passes one
  (`sandbox-transport.ts:408-424`), so it cannot happen;
- a blob answer without `content`, which the code takes for an empty file
  (`github.ts:694`): `GitHubSource` takes an answer to carry its content;
- a child that closes its stdin before the request is written: the stream has no
  error listener (`sandbox-transport.ts:349`), so the error reaches the process
  and not the execution; in the model a process that starts has its request;
- App JWTs and the choice of an authentication kind, which no app wires; the
  catalogue of checks, lockfile parsing and the identity of a platform, which
  are constants; findings and scores, on which no verdict depends;
- the preparers of generated output: `SnapshotStore` takes what they copy to be
  the declared output paths (`environment-materializer.ts:109-126`,
  `generated-artifacts.ts:166-167`).  No caller in `src` asks a composition for
  generated output, and none but library callers configures the planner or
  explicit provisioning: the models take both as inputs.

Out of the prover's reach, and so left to TLC: liveness and ENABLED.  Induction
over data cannot be cited from the library either; the two places that need it
(`Loaded` of the registry, the least elements) are proved by a least
counterexample instead.

Not modelled: the HTTP API's routing and serialization, language detection, the
AI explanation text, domain shape validation and configuration: stateless code
in which a small instance would show nothing that a unit test does not.

What would come next: the evidence behind a comment's verdict as operators
against reference definitions; an abstract contract of a result registry
implemented by both registries, with the refinement proved.
