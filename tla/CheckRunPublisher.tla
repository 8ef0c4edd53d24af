------------------------- MODULE CheckRunPublisher -------------------------
(***************************************************************************)
(* Publication of verification results as GitHub Check Runs:               *)
(* createGitHubCheckPublisher of adapters-source/src/github-checks.ts.     *)
(*                                                                         *)
(* Every publication checks the identity of its result before any network  *)
(* access, waits for the one before it on the same key (repository, check  *)
(* name, exact commit), looks at the newest freshness it remembers, lists  *)
(* the Check Runs of the commit, compares its freshness with the marker on *)
(* the newest own run, and updates that run or creates one.  The process   *)
(* may crash; a request it gave up on may still take effect at GitHub;     *)
(* another App may have a run under the same name; a run may vanish.       *)
(*                                                                         *)
(* A definition marked "Faulty" takes no part in the specification.        *)
(***************************************************************************)
EXTENDS Integers, FiniteSets

CONSTANTS
    None,          \* no run, no call, no marker, no expectation
    Calls,         \* calls of publishVerificationResult under way at a time
    Repos, Shas,   \* repositories, exact commits
    Inputs,        \* what the calls may be given
    ForeignVers,   \* freshness markers that another App's run may carry
    MaxFreshness,  \* maxFreshnessEntries
    MaxCalls,      \* bound: calls ever made
    MaxRuns,       \* bound: Check Runs ever created, over all keys
    MaxCrashes,    \* bound: restarts of the process
    MaxGivenUp     \* bound: requests given up on that are still on their way

\* One key for each commit of a repository: there is one check name.
Keys == Repos \X Shas
Conclusions == {"success", "failure", "neutral"}
\* A freshness: createdAt in milliseconds, then the content hash.
Vers == [ms : Int, hash : Int]
Ids == 1..MaxRuns

Request == [key : Keys, of : Keys, ver : Vers, conclusion : Conclusions]
Run == [key : Keys, app : {"own", "foreign"}, of : Keys \cup {None},
        ver : Vers \cup {None}, conclusion : Conclusions]
Write == [id : Ids \cup {None}, req : Request]

ASSUME PublisherAssumption ==
    /\ IsFiniteSet(Repos) /\ IsFiniteSet(Shas)
    /\ \A in \in Inputs :
         /\ {"result", "snapshot", "repository", "expected"} \subseteq DOMAIN in
         /\ in.repository \in Repos
         /\ in.result.createdAt \in Int /\ in.result.id \in Int
         /\ in.result.contentHash \in {None} \cup Int
    /\ ForeignVers \subseteq Vers
    /\ MaxFreshness \in Nat \ {0}
    /\ {MaxCalls, MaxRuns, MaxCrashes, MaxGivenUp} \subseteq Nat
    /\ None \notin Calls /\ None \notin Ids /\ None \notin Vers /\ None \notin Keys
    /\ None \notin Run /\ None \notin Conclusions

VARIABLES
    calls,     \* calls made so far
    pc,        \* where each call is
    req,       \* what each call is to publish, once its identity is checked
    after,     \* the unsettled call it waits for, or None (its "previous" promise)
    target,    \* the run it is to update, None for a creation
    tail,      \* publicationChains: the last unsettled call of each key
    latest,    \* latestByKey: the freshness last published on each key ...
    recency,   \* ... and when, for the eviction of the oldest entry
    run,       \* the Check Runs at GitHub
    nextId,
    givenUp,   \* writes nobody waits for that may still take effect
    crashes,
    shown,     \* history: every freshness an own run of the key has carried
    disturbed  \* history: calls whose key changed at GitHub, behind the
               \* publisher's back, between their listing and their write

remembered == <<latest, recency>>
memory == <<tail, remembered>>
github == <<run, nextId, givenUp, shown>>
vars == <<calls, pc, req, after, target, memory, github, crashes, disturbed>>

Waiting == {"queued"}
Working == {"list", "write", "answer"}
\* "failed": refused, given up on, or cut short by a crash; "stale": refused with
\* a StaleVerificationResultError.
Settled == {"done", "failed", "stale"}

\* A run that stands on a commit already: an own one of an earlier release,
\* without a marker, or another App's, which may carry any external_id.
Preexisting ==
    [key : Keys, app : {"own"}, of : {None}, ver : {None}, conclusion : {"success"}]
    \cup [key : Keys, app : {"foreign"}, of : {None}, ver : ForeignVers, conclusion : {"success"}]

Init ==
    /\ calls = 0
    /\ pc = [c \in Calls |-> "idle"]
    /\ req = [c \in Calls |-> None]
    /\ after = [c \in Calls |-> None]
    /\ target = [c \in Calls |-> None]
    /\ tail = [k \in Keys |-> None]
    /\ latest = [k \in Keys |-> None]
    /\ recency = [k \in Keys |-> 0]
    /\ \E first \in {None} \cup Preexisting :
         /\ run = [i \in Ids |-> IF i = 1 THEN first ELSE None]
         /\ nextId = IF first = None THEN 1 ELSE 2
    /\ givenUp = {}
    /\ crashes = 0
    /\ shown = [k \in Keys |-> {}]
    /\ disturbed = {}

-----------------------------------------------------------------------------
(***************************************************************************)
(* Before any network access.                                              *)
(***************************************************************************)

\* mapVerificationStatusToCheckConclusion; None: it throws.
Conclusion(status) ==
    CASE status = "pass" -> "success"
      [] status \in {"blocked", "error"} -> "failure"
      [] status \in {"needs_changes", "needs_review", "partial"} -> "neutral"
      [] OTHER -> None

\* readResultOrdering: without a content hash, the result's id takes its place.
Ordering(result) ==
    [ms |-> result.createdAt,
     hash |-> IF result.contentHash = None THEN result.id ELSE result.contentHash]

\* formatVerificationFreshnessMarker: a time before 1970, like one that does
\* not parse, has no marker.
Representable(ver) == ver.ms >= 0

\* compareVerificationFreshness(v, w) < 0
Older(v, w) == v.ms < w.ms \/ (v.ms = w.ms /\ v.hash < w.hash)

\* resolveHeadSha and assertPublicationIdentity: the result, the snapshot and
\* the repository name one and the same commit.
Identified(in) ==
    LET sha == in.snapshot.sourceState
        key == <<in.repository, sha>>
    IN /\ sha \in Shas
       /\ in.result.snapshotId = in.snapshot.id
       /\ in.result.projectId = in.snapshot.projectId
       /\ in.snapshot.provider = "github"
       /\ in.snapshot.reference = sha
       /\ in.snapshot.commitSha = sha
       /\ in.snapshot.projectId = in.repository
       /\ in.snapshot.id = key

\* expectedHeadSha, if given, is the result's commit.
AsExpected(in) == in.expected \in {None, in.snapshot.sourceState}

\* Faulty: the result's own snapshot id is not compared.
AcceptedUnbound(in) ==
    /\ Identified([in EXCEPT !.result.snapshotId = in.snapshot.id])
    /\ AsExpected(in)
    /\ Conclusion(in.result.status) # None
    /\ Representable(Ordering(in.result))

\* What else can refuse a publication at once: an expected head that is not
\* the result's commit, an unknown status, an ordering without a marker.
Accepted(in) ==
    /\ Identified(in)
    /\ AsExpected(in)
    /\ Conclusion(in.result.status) # None
    /\ Representable(Ordering(in.result))

\* A result for another commit than the expected one is refused as stale, after
\* its identity was checked; all else is an error.
Refusal(in) == IF Identified(in) /\ ~AsExpected(in) THEN "stale" ELSE "failed"

RequestOf(in) == [key |-> <<in.repository, in.snapshot.sourceState>>,
                  of |-> in.result.snapshotId,
                  ver |-> Ordering(in.result),
                  conclusion |-> Conclusion(in.result.status)]

\* runSerialized: the call waits for the tail of its key's chain and becomes it.
Enqueue(c, r) ==
    /\ pc' = [pc EXCEPT ![c] = "queued"]
    /\ req' = [req EXCEPT ![c] = r]
    /\ after' = [after EXCEPT ![c] = tail[r.key]]
    /\ tail' = [tail EXCEPT ![r.key] = c]

\* publishVerificationResult up to its first await.
Publish(c) ==
    /\ pc[c] \notin Waiting \cup Working
    /\ calls < MaxCalls
    /\ calls' = calls + 1
    /\ \E in \in Inputs :
         IF Accepted(in)
         THEN Enqueue(c, RequestOf(in))
         ELSE pc' = [pc EXCEPT ![c] = Refusal(in)] /\ UNCHANGED <<req, after, tail>>
    /\ UNCHANGED <<target, remembered, github, crashes, disturbed>>

-----------------------------------------------------------------------------
(***************************************************************************)
(* The serialized work.                                                    *)
(***************************************************************************)

\* Faulty: only a call that succeeds lets the next one run.
ReleasedBySuccess(c, outcome) ==
    [d \in Calls |-> IF after[d] = c /\ outcome = "done" THEN None ELSE after[d]]

\* Whoever waits for a call that settles need not wait, whatever came of it.
Released(c, outcome) == [d \in Calls |-> IF after[d] = c THEN None ELSE after[d]]

\* Faulty: the chain is removed though another call has joined it.
ChainRemoved(c) == [tail EXCEPT ![req[c].key] = None]

\* The last call of a chain removes the chain when it settles.
ChainAfter(c) == [k \in Keys |-> IF tail[k] = c THEN None ELSE tail[k]]

Settle(c, outcome) ==
    /\ pc' = [pc EXCEPT ![c] = outcome]
    /\ after' = Released(c, outcome)
    /\ tail' = ChainAfter(c)
    /\ req' = [req EXCEPT ![c] = None]
    /\ target' = [target EXCEPT ![c] = None]
    /\ disturbed' = disturbed \ {c}
    /\ UNCHANGED <<calls, crashes>>

Moves(c, to) ==
    /\ pc' = [pc EXCEPT ![c] = to]
    /\ UNCHANGED <<calls, req, after, tail, crashes>>

\* The local fast path: older than what this process last published here.
Begin(c) ==
    /\ pc[c] = "queued" /\ after[c] = None
    /\ LET known == latest[req[c].key]
       IN IF known # None /\ Older(req[c].ver, known)
          THEN Settle(c, "stale")
          ELSE Moves(c, "list") /\ UNCHANGED <<target, disturbed>>
    /\ UNCHANGED <<remembered, github>>

Newest(ids) == CHOOSE i \in ids : \A j \in ids : j <= i

\* Faulty: the runs of other Apps are trusted.
OwnRunsAnyApp(k) == {i \in Ids : run[i] # None /\ run[i].key = k}

\* isVerifyAgentOwnedRun, for the runs of this commit under this name.
OwnRuns(k) == {i \in Ids : run[i] # None /\ run[i].key = k /\ run[i].app = "own"}

\* Faulty: a run without a readable marker is overwritten.
UpdatableUnread(c, found) ==
    IF run[found].ver = None THEN TRUE ELSE ~Older(req[c].ver, run[found].ver)

\* An existing run may be updated: its marker can be read and is not newer.
Updatable(c, found) ==
    run[found].ver # None /\ ~Older(req[c].ver, run[found].ver)

\* acquireInstallationToken, findExistingCheckRun, and what the answer decides.
List(c) ==
    /\ pc[c] = "list"
    /\ LET own == OwnRuns(req[c].key)
           found == Newest(own)
       IN \/ own = {} /\ Moves(c, "write") /\ UNCHANGED <<target, disturbed>>
          \/ /\ own # {} /\ Updatable(c, found)
             /\ target' = [target EXCEPT ![c] = found]
             /\ Moves(c, "write") /\ UNCHANGED disturbed
          \/ /\ own # {} /\ ~Updatable(c, found)
             /\ Settle(c, IF run[found].ver = None THEN "failed" ELSE "stale")
          \/ Settle(c, "failed")
    /\ UNCHANGED <<remembered, github>>

Content(r) == [key |-> r.key, app |-> "own", of |-> r.of,
               ver |-> r.ver, conclusion |-> r.conclusion]

\* A write takes effect at GitHub: createCheckRun's POST for a target None,
\* updateCheckRun's PATCH of the whole content and marker otherwise.
Applied(id, r) ==
    /\ IF id = None
       THEN nextId \in Ids /\ run' = [run EXCEPT ![nextId] = Content(r)] /\ nextId' = nextId + 1
       ELSE run[id] # None /\ run' = [run EXCEPT ![id] = Content(r)] /\ UNCHANGED nextId
    /\ shown' = [shown EXCEPT ![r.key] = @ \cup {r.ver}]

WriteApplied(c) ==
    /\ pc[c] = "write"
    /\ Applied(target[c], req[c])
    /\ Moves(c, "answer")
    /\ UNCHANGED <<target, remembered, givenUp, disturbed>>

\* Faulty: the 404 of a vanished run is taken for success.
NotFoundIsFine(c) ==
    /\ pc[c] = "write" /\ target[c] # None
    /\ Moves(c, "answer")
    /\ UNCHANGED <<target, remembered, github, disturbed>>

\* A PATCH answered 404: the call creates a run instead.
UpdateNotFound(c) ==
    /\ pc[c] = "write" /\ target[c] # None
    /\ target' = [target EXCEPT ![c] = None]
    /\ Moves(c, "write")
    /\ UNCHANGED <<remembered, github, disturbed>>

\* Nobody waits for the write of c any more; it may yet take effect.
Abandoned(cs) ==
    /\ \E ds \in SUBSET cs :
         givenUp' = givenUp \cup {[id |-> target[c], req |-> req[c]] : c \in ds}
    /\ Cardinality(givenUp') <= MaxGivenUp

WriteFails(c) ==
    /\ pc[c] = "write"
    /\ Settle(c, "failed")
    /\ Abandoned({c})
    /\ UNCHANGED <<remembered, run, nextId, shown>>

Oldest == CHOOSE k \in Keys :
    /\ latest[k] # None
    /\ \A l \in Keys : latest[l] # None => recency[k] <= recency[l]

\* latestByKey is refreshed; a new entry evicts the least recent beyond the bound.
Remember(k, ver) ==
    LET full == latest[k] = None
                /\ Cardinality({l \in Keys : latest[l] # None}) >= MaxFreshness
        kept == IF full THEN [latest EXCEPT ![Oldest] = None] ELSE latest
    IN /\ latest' = [kept EXCEPT ![k] = ver]
       /\ recency' = [l \in Keys |->
            IF l = k THEN Cardinality(Keys)
            ELSE IF recency[l] > 0 /\ recency[l] > recency[k] THEN recency[l] - 1 ELSE recency[l]]

\* The answer to the write: success is remembered; a lost or odd one is not.
Answer(c) ==
    /\ pc[c] = "answer"
    /\ \/ Settle(c, "done") /\ Remember(req[c].key, req[c].ver)
       \/ Settle(c, "failed") /\ UNCHANGED remembered
    /\ UNCHANGED github

Work(c) == Begin(c) \/ List(c) \/ WriteApplied(c) \/ UpdateNotFound(c)
           \/ WriteFails(c) \/ Answer(c)

-----------------------------------------------------------------------------
(***************************************************************************)
(* Crashes, and GitHub behind the publisher's back.                        *)
(***************************************************************************)

\* The process dies and restarts: chains and freshness map are gone.
Crash ==
    /\ crashes < MaxCrashes
    /\ crashes' = crashes + 1
    /\ Abandoned({c \in Calls : pc[c] = "write"})
    /\ pc' = [c \in Calls |-> IF pc[c] \in Waiting \cup Working THEN "failed" ELSE pc[c]]
    /\ tail' = [k \in Keys |-> None]
    /\ latest' = [k \in Keys |-> None]
    /\ recency' = [k \in Keys |-> 0]
    /\ req' = [c \in Calls |-> None]
    /\ target' = [c \in Calls |-> None]
    /\ disturbed' = {}
    /\ after' = [c \in Calls |-> None]
    /\ UNCHANGED <<calls, run, nextId, shown>>

Disturbs(k) == disturbed' = disturbed \cup {c \in Calls : pc[c] = "write" /\ req[c].key = k}

GivenUpLands(w) ==
    /\ givenUp' = givenUp \ {w}
    /\ Applied(w.id, w.req)
    /\ Disturbs(w.req.key)
    /\ UNCHANGED <<calls, pc, req, after, target, memory, crashes>>

\* An own run vanishes at GitHub.
Vanishes(i) ==
    /\ run[i] # None /\ run[i].app = "own"
    /\ run' = [run EXCEPT ![i] = None]
    /\ Disturbs(run[i].key)
    /\ UNCHANGED <<calls, pc, req, after, target, memory, nextId, givenUp, crashes, shown>>

Next ==
    \/ \E c \in Calls : Publish(c) \/ Work(c)
    \/ Crash
    \/ \E w \in givenUp : GivenUpLands(w)
    \/ \E i \in Ids : Vanishes(i)

\* Every request is answered or fails: fetch gives up on a silent server.
Fairness == \A c \in Calls : WF_vars(Work(c))

Spec == Init /\ [][Next]_vars /\ Fairness

-----------------------------------------------------------------------------
(***************************************************************************)
(* Properties.                                                             *)
(***************************************************************************)

TypeOK ==
    /\ calls \in 0..MaxCalls
    /\ pc \in [Calls -> {"idle"} \cup Waiting \cup Working \cup Settled]
    /\ req \in [Calls -> Request \cup {None}]
    /\ after \in [Calls -> Calls \cup {None}]
    /\ target \in [Calls -> Ids \cup {None}]
    /\ tail \in [Keys -> Calls \cup {None}]
    /\ latest \in [Keys -> Vers \cup {None}]
    /\ recency \in [Keys -> Nat]
    /\ Cardinality({k \in Keys : latest[k] # None}) <= MaxFreshness
    /\ run \in [Ids -> Run \cup {None}]
    /\ nextId \in Nat
    /\ givenUp \subseteq Write
    /\ crashes \in Nat
    /\ shown \in [Keys -> SUBSET Vers]
    /\ disturbed \subseteq Calls

\* The freshness GitHub shows for a key: that of the newest own run.
Shown(k) == IF OwnRuns(k) = {} THEN None ELSE run[Newest(OwnRuns(k))].ver

\* The verdict shown for a commit never gives way to an older one, unless
\* GitHub changed behind the publisher's back (github-checks.ts:46-49).
NeverRegresses ==
    [][\A k \in Keys : Shown(k) # None /\ Shown(k)' # None /\ Older(Shown(k)', Shown(k)) =>
          \/ \E w \in givenUp : w \notin givenUp'
          \/ \E i \in Ids : run[i] # None /\ run'[i] = None
          \/ \E c \in disturbed : pc'[c] = "answer"]_vars

\* A result that its identity and the expected commit admitted is refused as stale
\* only when a newer one of the same commit has been shown: what failed, or was
\* another App's, makes nothing stale.
StaleIsSuperseded ==
    [][\A c \in Calls : pc[c] \in Waiting \cup Working /\ pc'[c] = "stale" =>
          \E v \in shown[req[c].key] : Older(req[c].ver, v)]_vars

\* A publication comes to wait for the answer of its write only with its verdict
\* on top of the commit's own runs, also when the run it was to update vanished:
\* only a run that an abandoned write created since its listing can hide it.
WrittenIsShown ==
    [][\A c \in Calls, k \in Keys :
          pc[c] = "write" /\ pc'[c] = "answer" /\ req[c].key = k =>
              \/ Shown(k)' = req[c].ver
              \/ /\ c \in disturbed /\ target[c] # None
                 /\ \E i \in OwnRuns(k) : i > target[c]]_vars

\* No publication touches a run of another App, nor shows on a commit the
\* verdict of another; a run without a marker stays as it is until it vanishes.
OthersUntouched ==
    [][\A i \in Ids : run[i] # None =>
          \/ run'[i] = run[i]
          \/ run[i].app = "own" /\ run'[i] = None
          \/ run[i].app = "own" /\ run[i].ver # None /\ run'[i].key = run[i].key]_vars

\* What stands on a commit was computed for that very commit.
ShownIsOfItsCommit ==
    \A i \in Ids : run[i] # None /\ run[i].of # None => run[i].of = run[i].key

\* The types, and that no result is shown on a commit it was not computed for
\* (github-checks.ts:903-949), through retries, crashes and abandoned writes.
Inv == TypeOK /\ ShownIsOfItsCommit

\* A publication in a chain settles, whatever became of those before it.
EveryCallSettles == \A c \in Calls : pc[c] = "queued" ~> pc[c] \in Settled
=============================================================================
