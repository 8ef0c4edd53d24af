--------------------- MODULE VerificationPipelineProofs ---------------------
(***************************************************************************)
(* For any commits, catalogue, plan configuration and limits, and whatever *)
(* GitHub and the sandbox processes do: a verification passes only on what *)
(* truly succeeded on the right snapshot, hides no failure, keeps the      *)
(* order of the plan and leaves no process behind unless it failed.        *)
(***************************************************************************)
EXTENDS VerificationPipeline, TLAPS, FiniteSetTheorems, WellFoundedInduction

\* The steps after the source has been fetched, planned for, and selected from.
Executing == {"check", "wait", "leave"}
Selecting == {"provision", "generate"} \cup Executing
Ready == {"plan"} \cup Selecting
Sourced == {"resolved", "materialize"} \cup Ready

\* The one answer that earns a check its success.
Success == [status |-> "completed", exitCode |-> 0]

\* What the proof needs to know of the types.
Types ==
    /\ request \in Requests /\ at \in Steps
    /\ unread \subseteq TreeOf[request.commit]
    /\ environment \in {None} \cup Environment
    /\ todo \subseteq Checks
    /\ results \in [Checks -> {None} \cup CheckStatus]

\* Nothing but the requested commit is fetched, and all of its text.
SourceInv ==
    /\ at \in {"tree", "blobs"} \cup Sourced => sha = request.commit
    /\ at \in {"resolve", "installation", "token", "commit", "tree"} => contents = {}
    /\ at = "blobs" => /\ unread \subseteq Blobs(TreeOf[request.commit])
                       /\ contents = TextOf(request.commit) \ unread
    /\ at \in Sourced => contents = TextOf(request.commit)

\* What the sandbox will be asked for.
SnapshotInv ==
    /\ at \in SourceSteps \cup {"materialize"} => environment = None
    /\ at \in Ready => Snapshot = Expected
    /\ at \notin Executing \cup {"done"} => sent = {}
    /\ SnapshotIsExact

\* A selected check is still to be done or has its result; those before it have.
SelectionInv ==
    /\ at \in Selecting =>
         /\ Selected(request) \subseteq Applicable(request) /\ ~Unplannable(request)
         /\ todo \subseteq Selected(request)
         /\ \A c \in Selected(request) \ todo : results[c] # None
    /\ at \in {"wait", "leave"} => now \in todo
    /\ DependenciesFirst

\* Only the process of the check in hand may run, and before it has answered or
\* run out of time it has not been told to stop.
ProcessInv ==
    /\ at \notin Executing \cup {"done"} => told = {}
    /\ at \in Selecting \ {"leave"} => told \cap todo = {}
    /\ at = "leave" => /\ told \cap todo \subseteq {now}
                       /\ alive \subseteq told
                       /\ outcome \in {Error} \cup Answer
                       /\ outcome # Error => alive = {}
    /\ at \notin {"wait", "leave", "done"} => alive = {}
    /\ at = "wait" /\ exit # None => alive = {}
    /\ NoProcessLeft

\* A success is earned by the time the transport takes it for one.
EarnedInv ==
    /\ at = "wait" /\ out = Success /\ exit = "zero" => <<now, Expected>> \in earned
    /\ at = "leave" /\ outcome = Success => <<now, Expected>> \in earned
    /\ request.source = "real" =>
         \A c \in Checks : results[c] = "passed" => <<c, Expected>> \in earned

VerdictInv ==
    /\ verdict # None => at = "done"
    /\ PassIsEarned
    /\ FailureIsVisible

IInv == Types /\ SourceInv /\ SnapshotInv /\ SelectionInv /\ ProcessInv /\ EarnedInv /\ VerdictInv

-----------------------------------------------------------------------------
(***************************************************************************)
(* A nonempty set of numbers has a least element: the one whose interval   *)
(* of smaller numbers is minimal for inclusion.                            *)
(***************************************************************************)
LEMMA LeastNumber ==
  ASSUME NEW T \in SUBSET Nat, T # {}
  PROVE  \E i \in T : \A k \in T : i <= k
  <1>1. PICK n \in T : TRUE
    OBVIOUS
  <1> DEFINE Low == {i \in T : i <= n}
             Below == {0..i : i \in Low}
             R == StrictSubsetOrdering(0..n)
  <1>2. \A i \in Low : 0..i \in SUBSET (0..n) /\ IsFiniteSet(0..i)
    BY FS_Interval
  <1>3. PICK B \in Below : \A C \in Below : <<C, B>> \notin R
    <2>1. IsFiniteSet(0..n)
      BY FS_Interval
    <2>2. IsWellFoundedOn(R, FiniteSubsetsOf(0..n))
      BY <2>1, FS_StrictSubsetOrderingWellFounded
    <2>3. Below \subseteq FiniteSubsetsOf(0..n)
      BY <1>2 DEF FiniteSubsetsOf
    <2>4. Below # {}
      BY <1>1
    <2> HIDE DEF Below, R
    <2>5. QED
      BY <2>2, <2>3, <2>4, WFMin
  <1>4. PICK i \in Low : B = 0..i
    OBVIOUS
  <1>5. ASSUME NEW k \in T, k < i PROVE FALSE
    <2>1. k \in Low /\ 0..k \subseteq 0..i /\ 0..k # 0..i /\ 0..k \in SUBSET (0..n)
          /\ 0..i \in SUBSET (0..n)
      BY <1>5
    <2>2. <<0..k, B>> \in R
      BY <1>4, <2>1 DEF StrictSubsetOrdering
    <2>3. QED
      BY <1>3, <2>1, <2>2
  <1>6. QED
    BY <1>5

\* The blob fetched next is one that was not fetched yet.
LEMMA NextBlobIsUnread ==
  ASSUME request \in Requests, unread \subseteq TreeOf[request.commit], unread # {}
  PROVE  NextBlob \in unread
  <1> DEFINE Paths == {e.path : e \in unread}
  <1>1. unread \subseteq Entry
    BY GitHubAssumption
  <1>2. Paths \in SUBSET Nat /\ Paths # {}
    BY <1>1 DEF Entry
  <1>3. PICK p \in Paths : \A q \in Paths : p <= q
    <2> HIDE DEF Paths
    <2>1. QED
      BY <1>2, LeastNumber
  <1>4. \E e \in unread : \A f \in unread : e.path <= f.path
    BY <1>3
  <1>5. QED
    BY <1>4 DEF NextBlob

\* The check executed next is the first of those still to be executed.
LEMMA NextCheckIsFirst ==
  ASSUME todo \subseteq Checks, todo # {}
  PROVE  NextCheck \in todo /\ \A d \in todo : Rank[NextCheck] <= Rank[d]
  <1> DEFINE Ranks == {Rank[c] : c \in todo}
  <1>1. Ranks \in SUBSET Nat /\ Ranks # {}
    BY PipelineAssumption
  <1>2. PICK p \in Ranks : \A q \in Ranks : p <= q
    <2> HIDE DEF Ranks
    <2>1. QED
      BY <1>1, LeastNumber
  <1>3. \E c \in todo : \A d \in todo : Rank[c] <= Rank[d]
    BY <1>2
  <1>4. QED
    BY <1>3 DEF NextCheck

\* The request never changes, and neither does what belongs to it.
LEMMA RequestIsFixed == [Next]_vars => request' = request
  BY DEF Next, vars, Source, SourceNext, Resolve, Refused, Discovered, DiscoveryTimedOut,
         TokenCreated, CommitResolved, TreeListed, BlobFetched, Delivered, Await, SourceFailed,
         Becomes, Publish, Materialize, Provision, Generate, PlanChecks, Unmapped, ExecutionFailed,
         Launch, Simulate, Aggregate, Process, Writes, Exits, LeftoverExits, Transport,
         ProcessFailed, ProcessDone, Settled, TimedOut, Leave, GiveUp, Done

LEMMA ExpectedIsFixed == [Next]_vars => Expected' = Expected
  BY RequestIsFixed DEF Expected, Materializes

\* A status is a check's, and it is "passed" for a success only.
LEMMA StatusOfAnswer ==
  ASSUME NEW a \in Answer
  PROVE  StatusOf(a) \in CheckStatus /\ (StatusOf(a) = "passed" => a = Success)
  BY DEF Answer, StatusOf, CheckStatus, Success

LEMMA SuccessIsAnswer == Success \in Answer /\ Success \notin {None, Unusable, Overflow, Error}
  BY MarkerAssumption DEF Success, Answer

-----------------------------------------------------------------------------
(***************************************************************************)
(* The steps that only fetch, prepare and plan, and those that only a      *)
(* sandbox process takes: what none of them touches.                       *)
(***************************************************************************)
LEMMA ProcessKeeps ==
  ASSUME Process
  PROVE  UNCHANGED <<request, at, fault, acquired, prepared, todo, now, outcome, told, waited,
                     results, sent, verdict>>
  BY DEF Process, Writes, Exits, LeftoverExits

LEMMA NextTypes == IInv /\ [Next]_vars => Types'
  <1> SUFFICES ASSUME IInv, [Next]_vars PROVE Types'
    OBVIOUS
  <1> USE DEF Types, Proceed, Fail
  <1>1. CASE Source
    BY <1>1 DEF IInv, Source, SourceNext, prepared, execution, acquired, Resolve, Refused, Discovered,
       DiscoveryTimedOut, TokenCreated, CommitResolved, TreeListed, BlobFetched, Delivered,
       Steps, SourceSteps, Blobs
  <1>2. CASE Await
    <2>1. CASE SourceFailed \/ Unmapped \/ Aggregate
      BY <2>1 DEF IInv, SourceFailed, Unmapped, ExecutionFailed, Becomes, Throw, Aggregate, acquired,
         prepared, execution, Steps
    <2>2. ASSUME NEW s \in BOOLEAN, Publish(s) PROVE Types'
      BY <2>2 DEF IInv, Publish, Becomes, Throw, acquired, prepared, execution, Steps
    <2>3. ASSUME NEW s \in BOOLEAN, Materialize(s) PROVE Types'
      <3>1. sha \in Commits /\ at = "materialize"
        BY <2>3, GitHubAssumption DEF IInv, Materialize, SourceInv, Sourced
      <3>2. QED
        BY <2>3, <3>1 DEF IInv, Materialize, Throw, acquired, prepared, execution, Steps,
           Environment, Snapshots
    <2>4. ASSUME NEW s \in BOOLEAN, Provision(s) PROVE Types'
      <3>1. sha \in Commits /\ at = "provision"
        BY <2>4, GitHubAssumption DEF IInv, Provision, SourceInv, Sourced, Ready, Selecting
      <3>2. QED
        BY <2>4, <3>1 DEF IInv, Provision, Throw, acquired, prepared, execution, Steps,
           Environment, Snapshots
    <2>5. ASSUME NEW s \in BOOLEAN, Generate(s) PROVE Types'
      <3>1. sha \in Commits /\ at = "generate"
        BY <2>5, GitHubAssumption DEF IInv, Generate, SourceInv, Sourced, Ready, Selecting
      <3>2. Snapshot \in Snapshots /\ Prepared \in Nat
        BY <3>1 DEF IInv, Snapshot, Prepared, Snapshots, Environment
      <3>3. QED
        BY <2>5, <3>1, <3>2 DEF IInv, Generate, Throw, acquired, prepared, execution, Steps,
           Environment
    <2>6. CASE PlanChecks
      <3>1. Applicable(request) \subseteq Checks
        BY DEF Applicable, Planned
      <3>2. QED
        BY <2>6, <3>1 DEF IInv, PlanChecks, Becomes, Throw, acquired, prepared, execution, sandbox, Steps
    <2>7. CASE Launch
      BY <2>7 DEF IInv, Launch, acquired, prepared, Steps
    <2>8. ASSUME NEW a \in {Error} \cup Answer, Simulate(a) PROVE Types'
      <3>1. CASE a = Error
        BY <2>8, <3>1 DEF IInv, Simulate, Throw, acquired, prepared, sandbox, Steps
      <3>2. CASE a # Error
        <4>1. StatusOf(a) \in CheckStatus
          BY <3>2, StatusOfAnswer
        <4>2. QED
          BY <2>8, <3>2, <4>1 DEF IInv, Simulate, Throw, acquired, prepared, sandbox, Steps
      <3>3. QED
        BY <3>1, <3>2
    <2>9. QED
      BY <1>2, <2>1, <2>2, <2>3, <2>4, <2>5, <2>6, <2>7, <2>8 DEF Await
  <1>3. CASE Process
    BY <1>3, ProcessKeeps DEF IInv, acquired, prepared
  <1>4. CASE Transport
    <2>1. CASE ProcessFailed \/ ProcessDone \/ TimedOut
      BY <2>1 DEF IInv, ProcessFailed, ProcessDone, TimedOut, Settled, acquired, prepared, Steps
    <2>2. CASE Leave \/ GiveUp
      <3>1. at = "leave" /\ Return /\ UNCHANGED <<request, acquired, prepared>>
        BY <2>2 DEF Leave, GiveUp
      <3>2. outcome # Error => StatusOf(outcome) \in CheckStatus
        BY <3>1, StatusOfAnswer DEF IInv, ProcessInv
      <3>3. QED
        BY <3>1, <3>2 DEF IInv, Return, Throw, acquired, prepared, Steps
    <2>3. QED
      BY <1>4, <2>1, <2>2 DEF Transport
  <1>5. CASE UNCHANGED vars
    BY <1>5 DEF IInv, vars, acquired, prepared, execution
  <1>6. QED
    BY <1>1, <1>2, <1>3, <1>4, <1>5 DEF Next, Done

\* Fetching, and nothing else, fills in what is known of the source.
LEMMA NextSource == IInv /\ [Next]_vars => SourceInv'
  <1> SUFFICES ASSUME IInv, [Next]_vars PROVE SourceInv'
    OBVIOUS
  <1> USE DEF SourceInv, Sourced, Ready, Selecting, Executing
  <1>1. CASE Source
    <2> USE DEF acquired, Proceed, Fail
    <2>1. CASE Resolve \/ Discovered \/ DiscoveryTimedOut \/ TokenCreated
      BY <2>1 DEF IInv, Resolve, Discovered, DiscoveryTimedOut, TokenCreated
    <2>2. ASSUME NEW r \in Refusals \cup {"key"}, Refused(r) PROVE SourceInv'
      BY <2>2 DEF Refused
    <2>3. ASSUME NEW c \in Commits, CommitResolved(c) PROVE SourceInv'
      BY <2>3 DEF IInv, CommitResolved, Agrees
    <2>4. ASSUME NEW t \in BOOLEAN, TreeListed(t) PROVE SourceInv'
      <3>1. TextOf(request.commit) \ Blobs(TreeOf[request.commit]) = {}
        BY DEF TextOf
      <3>2. QED
        BY <2>4, <3>1 DEF IInv, TreeListed
    <2>5. CASE BlobFetched
      <3>1. NextBlob \in unread
        BY <2>5, NextBlobIsUnread DEF IInv, Types, BlobFetched
      <3>2. NextBlob \in TextOf(request.commit) <=> ~NextBlob.binary
        BY <2>5, <3>1 DEF IInv, BlobFetched, TextOf
      <3> HIDE DEF NextBlob
      <3>3. QED
        BY <2>5, <3>1, <3>2 DEF IInv, BlobFetched
    <2>6. CASE Delivered
      BY <2>6 DEF IInv, Delivered
    <2>7. QED
      BY <1>1, <2>1, <2>2, <2>3, <2>4, <2>5, <2>6 DEF Source, SourceNext
  <1>2. ASSUME at' = "done" \/ (at \in Sourced /\ at' \in Sourced), UNCHANGED <<request, acquired>>
        PROVE  SourceInv'
    BY <1>2 DEF IInv, acquired
  <1>3. CASE Await
    <2>1. UNCHANGED <<request, acquired>>
      BY <1>3 DEF Await, SourceFailed, Publish, Materialize, Provision, Generate, PlanChecks, Unmapped,
         ExecutionFailed, Becomes, Launch, Simulate, Aggregate
    <2>2. at' = "done" \/ (at \in Sourced /\ at' \in Sourced)
      BY <1>3 DEF Await, SourceFailed, Publish, Materialize, Provision, Generate, PlanChecks, Unmapped,
         ExecutionFailed, Becomes, Throw, Proceed, Launch, Simulate, Aggregate
    <2>3. QED
      BY <1>2, <2>1, <2>2
  <1>4. CASE Process
    BY <1>4, ProcessKeeps DEF IInv, acquired
  <1>5. CASE Transport
    <2>1. UNCHANGED <<request, acquired>> /\ (at' = "done" \/ (at \in Sourced /\ at' \in Sourced))
      BY <1>5 DEF Transport, ProcessFailed, ProcessDone, TimedOut, Settled, Leave, GiveUp, Return, Throw,
         Proceed
    <2>2. QED
      BY <1>2, <2>1
  <1>6. CASE UNCHANGED vars
    BY <1>6 DEF IInv, vars, acquired
  <1>7. QED
    BY <1>1, <1>3, <1>4, <1>5, <1>6 DEF Next, Done

\* The snapshot the sandbox is asked for is settled before the plan is made.
LEMMA NextSnapshot == IInv /\ [Next]_vars => SnapshotInv'
  <1> SUFFICES ASSUME IInv, [Next]_vars PROVE SnapshotInv'
    OBVIOUS
  <1>1. Expected' = Expected /\ request' = request
    BY ExpectedIsFixed, RequestIsFixed
  <1> USE DEF SnapshotInv, SnapshotIsExact, Sourced, Ready, Selecting, Executing
  <1>2. CASE Source
    <2>1. UNCHANGED <<environment, sent>> /\ sent = {} /\ environment = None
      BY <1>2 DEF IInv, Source, prepared, execution, SourceNext, SourceSteps, Resolve, Refused, Discovered,
         DiscoveryTimedOut, TokenCreated, CommitResolved, TreeListed, BlobFetched, Delivered
    <2>2. at' \in SourceSteps \cup {"failed"}
      BY <1>2 DEF Source, SourceNext, SourceSteps, Proceed, Fail, Resolve, Refused, Discovered,
         DiscoveryTimedOut, TokenCreated, CommitResolved, TreeListed, BlobFetched, Delivered
    <2>3. QED
      BY <2>1, <2>2 DEF SourceSteps
  <1>3. CASE Await
    <2> USE DEF acquired, prepared, execution, Throw, Proceed, Becomes
    <2>1. CASE SourceFailed \/ Unmapped \/ Aggregate
      BY <1>1, <2>1 DEF IInv, SourceFailed, Unmapped, ExecutionFailed, Aggregate, SourceSteps
    <2>2. ASSUME NEW s \in BOOLEAN, Publish(s) PROVE SnapshotInv'
      BY <1>1, <2>2 DEF IInv, Publish, SourceSteps
    <2>3. ASSUME NEW s \in BOOLEAN, Materialize(s) PROVE SnapshotInv'
      <3>1. at = "materialize" /\ sent = {} /\ environment = None /\ sha = request.commit
        BY <2>3 DEF IInv, Materialize, SourceInv
      <3>2. sha \in Commits
        BY <3>1, GitHubAssumption DEF IInv, Types
      <3>3. CASE ~Materializes
        BY <1>1, <2>3, <3>1, <3>3 DEF Materialize, Snapshot, Expected, SourceSteps
      <3>4. CASE Materializes /\ at' = "plan"
        <4>1. environment' = [snapshot |-> ComposedSnapshot(sha), generated |-> 0] /\ UNCHANGED <<sent, sha>>
          BY <2>3, <3>4 DEF Materialize
        <4>2. environment' # None
          BY <3>2, <4>1, MarkerAssumption DEF Environment, Snapshots
        <4>3. Snapshot' = Expected
          BY <3>1, <3>4, <4>1, <4>2 DEF Snapshot, Expected
        <4>4. QED
          BY <1>1, <3>1, <3>4, <4>1, <4>3 DEF SourceSteps
      <3>5. CASE at' = "done"
        BY <2>3, <3>1, <3>5 DEF Materialize, SourceSteps
      <3>6. QED
        BY <2>3, <3>3, <3>4, <3>5 DEF Materialize
    <2>4. ASSUME NEW s \in BOOLEAN, Provision(s) PROVE SnapshotInv'
      <3>1. at = "provision" /\ sent = {} /\ sha = request.commit /\ Snapshot = Expected
        BY <2>4 DEF IInv, Provision, SourceInv
      <3>2. sha \in Commits
        BY <3>1, GitHubAssumption DEF IInv, Types
      <3>3. CASE environment' = environment
        BY <1>1, <2>4, <3>1, <3>3 DEF Provision, Snapshot, SourceSteps
      <3>4. CASE environment' # environment
        <4>1. /\ environment = None /\ at' = "generate" /\ UNCHANGED <<sent, sha>>
              /\ environment' = [snapshot |-> SourceSnapshot(sha), generated |-> 0]
          BY <2>4, <3>4 DEF Provision
        <4>2. environment' # None
          BY <3>2, <4>1, MarkerAssumption DEF Environment, Snapshots
        <4>3. Snapshot' = Snapshot
          BY <4>1, <4>2 DEF Snapshot
        <4>4. QED
          BY <1>1, <3>1, <4>1, <4>3 DEF SourceSteps
      <3>5. QED
        BY <3>3, <3>4
    <2>5. ASSUME NEW s \in BOOLEAN, Generate(s) PROVE SnapshotInv'
      <3>1. at = "generate" /\ sent = {} /\ sha = request.commit /\ Snapshot = Expected
        BY <2>5 DEF IInv, Generate, SourceInv
      <3>2. Snapshot \in Snapshots /\ Prepared \in Nat
        BY <3>1, GitHubAssumption DEF IInv, Types, Expected, Snapshots, Prepared, Environment
      <3>3. CASE environment' = environment
        BY <1>1, <2>5, <3>1, <3>3 DEF Generate, Snapshot, SourceSteps
      <3>4. CASE environment' # environment
        <4>1. /\ at' = at /\ UNCHANGED <<sent, sha>>
              /\ environment' = [snapshot |-> Snapshot, generated |-> Prepared + 1]
          BY <2>5, <3>4 DEF Generate
        <4>2. environment' # None
          BY <3>2, <4>1, MarkerAssumption DEF Environment
        <4>3. Snapshot' = Snapshot
          BY <4>1, <4>2 DEF Snapshot
        <4>4. QED
          BY <1>1, <3>1, <4>1, <4>3 DEF SourceSteps
      <3>5. QED
        BY <3>3, <3>4
    <2>6. CASE PlanChecks
      <3>1. at = "plan" /\ UNCHANGED <<environment, sent, sha>> /\ at' \in {"done", "provision"}
        BY <2>6 DEF PlanChecks
      <3>2. QED
        BY <1>1, <3>1 DEF IInv, Snapshot, SourceSteps
    <2>7. ASSUME sent' = sent \cup {Snapshot}, at = "check", at' \in {"check", "wait", "done"},
                 UNCHANGED <<environment, acquired>>
          PROVE  SnapshotInv'
      <3>1. contents = TextOf(request.commit) /\ Snapshot = Expected
        BY <2>7 DEF IInv, SourceInv
      <3>2. sent' = {Expected} /\ Snapshot' = Snapshot
        BY <2>7, <3>1 DEF IInv, Snapshot
      <3>3. QED
        BY <1>1, <2>7, <3>1, <3>2 DEF SourceSteps
    <2>8. CASE Launch
      BY <2>7, <2>8 DEF Launch
    <2>9. ASSUME NEW a \in {Error} \cup Answer, Simulate(a) PROVE SnapshotInv'
      BY <2>7, <2>9 DEF Simulate
    <2>10. QED
      BY <1>3, <2>1, <2>2, <2>3, <2>4, <2>5, <2>6, <2>8, <2>9 DEF Await
  <1>4. CASE Process
    BY <1>1, <1>4, ProcessKeeps DEF IInv, acquired, prepared, Snapshot
  <1>5. CASE Transport
    <2>1. /\ UNCHANGED <<acquired, prepared, sent>>
          /\ at \in {"wait", "leave"} /\ at' \in {"leave", "check", "done"}
      BY <1>5 DEF Transport, ProcessFailed, ProcessDone, TimedOut, Settled, Leave, GiveUp, Return, Throw,
         Proceed
    <2>2. QED
      BY <1>1, <2>1 DEF IInv, acquired, prepared, Snapshot, SourceSteps
  <1>6. CASE UNCHANGED vars
    BY <1>1, <1>6 DEF IInv, vars, acquired, prepared, execution, Snapshot
  <1>7. QED
    BY <1>2, <1>3, <1>4, <1>5, <1>6 DEF Next, Done

\* What is selected is executed in the order of the plan, and only that.
LEMMA NextSelection == IInv /\ [Next]_vars => SelectionInv'
  <1> SUFFICES ASSUME IInv, [Next]_vars PROVE SelectionInv'
    OBVIOUS
  <1>1. request' = request
    BY RequestIsFixed
  <1> DEFINE Apart == at' \notin Selecting
             Same == /\ UNCHANGED <<todo, results, now>>
                     /\ (at' \in Selecting => at \in Selecting)
                     /\ (at' \in {"wait", "leave"} => at \in {"wait", "leave"})
                     /\ (at' = "wait" => at = "wait")
  <1>2. ASSUME Apart PROVE SelectionInv'
    BY <1>2 DEF SelectionInv, DependenciesFirst, Selecting, Executing
  <1>3. ASSUME Same PROVE SelectionInv'
    BY <1>1, <1>3 DEF IInv, SelectionInv, DependenciesFirst
  <1>4. CASE Source
    <2>1. Apart
      BY <1>4 DEF Source, SourceNext, Proceed, Fail, Resolve, Refused, Discovered, DiscoveryTimedOut,
         TokenCreated, CommitResolved, TreeListed, BlobFetched, Delivered, Selecting, Executing
    <2>2. QED
      BY <1>2, <2>1
  <1>5. CASE SourceFailed \/ Unmapped \/ Aggregate
                \/ \E s \in BOOLEAN : Publish(s) \/ Materialize(s)
    <2>1. Apart
      BY <1>5 DEF SourceFailed, Unmapped, ExecutionFailed, Becomes, Throw, Aggregate, Publish,
         Materialize, Proceed, Selecting, Executing
    <2>2. QED
      BY <1>2, <2>1
  <1>6. CASE \E s \in BOOLEAN : Provision(s) \/ Generate(s)
    <2>1. Same \/ Apart
      BY <1>6 DEF Provision, Generate, Proceed, Throw, execution, sandbox, Selecting, Executing
    <2>2. QED
      BY <1>2, <1>3, <2>1
  <1>7. CASE PlanChecks
    <2>1. \/ Apart
          \/ /\ Selected(request) \subseteq Applicable(request) /\ ~Unplannable(request)
             /\ todo' = Selected(request) /\ at' = "provision"
      BY <1>7 DEF PlanChecks, Becomes, Throw, Proceed, Selecting, Executing
    <2>2. QED
      BY <1>1, <1>2, <2>1 DEF SelectionInv, DependenciesFirst
  <1>8. CASE Launch
    <2>1. /\ at = "check" /\ at' = "wait" /\ now' = NextCheck /\ UNCHANGED <<todo, results>>
          /\ NextCheck \in todo /\ \A d \in todo : Rank[NextCheck] <= Rank[d]
      BY <1>8, NextCheckIsFirst DEF IInv, Types, Launch, Proceed
    <2>2. ASSUME NEW d \in DependsOn[NextCheck]
          PROVE  d \in Planned(request) /\ (d \in Selected(request) => results[d] # None)
      <3>1. NextCheck \in Applicable(request) /\ ~Unplannable(request)
        BY <2>1 DEF IInv, SelectionInv, Selecting, Executing
      <3>2. NextCheck \in Planned(request) /\ NextCheck \in Checks
            /\ Dependencies(request, NextCheck) = DependsOn[NextCheck]
        BY <3>1 DEF Applicable, Planned, Dependencies
      <3>3. d \in Planned(request) /\ d \in Checks /\ Rank[d] < Rank[NextCheck]
        BY <2>2, <3>1, <3>2, PipelineAssumption DEF Unplannable, Planned
      <3>4. d \notin todo
        BY <2>1, <3>2, <3>3, PipelineAssumption
      <3>5. QED
        BY <2>1, <3>3, <3>4 DEF IInv, SelectionInv, Selecting, Executing
    <2>3. DependenciesFirst'
      BY <1>1, <2>1, <2>2 DEF DependenciesFirst
    <2>4. QED
      BY <1>1, <2>1, <2>3 DEF IInv, SelectionInv, Selecting, Executing
  <1>9. ASSUME NEW c \in todo, NEW s \in CheckStatus, at \in Executing, at' = "check",
               todo' = todo \ {c}, results' = [results EXCEPT ![c] = s]
        PROVE  SelectionInv'
    <2>1. \A d \in Selected(request) \ (todo \ {c}) : results'[d] # None
      <3>1. s # None
        BY MarkerAssumption
      <3>2. results \in [Checks -> {None} \cup CheckStatus] /\ c \in Checks
            /\ todo \subseteq Selected(request) /\ Selected(request) \subseteq Checks
        BY <1>9 DEF IInv, Types, SelectionInv, Selecting, Applicable, Planned
      <3>3. QED
        BY <1>9, <3>1, <3>2 DEF IInv, SelectionInv, Selecting
    <2>2. QED
      BY <1>1, <1>9, <2>1 DEF IInv, SelectionInv, DependenciesFirst, Selecting, Executing
  <1>10. ASSUME NEW a \in {Error} \cup Answer, Simulate(a) PROVE SelectionInv'
    <2>1. CASE a = Error
      BY <1>2, <1>10, <2>1 DEF Simulate, Throw, Selecting, Executing
    <2>2. CASE a # Error
      <3>1. StatusOf(a) \in CheckStatus
        BY <2>2, StatusOfAnswer
      <3>2. NextCheck \in todo
        BY <1>10, NextCheckIsFirst DEF IInv, Types, Simulate
      <3>3. QED
        BY <1>9, <1>10, <2>2, <3>1, <3>2 DEF Simulate, Proceed, Executing
    <2>3. QED
      BY <2>1, <2>2
  <1>11. CASE Process
    BY <1>1, <1>11, <1>3, ProcessKeeps DEF IInv, Process, Writes, Exits, LeftoverExits
  <1>12. CASE ProcessFailed \/ ProcessDone \/ TimedOut
    BY <1>12, <1>3 DEF ProcessFailed, ProcessDone, TimedOut, Settled, Proceed, Selecting, Executing
  <1>13. CASE Leave \/ GiveUp
    <2>1. at = "leave" /\ Return /\ now \in todo
      BY <1>13 DEF Leave, GiveUp, IInv, SelectionInv
    <2>2. CASE outcome = Error
      BY <1>2, <2>1, <2>2 DEF Return, Throw, Selecting, Executing
    <2>3. CASE outcome # Error
      <3>1. StatusOf(outcome) \in CheckStatus
        BY <2>1, <2>3, StatusOfAnswer DEF IInv, ProcessInv
      <3>2. QED
        BY <1>9, <2>1, <2>3, <3>1 DEF Return, Proceed, Executing
    <2>4. QED
      BY <2>2, <2>3
  <1>14. CASE UNCHANGED vars
    BY <1>3, <1>14 DEF vars, execution, sandbox
  <1>15. QED
    BY <1>4, <1>5, <1>6, <1>7, <1>8, <1>10, <1>11, <1>12, <1>13, <1>14
       DEF Next, Done, Await, Transport

\* A process that has not ended is that of the check in hand, until it is told to
\* stop and given the time to.
LEMMA NextProcess == IInv /\ [Next]_vars => ProcessInv'
  <1> SUFFICES ASSUME IInv, [Next]_vars PROVE ProcessInv'
    OBVIOUS
  <1> USE DEF ProcessInv, NoProcessLeft, Selecting, Executing
  <1>1. CASE Source
    BY <1>1 DEF IInv, Source, execution, sandbox, SourceNext, Proceed, Fail, Resolve, Refused, Discovered,
       DiscoveryTimedOut, TokenCreated, CommitResolved, TreeListed, BlobFetched, Delivered
  <1>2. CASE SourceFailed \/ Unmapped \/ Aggregate
                \/ \E s \in BOOLEAN : \/ Publish(s) \/ Materialize(s) \/ Provision(s) \/ Generate(s)
    BY <1>2 DEF IInv, SourceFailed, Unmapped, ExecutionFailed, Becomes, Throw, Aggregate, Publish,
       Materialize, Provision, Generate, Proceed, execution, sandbox
  <1>3. CASE PlanChecks
    BY <1>3 DEF IInv, PlanChecks, Becomes, Throw, Proceed, execution, sandbox
  <1>4. CASE Launch
    BY <1>4 DEF IInv, Launch, Proceed
  <1>5. ASSUME NEW a \in {Error} \cup Answer, Simulate(a) PROVE ProcessInv'
    BY <1>5 DEF IInv, Simulate, Throw, Proceed, sandbox
  <1>6. CASE Process
    <2>1. ASSUME NEW o \in Output, Writes(o) PROVE ProcessInv'
      BY <2>1 DEF IInv, Writes
    <2>2. ASSUME NEW e \in Exit, Exits(e) PROVE ProcessInv'
      <3>1. alive = {now} /\ alive' = {}
        BY <2>2 DEF IInv, Exits
      <3>2. QED
        BY <2>2, <3>1 DEF IInv, Exits
    <2>3. ASSUME NEW c \in Checks, LeftoverExits(c) PROVE ProcessInv'
      <3>1. /\ alive' = alive \ {c} /\ c \in alive
            /\ UNCHANGED <<at, fault, todo, now, exit, outcome, told, waited>>
        BY <2>3 DEF LeftoverExits
      <3>2. QED
        BY <3>1 DEF IInv
    <2>4. QED
      BY <1>6, <2>1, <2>2, <2>3 DEF Process
  <1>7. CASE ProcessFailed
    BY <1>7 DEF IInv, ProcessFailed, Settled, Stops, Proceed
  <1>8. CASE ProcessDone
    <2>1. alive = {} /\ (Usable => out \in Answer)
      BY <1>8 DEF IInv, ProcessDone, Usable
    <2>2. QED
      BY <1>8, <2>1 DEF IInv, ProcessDone, Settled, Stops, Proceed
  <1>9. CASE TimedOut
    BY <1>9 DEF IInv, TimedOut, Proceed
  <1>10. CASE Leave
    <2>1. alive = {} /\ alive' = {}
      BY <1>10 DEF IInv, Leave, sandbox
    <2>2. QED
      BY <1>10, <2>1 DEF IInv, Leave, Return, Throw, Proceed, sandbox
  <1>11. CASE GiveUp
    <2>1. outcome = Error /\ alive = {now} /\ now \in told
      BY <1>11 DEF IInv, GiveUp
    <2>2. QED
      BY <1>11, <2>1 DEF IInv, GiveUp, Return, Throw
  <1>12. CASE UNCHANGED vars
    BY <1>12 DEF IInv, vars, execution, sandbox
  <1>13. QED
    BY <1>1, <1>2, <1>3, <1>4, <1>5, <1>6, <1>7, <1>8, <1>9, <1>10, <1>11, <1>12
       DEF Next, Done, Await, Transport

\* No success is forgotten.
LEMMA EarnedGrows == [Next]_vars => earned \subseteq earned'
  <1> SUFFICES ASSUME [Next]_vars PROVE earned \subseteq earned'
    OBVIOUS
  <1>1. CASE Process
    BY <1>1 DEF Process, Writes, Exits, LeftoverExits, Earned
  <1>2. CASE Source \/ Await \/ Transport \/ Done \/ UNCHANGED vars
    BY <1>2 DEF Source, execution, vars, Await, SourceFailed, Publish, Materialize, Provision,
       Generate, PlanChecks, Unmapped, ExecutionFailed, Becomes, Launch, Simulate, Aggregate, Transport,
       ProcessFailed, ProcessDone, Settled, TimedOut, Leave, GiveUp, Done
  <1>3. QED
    BY <1>1, <1>2 DEF Next

\* What the transport and the executor make of an answer was earned.
LEMMA NextEarned == IInv /\ [Next]_vars => EarnedInv'
  <1> SUFFICES ASSUME IInv, [Next]_vars PROVE EarnedInv'
    OBVIOUS
  <1>1. Expected' = Expected /\ request' = request /\ earned \subseteq earned'
    BY ExpectedIsFixed, RequestIsFixed, EarnedGrows
  <1>2. Success \in Answer /\ Success # None /\ Success # Error
    BY SuccessIsAnswer
  <1> DEFINE Same == /\ UNCHANGED results
                     /\ at' = "wait" => at = "wait" /\ UNCHANGED <<now, out, exit>>
                     /\ at' = "leave" => at = "leave" /\ UNCHANGED <<now, outcome>>
  <1>3. ASSUME Same PROVE EarnedInv'
    BY <1>1, <1>3 DEF IInv, EarnedInv
  <1>4. CASE Source
    <2>1. Same
      BY <1>4 DEF Source, execution, sandbox, SourceNext, Proceed, Fail, Resolve, Refused, Discovered,
         DiscoveryTimedOut, TokenCreated, CommitResolved, TreeListed, BlobFetched, Delivered
    <2>2. QED
      BY <1>3, <2>1
  <1>5. CASE SourceFailed \/ Unmapped \/ Aggregate \/ PlanChecks
                \/ \E s \in BOOLEAN : \/ Publish(s) \/ Materialize(s) \/ Provision(s) \/ Generate(s)
    <2>1. Same
      BY <1>5 DEF SourceFailed, Unmapped, ExecutionFailed, Becomes, Throw, Aggregate, Publish, PlanChecks,
         Materialize, Provision, Generate, Proceed, execution, sandbox
    <2>2. QED
      BY <1>3, <2>1
  <1>6. CASE Launch
    BY <1>1, <1>2, <1>6 DEF IInv, Launch, Proceed, EarnedInv
  <1>7. ASSUME NEW a \in {Error} \cup Answer, Simulate(a) PROVE EarnedInv'
    BY <1>1, <1>7 DEF IInv, Simulate, Throw, Proceed, EarnedInv
  <1>8. ASSUME at = "wait", now \notin told PROVE Snapshot = Expected
    BY <1>8 DEF IInv, SnapshotInv, Ready, Selecting, Executing
  <1>9. at = "wait" => now \notin told
    BY DEF IInv, ProcessInv, SelectionInv, Selecting, Executing
  <1>10. ASSUME NEW o \in Output, Writes(o) PROVE EarnedInv'
    <2>1. at = "wait" /\ UNCHANGED <<at, results, now, exit>> /\ out' = o /\ earned' = Earned(o, exit)
      BY <1>10 DEF Writes
    <2>2. QED
      BY <1>1, <1>8, <1>9, <2>1 DEF IInv, EarnedInv, Earned, Success
  <1>11. ASSUME NEW e \in Exit, Exits(e) PROVE EarnedInv'
    <2>1. UNCHANGED <<at, results, now, out, outcome>> /\ exit' = e /\ earned' = Earned(out, e)
      BY <1>11 DEF Exits
    <2>2. QED
      BY <1>1, <1>8, <1>9, <2>1 DEF IInv, EarnedInv, Earned, Success
  <1>12. ASSUME NEW c \in Checks, LeftoverExits(c) PROVE EarnedInv'
    BY <1>3, <1>12 DEF LeftoverExits
  <1>13. CASE ProcessFailed \/ TimedOut
    <2>1. UNCHANGED results /\ at' = "leave" /\ outcome' = Error
      BY <1>13 DEF ProcessFailed, TimedOut, Settled, Proceed
    <2>2. QED
      BY <1>1, <1>2, <2>1 DEF IInv, EarnedInv
  <1>14. CASE ProcessDone
    <2>1. /\ UNCHANGED <<results, now>> /\ at = "wait" /\ at' = "leave"
          /\ outcome' = (IF Usable THEN out ELSE Error)
      BY <1>14 DEF ProcessDone, Settled, Proceed
    <2>2. QED
      BY <1>1, <1>2, <2>1 DEF IInv, EarnedInv, Usable
  <1>15. CASE Leave \/ GiveUp
    <2>1. at = "leave" /\ Return /\ now \in todo /\ outcome \in {Error} \cup Answer
      BY <1>15 DEF Leave, GiveUp, IInv, SelectionInv, ProcessInv
    <2>2. CASE outcome = Error
      BY <1>1, <2>1, <2>2 DEF Return, Throw, IInv, EarnedInv
    <2>3. CASE outcome # Error
      <3>1. StatusOf(outcome) = "passed" => outcome = Success
        BY <2>1, <2>3, StatusOfAnswer
      <3>2. at' = "check" /\ results' = [results EXCEPT ![now] = StatusOf(outcome)]
        BY <2>1, <2>3 DEF Return, Proceed
      <3>3. QED
        BY <1>1, <2>1, <3>1, <3>2 DEF IInv, Types, EarnedInv
    <2>4. QED
      BY <2>2, <2>3
  <1>16. CASE UNCHANGED vars
    BY <1>3, <1>16 DEF vars, execution, sandbox
  <1>17. QED
    BY <1>4, <1>5, <1>6, <1>7, <1>10, <1>11, <1>12, <1>13, <1>14, <1>15, <1>16
       DEF Next, Done, Await, Process, Transport

\* The verdict is decided once, by results that were all earned.
LEMMA NextVerdict == IInv /\ [Next]_vars => VerdictInv'
  <1> SUFFICES ASSUME IInv, [Next]_vars PROVE VerdictInv'
    OBVIOUS
  <1>1. Expected' = Expected /\ request' = request /\ earned \subseteq earned'
    BY ExpectedIsFixed, RequestIsFixed, EarnedGrows
  <1>2. ASSUME verdict' = verdict, at = "done" => at' = "done" PROVE VerdictInv'
    BY <1>1, <1>2 DEF IInv, VerdictInv, PassIsEarned, FailureIsVisible
  <1>3. CASE Aggregate
    <2>1. at = "check" /\ todo = {} /\ verdict' = Verdict /\ at' = "done" /\ UNCHANGED <<results, earned>>
      BY <1>3 DEF Aggregate, Proceed, execution
    <2>2. ASSUME Verdict = "pass" PROVE /\ \A c \in Applicable(request) : <<c, Expected>> \in earned
                                        /\ \A c \in Planned(request) : Applicability(request, c) # "unsupported"
      <3>1. Applicable(request) \subseteq Verified /\ Unsupported = {}
        BY <2>2 DEF Verdict, PolicyOutcome
      <3>2. \A c \in Applicable(request) : c \in Checks /\ results[c] = "passed" /\ request.source = "real"
        BY <3>1 DEF Verified, Applicable, Planned
      <3>3. QED
        BY <3>1, <3>2 DEF IInv, EarnedInv, Unsupported
    <2>3. ASSUME Verdict \notin {"blocked", "error"}, request.source = "real"
          PROVE  \A c \in Selected(request) : <<c, Expected>> \in earned
      <3>1. Findings = {}
        BY <2>3 DEF Verdict, PolicyOutcome
      <3>2. \A c \in Selected(request) : c \in Checks /\ results[c] # None
        BY <2>1 DEF IInv, SelectionInv, Selecting, Executing, Applicable, Planned
      <3>3. \A c \in Selected(request) : results[c] = "passed"
        BY <3>1, <3>2 DEF Findings, Ran
      <3>4. QED
        BY <2>3, <3>2, <3>3 DEF IInv, EarnedInv
    <2>4. QED
      BY <1>1, <2>1, <2>2, <2>3 DEF VerdictInv, PassIsEarned, FailureIsVisible
  <1>4. CASE Source
    BY <1>2, <1>4 DEF Source, SourceNext, Proceed, Fail, Resolve, Refused, Discovered, DiscoveryTimedOut,
       TokenCreated, CommitResolved, TreeListed, BlobFetched, Delivered
  <1>5. CASE Await /\ ~Aggregate
    <2>1. verdict' = verdict /\ at # "done"
      BY <1>5 DEF Await, SourceFailed, Publish, Materialize, Provision, Generate, PlanChecks,
         Unmapped, ExecutionFailed, Becomes, Launch, Simulate
    <2>2. QED
      BY <1>2, <2>1
  <1>6. CASE Process
    BY <1>2, <1>6, ProcessKeeps
  <1>7. CASE Transport
    BY <1>2, <1>7 DEF Transport, ProcessFailed, ProcessDone, Settled, TimedOut, Leave, GiveUp
  <1>8. CASE UNCHANGED vars
    BY <1>2, <1>8 DEF vars
  <1>9. QED
    BY <1>3, <1>4, <1>5, <1>6, <1>7, <1>8 DEF Next, Done

-----------------------------------------------------------------------------
(***************************************************************************)
(* The invariant, and what it is for.                                      *)
(***************************************************************************)
THEOREM InductiveInvariant == Spec => []IInv
  <1>1. Init => IInv
    <2> SUFFICES ASSUME Init PROVE IInv
      OBVIOUS
    <2> USE DEF Init, SourceInit
    <2>1. Types /\ SourceInv
      BY DEF Types, Steps, SourceSteps, SourceInv, Sourced, Ready, Selecting, Executing
    <2>2. SnapshotInv /\ SelectionInv /\ ProcessInv
      BY DEF SnapshotInv, SnapshotIsExact, SelectionInv, DependenciesFirst, ProcessInv, NoProcessLeft,
         Ready, Selecting, Executing
    <2>3. EarnedInv /\ VerdictInv
      <3>1. None # "passed" /\ None # "pass"
        BY MarkerAssumption DEF CheckStatus, Verdicts
      <3>2. QED
        BY <3>1 DEF EarnedInv, VerdictInv, PassIsEarned, FailureIsVisible
    <2>4. QED
      BY <2>1, <2>2, <2>3 DEF IInv
  <1>2. IInv /\ [Next]_vars => IInv'
    BY NextTypes, NextSource, NextSnapshot, NextSelection, NextProcess, NextEarned, NextVerdict DEF IInv
  <1>3. QED
    BY <1>1, <1>2, PTL DEF Spec

(***************************************************************************)
(* A pass is earned, check by check, by sandbox processes that truly       *)
(* succeeded on the snapshot of the requested commit                       *)
(* (sandbox-transport.ts, execution.ts, aggregation.ts, default.ts).       *)
(***************************************************************************)
THEOREM PassesAreEarned == Spec => []PassIsEarned
  <1>1. IInv => PassIsEarned
    BY DEF IInv, VerdictInv
  <1>2. QED
    BY <1>1, InductiveInvariant, PTL

(***************************************************************************)
(* A selected check that was not truly successful leaves a real            *)
(* verification with a block, an error or no verdict at all.               *)
(***************************************************************************)
THEOREM FailuresAreVisible == Spec => []FailureIsVisible
  <1>1. IInv => FailureIsVisible
    BY DEF IInv, VerdictInv
  <1>2. QED
    BY <1>1, InductiveInvariant, PTL

(***************************************************************************)
(* Every check of a verification sees the same complete snapshot, that of  *)
(* the requested commit (github.ts, application-service.ts).               *)
(***************************************************************************)
THEOREM OneExactSnapshot == Spec => []SnapshotIsExact
  <1>1. IInv => SnapshotIsExact
    BY DEF IInv, SnapshotInv
  <1>2. QED
    BY <1>1, InductiveInvariant, PTL

(***************************************************************************)
(* The order of the plan is that of the execution, and sandbox processes   *)
(* never overlap (planner.ts, pipeline.ts, sandbox-transport.ts).          *)
(***************************************************************************)
THEOREM OrderedAndAlone == Spec => [](DependenciesFirst /\ NoProcessLeft)
  <1>1. IInv => DependenciesFirst /\ NoProcessLeft
    BY DEF IInv, SelectionInv, ProcessInv
  <1>2. QED
    BY <1>1, InductiveInvariant, PTL

-----------------------------------------------------------------------------
(***************************************************************************)
(* The types that the rest did not need: the bookkeeping of the fetch, of  *)
(* the dependencies, which are provided at most once, and of the sandbox.  *)
(***************************************************************************)
SourceTypes ==
    /\ sha \in {None} \cup Commits
    /\ contents \subseteq TreeOf[request.commit]
    /\ bytes \in Nat

\* Materialization leaves an environment, and that rules out provisioning.
ProvidedOnce ==
    /\ provisions \in 0..1
    /\ at \in SourceSteps \cup {"failed", "materialize"} => provisions = 0
    /\ at \in {"plan", "provision"} /\ environment = None => provisions = 0

SandboxTypes ==
    /\ now \in {None} \cup Checks
    /\ out \in {None} \cup Output /\ exit \in {None} \cup Exit
    /\ outcome \in {None, Error} \cup Answer
    /\ alive \subseteq Checks /\ told \subseteq Checks /\ waited \subseteq Checks
    /\ sent \subseteq Snapshots /\ earned \subseteq Checks \X Snapshots
    /\ verdict \in {None} \cup Verdicts

TypeInv == SourceTypes /\ ProvidedOnce /\ SandboxTypes

\* From the plan on, the snapshot a request names is one of a commit.
LEMMA SnapshotIsKnown == IInv /\ at \in Sourced => sha \in Commits /\ Snapshot \in Snapshots
  <1> SUFFICES ASSUME IInv, at \in Sourced PROVE sha \in Commits /\ Snapshot \in Snapshots
    OBVIOUS
  <1>1. sha \in Commits
    BY GitHubAssumption DEF IInv, SourceInv, Types
  <1>2. environment # None => environment.snapshot \in Snapshots
    BY DEF IInv, Types, Environment
  <1>3. QED
    BY <1>1, <1>2 DEF Snapshot, Snapshots

LEMMA NextSourceTypes == IInv /\ TypeInv /\ [Next]_vars => SourceTypes'
  <1> SUFFICES ASSUME IInv, TypeInv, [Next]_vars PROVE SourceTypes'
    OBVIOUS
  <1>1. request' = request
    BY RequestIsFixed
  <1>2. CASE UNCHANGED acquired
    BY <1>1, <1>2 DEF TypeInv, SourceTypes, acquired
  <1>3. CASE Source
    <2>1. ASSUME NEW c \in Commits, CommitResolved(c) PROVE SourceTypes'
      BY <1>1, <2>1 DEF TypeInv, SourceTypes, CommitResolved, acquired
    <2>2. ASSUME NEW t \in BOOLEAN, TreeListed(t) PROVE SourceTypes'
      BY <1>1, <2>2 DEF TypeInv, SourceTypes, TreeListed, acquired
    <2>3. CASE BlobFetched
      <3>1. NextBlob \in unread
        BY <2>3, NextBlobIsUnread DEF IInv, Types, BlobFetched
      <3>2. NextBlob \in TreeOf[request.commit] /\ NextBlob.bytes \in Nat
        BY <3>1, GitHubAssumption DEF IInv, Types, Entry
      <3> HIDE DEF NextBlob
      <3>3. QED
        BY <1>1, <2>3, <3>2 DEF TypeInv, SourceTypes, BlobFetched, acquired
    <2>4. CASE \/ Resolve \/ Discovered \/ DiscoveryTimedOut \/ TokenCreated \/ Delivered
               \/ \E refusal \in Refusals \cup {"key"} : Refused(refusal)
      BY <1>2, <2>4 DEF Resolve, Discovered, DiscoveryTimedOut, TokenCreated, Delivered, Refused
    <2>5. QED
      BY <1>3, <2>1, <2>2, <2>3, <2>4 DEF Source, SourceNext
  <1>4. CASE Await
    BY <1>2, <1>4 DEF Await, SourceFailed, Publish, Materialize, Provision, Generate, PlanChecks,
       Unmapped, ExecutionFailed, Becomes, Launch, Simulate, Aggregate
  <1>5. CASE Process
    BY <1>2, <1>5, ProcessKeeps
  <1>6. CASE Transport
    BY <1>2, <1>6 DEF Transport, ProcessFailed, ProcessDone, TimedOut, Settled, Leave, GiveUp
  <1>7. CASE UNCHANGED vars
    BY <1>2, <1>7 DEF vars
  <1>8. QED
    BY <1>3, <1>4, <1>5, <1>6, <1>7 DEF Next, Done

LEMMA NextProvidedOnce == IInv /\ TypeInv /\ [Next]_vars => ProvidedOnce'
  <1> SUFFICES ASSUME IInv, TypeInv, [Next]_vars PROVE ProvidedOnce'
    OBVIOUS
  <1> USE DEF ProvidedOnce, Proceed
  <1>1. CASE Source
    BY <1>1 DEF TypeInv, Source, prepared, SourceNext, Fail, SourceSteps, Resolve, Refused, Discovered,
       DiscoveryTimedOut, TokenCreated, CommitResolved, TreeListed, BlobFetched, Delivered
  <1>2. CASE SourceFailed \/ Unmapped \/ Aggregate
    BY <1>2 DEF TypeInv, SourceFailed, Unmapped, ExecutionFailed, Becomes, Throw, Aggregate, prepared,
       SourceSteps
  <1>3. ASSUME NEW s \in BOOLEAN, Publish(s) PROVE ProvidedOnce'
    BY <1>3 DEF TypeInv, Publish, Becomes, Throw, prepared, SourceSteps
  <1>4. ASSUME NEW s \in BOOLEAN, Materialize(s) PROVE ProvidedOnce'
    <2>1. at = "materialize" /\ sha \in Commits
      BY <1>4, SnapshotIsKnown DEF Materialize, Sourced
    <2>2. [snapshot |-> ComposedSnapshot(sha), generated |-> 0] # None
      BY <2>1, MarkerAssumption DEF Environment, Snapshots
    <2>3. QED
      BY <1>4, <2>1, <2>2 DEF TypeInv, Materialize, Throw, prepared, SourceSteps
  <1>5. CASE PlanChecks
    BY <1>5 DEF TypeInv, PlanChecks, Becomes, Throw, prepared, SourceSteps
  <1>6. ASSUME NEW s \in BOOLEAN, Provision(s) PROVE ProvidedOnce'
    BY <1>6 DEF TypeInv, Provision, Throw, prepared, SourceSteps
  <1>7. ASSUME NEW s \in BOOLEAN, Generate(s) PROVE ProvidedOnce'
    BY <1>7 DEF TypeInv, Generate, Throw, prepared, SourceSteps
  <1>8. CASE Launch \/ \E a \in {Error} \cup Answer : Simulate(a)
    BY <1>8 DEF TypeInv, Launch, Simulate, Throw, prepared, SourceSteps
  <1>9. CASE Process
    BY <1>9, ProcessKeeps DEF TypeInv, prepared
  <1>10. CASE Transport
    BY <1>10 DEF TypeInv, Transport, ProcessFailed, ProcessDone, TimedOut, Settled, Leave, GiveUp, Return,
       Throw, prepared, SourceSteps
  <1>11. CASE UNCHANGED vars
    BY <1>11 DEF TypeInv, vars, prepared
  <1>12. QED
    BY <1>1, <1>2, <1>3, <1>4, <1>5, <1>6, <1>7, <1>8, <1>9, <1>10, <1>11 DEF Next, Done, Await

LEMMA NextSandboxTypes == IInv /\ TypeInv /\ [Next]_vars => SandboxTypes'
  <1> SUFFICES ASSUME IInv, TypeInv, [Next]_vars PROVE SandboxTypes'
    OBVIOUS
  <1> USE DEF SandboxTypes
  <1>1. CASE UNCHANGED <<sandbox, sent, earned, verdict>>
    BY <1>1 DEF TypeInv, sandbox
  <1>2. CASE Source
    BY <1>1, <1>2 DEF Source, execution
  <1>3. CASE \/ SourceFailed \/ PlanChecks \/ Unmapped
             \/ \E s \in BOOLEAN : \/ Publish(s) \/ Materialize(s) \/ Provision(s) \/ Generate(s)
    BY <1>1, <1>3 DEF SourceFailed, PlanChecks, Unmapped, ExecutionFailed, Becomes, Publish, Materialize,
       Provision, Generate, execution
  <1>4. CASE Launch
    <2>1. NextCheck \in Checks
      BY <1>4, NextCheckIsFirst DEF IInv, Types, Launch
    <2>2. Snapshot \in Snapshots
      BY <1>4, SnapshotIsKnown DEF Launch, Sourced, Ready, Selecting, Executing
    <2> HIDE DEF NextCheck, Snapshot
    <2>3. QED
      BY <1>4, <2>1, <2>2 DEF TypeInv, Launch
  <1>5. ASSUME NEW a \in {Error} \cup Answer, Simulate(a) PROVE SandboxTypes'
    <2>1. Snapshot \in Snapshots
      BY <1>5, SnapshotIsKnown DEF Simulate, Sourced, Ready, Selecting, Executing
    <2> HIDE DEF Snapshot
    <2>2. QED
      BY <1>5, <2>1 DEF TypeInv, Simulate, sandbox
  <1>6. CASE Aggregate
    <2>1. Verdict \in Verdicts
      BY DEF Verdict, Verdicts
    <2>2. QED
      BY <1>6, <2>1 DEF TypeInv, Aggregate, execution, sandbox
  <1>7. ASSUME at \in {"wait", "leave"}, NEW o, NEW e PROVE Earned(o, e) \subseteq Checks \X Snapshots
    <2>1. now \in Checks
      BY <1>7 DEF IInv, Types, SelectionInv
    <2>2. Snapshot \in Snapshots
      BY <1>7, SnapshotIsKnown DEF Sourced, Ready, Selecting, Executing
    <2> HIDE DEF Snapshot
    <2>3. QED
      BY <2>1, <2>2 DEF TypeInv, Earned
  <1>8. ASSUME NEW o \in Output, Writes(o) PROVE SandboxTypes'
    BY <1>7, <1>8 DEF TypeInv, Writes
  <1>9. ASSUME NEW e \in Exit, Exits(e) PROVE SandboxTypes'
    BY <1>7, <1>9 DEF TypeInv, Exits
  <1>10. ASSUME NEW c \in Checks, LeftoverExits(c) PROVE SandboxTypes'
    BY <1>10 DEF TypeInv, LeftoverExits
  <1>11. CASE ProcessFailed \/ TimedOut
    BY <1>11 DEF TypeInv, ProcessFailed, TimedOut, Settled, Stops
  <1>12. CASE ProcessDone
    <2>1. Usable => out \in Answer
      BY <1>12 DEF TypeInv, ProcessDone, Usable, Output
    <2>2. QED
      BY <1>12, <2>1 DEF TypeInv, ProcessDone, Settled, Stops
  <1>13. CASE Leave \/ GiveUp
    BY <1>13 DEF TypeInv, Leave, GiveUp, sandbox
  <1>14. CASE UNCHANGED vars
    BY <1>1, <1>14 DEF vars, execution
  <1>15. QED
    BY <1>2, <1>3, <1>4, <1>5, <1>6, <1>8, <1>9, <1>10, <1>11, <1>12, <1>13, <1>14
       DEF Next, Done, Await, Process, Transport

(***************************************************************************)
(* Every variable keeps its type, dependencies are provided at most once,  *)
(* by materialization or by provisioning and never by both, and no sandbox *)
(* process is left to itself (application-service.ts, pipeline.ts,         *)
(* sandbox-transport.ts).                                                  *)
(***************************************************************************)
THEOREM TypesAndProcesses == Spec => []Inv
  <1>1. Init => TypeInv
    BY DEF Init, SourceInit, TypeInv, SourceTypes, ProvidedOnce, SandboxTypes
  <1>2. IInv /\ TypeInv /\ [Next]_vars => TypeInv'
    BY NextSourceTypes, NextProvidedOnce, NextSandboxTypes DEF TypeInv
  <1>3. IInv /\ TypeInv => Inv
    BY DEF IInv, Types, ProcessInv, TypeInv, SourceTypes, ProvidedOnce, SandboxTypes, Inv, TypeOK
  <1>4. QED
    BY <1>1, <1>2, <1>3, InductiveInvariant, PTL DEF Spec
=============================================================================
