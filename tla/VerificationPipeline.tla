------------------------ MODULE VerificationPipeline ------------------------
(***************************************************************************)
(* One verification from the request to its verdict: the source is fetched *)
(* (GitHubSource) and published, VerificationApplicationService gives it   *)
(* its dependencies, the pipeline plans and selects checks and executes    *)
(* them one after the other, each in a sandbox process of its own that     *)
(* SubprocessSandboxTransport races against a timer, and the results are   *)
(* aggregated under the default policy (engine/src, checks/src,            *)
(* policy/src).                                                            *)
(*                                                                         *)
(* The process is free: it may answer anything, exit when it likes, or     *)
(* ignore that it is told to. What publishing and composing do to the      *)
(* store is the subject of SnapshotStore; here each succeeds or fails.     *)
(*                                                                         *)
(* A definition marked "Faulty" takes no part in the specification.        *)
(***************************************************************************)
EXTENDS GitHubSource

CONSTANTS
    Unusable, Overflow,  \* what a process may write instead of an answer
    Error,            \* an exception of the sandbox executor
    Checks,           \* the catalogue
    Rank,             \* the order of the plan: priority, then name
    DependsOn,        \* the checks a check must come after
    DefaultRequired,  \* required wherever they apply
    HasSpec,          \* the checks with a trusted execution spec
    DefaultCheck      \* what is selected when nothing is

\* The planner configuration says of a check that it is on the lists of required,
\* optional and disabled checks, and what its override says.
Settings == {"required", "optional", "disabled",
             "override required", "override not required",
             "override optional", "override not optional", "override disabled"}

ASSUME PipelineAssumption ==
    /\ None \notin Checks
    /\ Rank \in [Checks -> Nat] /\ \A c, d \in Checks : Rank[c] = Rank[d] => c = d
    /\ DependsOn \in [Checks -> SUBSET Checks]
    /\ DefaultRequired \subseteq Checks /\ HasSpec \subseteq Checks /\ DefaultCheck \in Checks
    /\ \A r \in Requests :
         /\ {"profile", "config", "selected", "all", "manifest", "materializes",
             "provisioning", "provisioner", "generated", "preparer", "limits", "twice",
             "source"} \subseteq DOMAIN r
         /\ r.profile = None \/ r.profile \subseteq Checks
         /\ r.config \in [Checks -> SUBSET Settings]
         /\ r.source \in {"real", "simulated"}

VARIABLES
    environment,   \* what the sandbox is to be given, or None
    provisions,    \* history: how often dependencies were provided
    todo,          \* the selected checks without an outcome
    now,           \* the check being executed
    out, exit,     \* its process: what it has written, how it has ended
    outcome,       \* its sandbox answer, once there is one
    alive, told,   \* the processes that run, and those told to stop
    waited,        \* the processes that outlasted the wait for their end
    results,       \* the result of each check
    sent,          \* history: the snapshots the sandbox was asked for
    earned,        \* history: the checks that truly succeeded, and on what
    verdict

sandbox == <<now, out, exit, outcome, alive, told, waited>>
execution == <<todo, sandbox, results, sent, earned>>
prepared == <<environment, provisions>>
vars == <<request, at, fault, acquired, prepared, execution, verdict>>

\* What may stand on the process's two outputs when they end: an answer
\* [status, exitCode], nothing usable, or too much.
Answer == [status : {"completed", "failed", "timed_out", "cancelled", "error"}, exitCode : {0, 1, None}]
Output == {Unusable, Overflow} \cup Answer
CheckStatus == {"passed", "failed", "error", "timed_out", "cancelled"}

\* Codes, and the two other ways a process ends: by a signal, or never started.
Exit == {"zero", "nonzero", "signal", "spawn"}

\* The names sandboxes know snapshots by.
SourceSnapshot(commit) == <<"source", commit>>
ComposedSnapshot(commit) == <<"composed", commit>>
Snapshots == {SourceSnapshot(c) : c \in Commits} \cup {ComposedSnapshot(c) : c \in Commits}
Environment == [snapshot : Snapshots, generated : Nat]
Verdicts == {"pass", "partial", "needs_changes", "blocked", "error"}

ASSUME MarkerAssumption ==
    /\ {None, Unusable, Overflow, Error} \cap Answer = {} /\ Error # None
    /\ Unusable # None /\ Overflow # None /\ Unusable # Overflow
    /\ None \notin CheckStatus \cup Exit \cup Verdicts /\ None \notin Environment

-----------------------------------------------------------------------------
(***************************************************************************)
(* The plan of a request and the selection from it.                        *)
(***************************************************************************)

Says(r, c, words) == r.config[c] \cap words # {}

Disabled(r, c) == Says(r, c, {"disabled", "override disabled"})
Planned(r) == {c \in Checks : c \in r.profile \/ r.config[c] # {}}
Applicability(r, c) ==
    IF Disabled(r, c) THEN "not_applicable" ELSE IF c \in r.profile THEN "applicable" ELSE "unsupported"
Applicable(r) == {c \in Planned(r) : ~Disabled(r, c) /\ c \in r.profile}

\* An override beats the lists, and the lists beat the default.
Required(r, c) ==
    /\ ~Disabled(r, c)
    /\ IF Says(r, c, {"override required", "override not required"}) THEN Says(r, c, {"override required"})
       ELSE IF Says(r, c, {"override optional", "override not optional"}) THEN Says(r, c, {"override not optional"})
       ELSE \/ Says(r, c, {"required"})
            \/ ~Says(r, c, {"optional"}) /\ c \in r.profile \cap DefaultRequired

Contradictory(r, c) ==
    /\ ~Disabled(r, c)
    /\ \/ /\ Says(r, c, {"override required", "override not required"})
          /\ Says(r, c, {"override optional", "override not optional"})
       \/ {"required", "optional"} \subseteq r.config[c]

Dependencies(r, c) == IF Disabled(r, c) THEN {} ELSE DependsOn[c]

\* The planner throws: a contradiction, or a dependency that is not before.
Unplannable(r) ==
    \E c \in Planned(r) :
        \/ Contradictory(r, c)
        \/ \E d \in Dependencies(r, c) : d \notin Planned(r) \/ Rank[d] >= Rank[c]

\* resolveCheckSelection: explicit ids, all that apply and can be run, or the default.
Selected(r) ==
    IF r.selected # None THEN r.selected
    ELSE IF r.all THEN Applicable(r) \cap HasSpec
    ELSE {DefaultCheck}

-----------------------------------------------------------------------------
Init ==
    /\ SourceInit
    /\ environment = None /\ provisions = 0
    /\ todo = {} /\ now = None /\ out = None /\ exit = None /\ outcome = None
    /\ alive = {} /\ told = {} /\ waited = {}
    /\ results = [c \in Checks |-> None]
    /\ sent = {} /\ earned = {} /\ verdict = None

Source == SourceNext /\ UNCHANGED <<prepared, execution, verdict>>

Throw(code) == at' = "done" /\ fault' = code
Becomes(code) == Throw(code) /\ UNCHANGED <<request, acquired, prepared, execution, verdict>>

\* verifySource hands on an invalid reference and wraps every other error.
SourceFailed ==
    /\ at = "failed"
    /\ Becomes(IF fault = "InvalidSourceReference" THEN fault ELSE "source_resolution_failed")

\* The publisher puts the source in the store before anybody may use it.
Publish(succeeds) ==
    /\ at = "resolved"
    /\ \/ ~succeeds /\ Becomes("source_resolution_failed")
       \/ /\ succeeds /\ Proceed("materialize")
          /\ UNCHANGED <<request, acquired, prepared, execution, verdict>>

\* Provisioning the caller asked for replaces materialization.
Materializes == ~request.provisioning /\ request.materializes /\ request.manifest

Materialize(succeeds) ==
    /\ at = "materialize"
    /\ \/ ~Materializes /\ Proceed("plan") /\ UNCHANGED prepared
       \/ /\ Materializes /\ succeeds /\ Proceed("plan")
          /\ environment' = [snapshot |-> ComposedSnapshot(sha), generated |-> 0]
          /\ provisions' = provisions + 1
       \/ Materializes /\ ~succeeds /\ Throw("dependency_provisioning_failed") /\ UNCHANGED prepared
    /\ UNCHANGED <<request, acquired, execution, verdict>>

\* Detection, plan and selection, which are synchronous; an error of the planner
\* has no code.
PlanChecks ==
    /\ at = "plan"
    /\ \/ request.profile = None /\ Becomes("detection_failed")
       \/ /\ request.profile # None
          /\ LET selected == Selected(request)
             IN  \/ Unplannable(request) /\ Becomes("unclassified")
                 \/ /\ ~Unplannable(request)
                    /\ selected = {} \/ request.twice \/ ~(selected \subseteq Applicable(request))
                    /\ Becomes("no_applicable_check")
                 \/ /\ ~Unplannable(request)
                    /\ selected # {} /\ ~request.twice /\ selected \subseteq Applicable(request)
                    /\ todo' = selected /\ Proceed("provision")
                    /\ UNCHANGED <<request, acquired, prepared, sandbox, results, sent, earned, verdict>>

\* Dependencies the caller asked the pipeline for, once, unless there is an
\* environment already; the sandbox is still given the source alone.
Provision(succeeds) ==
    /\ at = "provision"
    /\ LET asked == environment = None /\ request.provisioning
       IN  \/ ~asked /\ Proceed("generate") /\ UNCHANGED prepared
           \/ /\ asked /\ request.provisioner /\ succeeds /\ Proceed("generate")
              /\ environment' = [snapshot |-> SourceSnapshot(sha), generated |-> 0]
              /\ provisions' = provisions + 1
           \/ /\ asked /\ ~(request.provisioner /\ succeeds)
              /\ Throw("dependency_provisioning_failed") /\ UNCHANGED prepared
    /\ UNCHANGED <<request, acquired, execution, verdict>>

\* The snapshot a sandbox request names: that of the environment, or the source.
Snapshot == IF environment = None THEN SourceSnapshot(sha) ELSE environment.snapshot

Prepared == IF environment = None THEN 0 ELSE environment.generated

\* One generated artifact; all are prepared before anything is executed.
Generate(succeeds) ==
    /\ at = "generate"
    /\ \/ Prepared = request.generated /\ Proceed("check") /\ UNCHANGED prepared
       \/ /\ Prepared < request.generated /\ request.preparer /\ succeeds
          /\ environment' = [snapshot |-> Snapshot, generated |-> Prepared + 1]
          /\ UNCHANGED <<at, fault, provisions>>
       \/ /\ Prepared < request.generated /\ ~(request.preparer /\ succeeds)
          /\ Throw("dependency_provisioning_failed") /\ UNCHANGED prepared
    /\ UNCHANGED <<request, acquired, execution, verdict>>

-----------------------------------------------------------------------------
(***************************************************************************)
(* One check after the other.                                              *)
(***************************************************************************)

\* Faulty: a check is taken as the selection happens to list them.
LatestCheck == CHOOSE c \in todo : \A d \in todo : Rank[d] <= Rank[c]

NextCheck == CHOOSE c \in todo : \A d \in todo : Rank[c] <= Rank[d]

\* The request that maps the execution is refused before anything is sent.
Unmappable(c) == c \notin HasSpec \/ ~request.limits

ExecutionFailed == Becomes("execution_failed")

Unmapped == at = "check" /\ todo # {} /\ Unmappable(NextCheck) /\ ExecutionFailed

Launch ==
    /\ at = "check" /\ todo # {} /\ ~Unmappable(NextCheck) /\ request.source = "real"
    /\ now' = NextCheck /\ alive' = alive \cup {NextCheck}
    /\ out' = None /\ exit' = None /\ outcome' = None
    /\ sent' = sent \cup {Snapshot}
    /\ Proceed("wait")
    /\ UNCHANGED <<request, acquired, prepared, todo, told, waited, results, earned, verdict>>

\* An execution counts as earned when its process, before it was told to stop,
\* answered that the command completed with code 0, and ended with code 0 itself.
Earned(o, e) ==
    IF o = [status |-> "completed", exitCode |-> 0] /\ e = "zero" /\ now \notin told
    THEN earned \cup {<<now, Snapshot>>} ELSE earned

\* Both outputs end; after the exit, too, when a child of the process holds them.
Writes(o) ==
    /\ at = "wait" /\ out = None /\ exit # "spawn"
    /\ out' = o /\ earned' = Earned(o, exit)
    /\ UNCHANGED <<request, at, fault, acquired, prepared, todo, now, exit, outcome,
                   alive, told, waited, results, sent, verdict>>

Exits(e) ==
    /\ at \in {"wait", "leave"} /\ now \in alive
    /\ e = "spawn" => out = None /\ at = "wait"
    /\ exit' = e /\ alive' = alive \ {now} /\ earned' = Earned(out, e)
    /\ UNCHANGED <<request, at, fault, acquired, prepared, todo, now, out, outcome,
                   told, waited, results, sent, verdict>>

\* A process that outlasted its execution ends after all.
LeftoverExits(c) ==
    /\ c \in alive /\ (c # now \/ at \notin {"wait", "leave"})
    /\ alive' = alive \ {c}
    /\ UNCHANGED <<request, at, fault, acquired, prepared, todo, now, out, exit, outcome,
                   told, waited, results, sent, earned, verdict>>

\* Faulty: only the timer stops the process.
StopsOnlyLate == told

\* The finally block stops a process that still runs.
Stops == told \cup (alive \cap {now})

Settled(answer) ==
    /\ outcome' = answer /\ told' = Stops /\ Proceed("leave")
    /\ UNCHANGED <<request, acquired, prepared, todo, now, out, exit, alive, waited,
                   results, sent, earned, verdict>>

\* Promise.all rejects as soon as one part does, and else resolves when all have.
ProcessFailed == at = "wait" /\ (exit = "spawn" \/ out = Overflow) /\ Settled(Error)

\* Faulty: what stands on the output counts, however the process ended.
UsableOutput == out \in Answer

\* The exit code comes first, then the validation of the answer.
Usable == exit = "zero" /\ out \in Answer

ProcessDone ==
    /\ at = "wait" /\ out # None /\ out # Overflow /\ exit # None /\ exit # "spawn"
    /\ Settled(IF Usable THEN out ELSE Error)

\* Faulty: the timer is cleared by the first output.
TimedOutSilent ==
    /\ at = "wait" /\ out = None
    /\ outcome' = Error /\ told' = told \cup (alive \cap {now}) /\ Proceed("leave")
    /\ UNCHANGED <<request, acquired, prepared, todo, now, out, exit, alive, waited,
                   results, sent, earned, verdict>>

TimedOut ==
    /\ at = "wait"
    /\ outcome' = Error /\ told' = told \cup (alive \cap {now}) /\ Proceed("leave")
    /\ UNCHANGED <<request, acquired, prepared, todo, now, out, exit, alive, waited,
                   results, sent, earned, verdict>>

\* checkStatus: a command that failed to run is an error, one that ran and did
\* not return 0 a failure.
StatusOf(answer) ==
    CASE answer.status = "completed" -> IF answer.exitCode = 0 THEN "passed" ELSE "failed"
      [] answer.status = "failed"    -> "error"
      [] OTHER                       -> answer.status

\* The executor maps an answer to the check's result; an error ends the
\* verification, whatever is still to be executed.
Return ==
    \/ /\ outcome = Error /\ Throw("execution_failed") /\ UNCHANGED <<todo, results>>
    \/ /\ outcome # Error /\ Proceed("check")
       /\ todo' = todo \ {now} /\ results' = [results EXCEPT ![now] = StatusOf(outcome)]

\* The execution returns when its process has ended, or has been given the time to.
Leave ==
    /\ at = "leave" /\ now \notin alive /\ Return
    /\ UNCHANGED <<request, acquired, prepared, sandbox, sent, earned, verdict>>

GiveUp ==
    /\ at = "leave" /\ now \in alive /\ Return /\ waited' = waited \cup {now}
    /\ UNCHANGED <<request, acquired, prepared, now, out, exit, outcome, alive, told,
                   sent, earned, verdict>>

\* A simulated sandbox answers at once, without a process, or fails.
Simulate(answer) ==
    /\ at = "check" /\ todo # {} /\ ~Unmappable(NextCheck) /\ request.source = "simulated"
    /\ \/ answer = Error /\ Throw("execution_failed") /\ UNCHANGED <<todo, results>>
       \/ /\ answer # Error /\ Proceed("check")
          /\ todo' = todo \ {NextCheck}
          /\ results' = [results EXCEPT ![NextCheck] = StatusOf(answer)]
    /\ sent' = sent \cup {Snapshot}
    /\ UNCHANGED <<request, acquired, prepared, sandbox, earned, verdict>>

-----------------------------------------------------------------------------
(***************************************************************************)
(* Aggregation under the default policy.                                   *)
(***************************************************************************)

Ran(c) == results[c] # None

\* Faulty: a check that was cancelled raises no finding.
FindingsUncancelled == {c \in Checks : Ran(c) /\ results[c] \notin {"passed", "cancelled"}}

\* The checks with a finding: all of them are of high severity.
Findings == {c \in Checks : Ran(c) /\ results[c] # "passed"}

RequiredAndApplicable == {c \in Applicable(request) : Required(request, c)}
Unsupported == {c \in Planned(request) : Applicability(request, c) = "unsupported"}
Unreal == {c \in RequiredAndApplicable : Ran(c) /\ request.source # "real"}
Verified == {c \in Applicable(request) : results[c] = "passed" /\ request.source = "real"}

PolicyOutcome ==
    IF Findings # {} THEN "block"
    ELSE IF Unreal # {} \/ (\E c \in Unsupported : Required(request, c)) THEN "needs_changes"
    ELSE "allow"

\* Whatever applies and was not verified, and whatever is unsupported, makes an
\* allowed verification partial.
Verdict ==
    IF \E c \in Checks : results[c] = "error" THEN "error"
    ELSE IF PolicyOutcome = "block" THEN "blocked"
    ELSE IF PolicyOutcome = "needs_changes" THEN "needs_changes"
    ELSE IF Applicable(request) \ Verified # {} \/ Unsupported # {} THEN "partial"
    ELSE "pass"

Aggregate ==
    /\ at = "check" /\ todo = {}
    /\ verdict' = Verdict /\ Proceed("done")
    /\ UNCHANGED <<request, acquired, prepared, execution>>

-----------------------------------------------------------------------------
Await ==
    \/ SourceFailed
    \/ \E succeeds \in BOOLEAN : \/ Publish(succeeds) \/ Materialize(succeeds)
                                \/ Provision(succeeds) \/ Generate(succeeds)
    \/ PlanChecks
    \/ Unmapped \/ Launch
    \/ \E answer \in {Error} \cup Answer : Simulate(answer)
    \/ Aggregate

Process ==
    \/ \E o \in Output : Writes(o)
    \/ \E e \in Exit : Exits(e)
    \/ \E c \in Checks : LeftoverExits(c)

Transport == ProcessFailed \/ ProcessDone \/ TimedOut \/ Leave \/ GiveUp

Done == at = "done" /\ UNCHANGED vars

Next == Source \/ Await \/ Process \/ Transport \/ Done

\* A request to GitHub ends: fetch has its own limits. Copies end. The timers of
\* the transport fire. Nothing is asked of the sandbox process.
Fairness ==
    /\ WF_vars(Source) /\ WF_vars(Await)
    /\ WF_vars(TimedOut) /\ WF_vars(Leave) /\ WF_vars(GiveUp)

Spec == Init /\ [][Next]_vars /\ Fairness

-----------------------------------------------------------------------------
(***************************************************************************)
(* Properties.                                                             *)
(***************************************************************************)

Steps == SourceSteps \cup
    {"failed", "materialize", "plan", "provision", "generate", "check", "wait", "leave", "done"}

\* The type invariant.
TypeOK ==
    /\ request \in Requests /\ at \in Steps
    /\ sha \in {None} \cup Commits
    /\ unread \subseteq TreeOf[request.commit] /\ contents \subseteq TreeOf[request.commit]
    /\ bytes \in Nat
    /\ environment \in {None} \cup Environment
    /\ provisions \in 0..1
    /\ todo \subseteq Checks /\ now \in {None} \cup Checks
    /\ out \in {None} \cup Output /\ exit \in {None} \cup Exit
    /\ outcome \in {None, Error} \cup Answer
    /\ alive \subseteq Checks /\ told \subseteq Checks /\ waited \subseteq Checks
    /\ results \in [Checks -> {None} \cup CheckStatus]
    /\ sent \subseteq Snapshots /\ earned \subseteq Checks \X Snapshots
    /\ verdict \in {None} \cup Verdicts

\* What the sandbox ought to be given for the request.
Expected ==
    IF Materializes THEN ComposedSnapshot(request.commit) ELSE SourceSnapshot(request.commit)

\* A verification passes only if every check that applies was truly successful in
\* a sandbox process of its own, on the snapshot that belongs to the request, and
\* nothing is unsupported: no transport error, late answer, simulation or check
\* that was never selected ends as a pass.
PassIsEarned ==
    verdict = "pass" =>
        /\ \A c \in Applicable(request) : <<c, Expected>> \in earned
        /\ \A c \in Planned(request) : Applicability(request, c) # "unsupported"

\* A selected check that was not truly successful leaves a real verification
\* without a verdict or with one that says so; it cannot hide as partial.
FailureIsVisible ==
    verdict \notin {None, "blocked", "error"} /\ request.source = "real" =>
        \A c \in Selected(request) : <<c, Expected>> \in earned

\* Every check of a verification is run on the one snapshot of the requested
\* commit, composed if the commit needs dependencies, and only after every text
\* file of that commit was fetched: nothing partial, nothing of another commit.
SnapshotIsExact ==
    sent # {} => sent = {Expected} /\ contents = TextOf(request.commit)

\* A check is executed after those it depends on. One that is not planned stops
\* the verification; one that is disabled, or left out of an explicit selection,
\* is not waited for.
DependenciesFirst ==
    at = "wait" =>
        \A d \in DependsOn[now] :
            d \in Planned(request) /\ (d \in Selected(request) => results[d] # None)

\* Sandbox processes of a verification never overlap. One that outlives its
\* execution was told to stop and given the time to, and is left behind only by a
\* verification that failed.
NoProcessLeft ==
    \A c \in alive :
        /\ c = now
        /\ at \notin {"wait", "leave"} =>
             c \in told \cap waited /\ at = "done" /\ fault = "execution_failed"

\* The types, and that no sandbox process is left to itself.
Inv == TypeOK /\ NoProcessLeft

\* Every verification comes to an end, whatever the sandbox process does.
VerificationEnds == <>(at = "done")
=============================================================================
