-------------------------- MODULE CommentPublisher --------------------------
(***************************************************************************)
(* Publication of verdicts on one pull request: the comment publisher of   *)
(* apps/api/src/github-pr-comment.ts, the onSettled callback by which      *)
(* github-verification-service.ts starts it, and the second store of the   *)
(* result into the SQLite registry that follows it.                        *)
(*                                                                         *)
(* A job is one push to the pull request; jobs settle in the order they    *)
(* were enqueued.  Publications are not serialized: each runs through its  *)
(* own requests while later jobs settle and publish.  An action is one     *)
(* request taking effect at GitHub, or its answer reaching the process; a  *)
(* request may fail before or after it took effect.  The evidence behind a *)
(* verdict (check runs, requirements) is left to its readers; here it is   *)
(* the verdict they lead to.                                               *)
(*                                                                         *)
(* A definition marked "Faulty" takes no part in the specification: it is  *)
(* a plausible mistake in the operator after it, with which one of the     *)
(* properties must fail.                                                   *)
(***************************************************************************)
EXTENDS Naturals, Sequences, FiniteSets, SequencesExt

CONSTANTS
    Verdicts,    \* the verdicts of mvp-verdict.ts
    NumJobs,     \* jobs of the pull request
    PageSize,    \* entries of a listing (per_page)
    MaxResults,  \* the registry's maxResults
    MaxOthers,   \* bound on what other people post
    MaxFaults    \* bound on failing requests

ASSUME PublisherAssumption ==
    /\ {"none", "absent", "envelope"} \cap Verdicts = {}
    /\ NumJobs \in Nat
    /\ PageSize \in Nat \ {0}
    /\ MaxResults \in Nat \ {0}
    /\ MaxOthers \in Nat
    /\ MaxFaults \in Nat

Jobs == 1..NumJobs

VARIABLES
    service,   \* whether the service serves, drains, is stopped, closed or down
    settled,   \* jobs settled so far
    pub,       \* each job's publication: where it is, its verdict, the write
               \* it makes and the entry that write is for
    comments,  \* the pull request's comments, oldest first
    reviews,   \* the pull request's reviews, oldest first
    result,    \* the registry's content for each job
    retained,  \* jobs with a row in the registry, by rowid
    faults,    \* failed requests so far
    published, \* history: the verdict each job last wrote at GitHub
    overtaken  \* history: jobs for whose pull request another publication
               \* wrote after theirs had listed the comments

github == <<comments, reviews>>
registry == <<result, retained>>
history == <<published, overtaken>>
vars == <<service, settled, pub, github, registry, faults, history>>

\* "evidence": token and evidence requests; "list": the listing of comments;
\* "write": a write is on its way; "written": it took effect, its answer is on
\* its way; "reviews": the listing of reviews.
InFlightStates == {"evidence", "list", "write", "written", "reviews"}
Ended == {"done", "failed", "lost", "unpublished"}
Calls == {"none", "patch", "post", "putReview", "postReview"}

\* A comment or review: the job that last wrote it, 0 for other people's.
Entry == [by : 0..NumJobs, verdict : Verdicts \cup {"none"}]

TypeOK ==
    /\ service \in {"serving", "draining", "stopped", "closed", "down"}
    /\ settled \in 0..NumJobs
    /\ pub \in [Jobs -> [at : {"none"} \cup InFlightStates \cup Ended,
                         verdict : Verdicts \cup {"none"},
                         call : Calls,
                         target : Nat]]
    /\ comments \in Seq(Entry)
    /\ reviews \in Seq(Entry)
    /\ result \in [Jobs -> Verdicts \cup {"absent", "envelope"}]
    /\ retained \in Seq(Jobs) /\ Len(retained) <= MaxResults
    /\ faults \in 0..MaxFaults
    /\ published \in [Jobs -> Verdicts \cup {"none"}]
    /\ overtaken \in SUBSET Jobs

Quiet == [at |-> "none", verdict |-> "none", call |-> "none", target |-> 0]

Init ==
    /\ service = "serving"
    /\ settled = 0
    /\ pub = [j \in Jobs |-> Quiet]
    /\ comments = <<>>
    /\ reviews = <<>>
    /\ result = [j \in Jobs |-> "absent"]
    /\ retained = <<>>
    /\ faults = 0
    /\ published = [j \in Jobs |-> "none"]
    /\ overtaken = {}

InFlight == {j \in Jobs : pub[j].at \in InFlightStates}

\* A publication that came to its end without a verdict stored.
Over(at) == [Quiet EXCEPT !.at = at]

-----------------------------------------------------------------------------
(***************************************************************************)
(* The registry and the settling of a job.                                 *)
(***************************************************************************)

\* The rows without the one of j.
RowsWithout(j) ==
    LET rows == {i \in 1..Len(retained) : retained[i] = j}
    IN IF rows = {} THEN retained ELSE RemoveAt(retained, CHOOSE i \in rows : TRUE)

\* registry.store: the job's row is replaced by one inserted last; the oldest
\* row beyond maxResults is trimmed.
StoreResult(j, content) ==
    LET rows == Append(RowsWithout(j), j)
        trimmed == Len(rows) > MaxResults
    IN /\ retained' = IF trimmed THEN Tail(rows) ELSE rows
       /\ result' = [k \in Jobs |-> IF k = j THEN content
                                    ELSE IF trimmed /\ k = Head(rows) THEN "absent"
                                    ELSE result[k]]

\* A job is completed; its result is the envelope without a verdict.
Completed(j) ==
    /\ j = settled + 1
    /\ settled' = j
    /\ StoreResult(j, "envelope")

\* The outcome reaches the subscribed callback: a publication begins.
Settle(j) ==
    /\ service = "serving"
    /\ Completed(j)
    /\ pub' = [pub EXCEPT ![j].at = "evidence"]
    /\ UNCHANGED <<service, github, faults, history>>

-----------------------------------------------------------------------------
(***************************************************************************)
(* A publication.                                                          *)
(***************************************************************************)

\* The marked entries on the first page of a listing.
MarkedOnPage(list) == {i \in 1..Len(list) : i <= PageSize /\ list[i].by # 0}

\* Faulty: the last marked entry.
FoundLast(list) ==
    IF MarkedOnPage(list) = {} THEN 0
    ELSE CHOOSE i \in MarkedOnPage(list) : \A k \in MarkedOnPage(list) : k <= i

\* find: the first marked entry of the first page, 0 when there is none.
Found(list) ==
    IF MarkedOnPage(list) = {} THEN 0
    ELSE CHOOSE i \in MarkedOnPage(list) : \A k \in MarkedOnPage(list) : i <= k

\* The token was obtained, check runs and requirements were evaluated.  A
\* request for evidence that fails blocks the verdict and nothing else.
Gathered(j, v) ==
    /\ pub[j].at = "evidence"
    /\ pub' = [pub EXCEPT ![j].at = "list", ![j].verdict = v]
    /\ UNCHANGED <<service, settled, github, registry, faults, history>>

\* The comments are listed: update the bot's comment, else create one.
Listed(j) ==
    /\ pub[j].at = "list"
    /\ LET i == Found(comments)
       IN pub' = [pub EXCEPT ![j].at = "write", ![j].target = i,
                             ![j].call = IF i = 0 THEN "post" ELSE "patch"]
    /\ UNCHANGED <<service, settled, github, registry, faults, history>>

\* The reviews are listed, after the comment could not be created.
ReviewsListed(j) ==
    /\ pub[j].at = "reviews"
    /\ LET i == Found(reviews)
       IN pub' = [pub EXCEPT ![j].at = "write", ![j].target = i,
                             ![j].call = IF i = 0 THEN "postReview" ELSE "putReview"]
    /\ UNCHANGED <<service, settled, github, registry, faults, history>>

\* The publication of k knows a listing, or has ended.
HasListed(k) == pub[k].at \notin {"none", "evidence", "list"}

\* GitHub applies the write.
WriteApplied(j) ==
    /\ pub[j].at = "write"
    /\ LET e == [by |-> j, verdict |-> pub[j].verdict]
           i == pub[j].target
       IN CASE pub[j].call = "patch" ->
                   comments' = [comments EXCEPT ![i] = e] /\ UNCHANGED reviews
            [] pub[j].call = "post" ->
                   comments' = Append(comments, e) /\ UNCHANGED reviews
            [] pub[j].call = "putReview" ->
                   reviews' = [reviews EXCEPT ![i] = e] /\ UNCHANGED comments
            [] pub[j].call = "postReview" ->
                   reviews' = Append(reviews, e) /\ UNCHANGED comments
    /\ published' = [published EXCEPT ![j] = pub[j].verdict]
    /\ overtaken' = overtaken \cup ({k \in Jobs : HasListed(k)} \ {j})
    /\ pub' = [pub EXCEPT ![j].at = "written"]
    /\ UNCHANGED <<service, settled, registry, faults>>

\* A request fails, before or after it took effect: only the creation of a
\* comment has a fallback.
RequestFails(j) ==
    /\ faults < MaxFaults
    /\ faults' = faults + 1
    /\ pub[j].at \in InFlightStates
    /\ pub' = IF pub[j].at \in {"write", "written"} /\ pub[j].call = "post"
              THEN [pub EXCEPT ![j].at = "reviews"]
              ELSE [pub EXCEPT ![j] = Over("failed")]
    /\ UNCHANGED <<service, settled, github, registry, history>>

\* Faulty: the verdict is stored as soon as the write is sent.
StoredBeforeWrite(j) ==
    /\ pub[j].at \in {"write", "written"}
    /\ IF service = "closed"
       THEN pub' = [pub EXCEPT ![j] = Over("failed")] /\ UNCHANGED registry
       ELSE /\ pub' = [pub EXCEPT ![j] = Over("done")]
            /\ StoreResult(j, pub[j].verdict)
    /\ UNCHANGED <<service, settled, github, faults, history>>

\* The answer arrives: publish returns the review and its continuation stores
\* the verdict; on a closed registry store throws and the error is logged.
Answered(j) ==
    /\ pub[j].at = "written"
    /\ IF service = "closed"
       THEN pub' = [pub EXCEPT ![j] = Over("failed")] /\ UNCHANGED registry
       ELSE /\ pub' = [pub EXCEPT ![j] = Over("done")]
            /\ StoreResult(j, pub[j].verdict)
    /\ UNCHANGED <<service, settled, github, faults, history>>

-----------------------------------------------------------------------------
(***************************************************************************)
(* The service and other people.                                           *)
(***************************************************************************)

\* stop or close detaches the publisher, then waits for the job in flight.
StopBegins ==
    /\ service = "serving"
    /\ service' = "draining"
    /\ UNCHANGED <<settled, pub, github, registry, faults, history>>

\* The loop has exited, without or with a job that settled meanwhile: nobody
\* is subscribed to its outcome.
StopEnds ==
    /\ service = "draining"
    /\ service' \in {"stopped", "closed"}
    /\ \/ UNCHANGED <<settled, pub, registry>>
       \/ \E j \in Jobs :
              /\ Completed(j)
              /\ pub' = [pub EXCEPT ![j] = Over("unpublished")]
    /\ UNCHANGED <<github, faults, history>>

\* start() on a stopped service attaches the publisher again.
Start ==
    /\ service = "stopped"
    /\ service' = "serving"
    /\ UNCHANGED <<settled, pub, github, registry, faults, history>>

\* The process ends, by a crash or after close: what is in flight is lost, and
\* so is the outcome of a job that was acknowledged but not yet delivered.
Exit ==
    /\ service # "down"
    /\ service' = "down"
    /\ LET lost == [k \in Jobs |-> IF k \in InFlight THEN Over("lost") ELSE pub[k]]
       IN \/ pub' = lost /\ UNCHANGED <<settled, registry>>
          \/ /\ service \in {"serving", "draining"}
             /\ \E j \in Jobs : /\ Completed(j)
                                /\ pub' = [lost EXCEPT ![j] = Over("lost")]
    /\ UNCHANGED <<github, faults, history>>

Restart ==
    /\ service = "down"
    /\ service' = "serving"
    /\ UNCHANGED <<settled, pub, github, registry, faults, history>>

Others(list) == Cardinality({i \in 1..Len(list) : list[i].by = 0})

\* Somebody else comments or reviews.
OtherPosts ==
    /\ Others(comments) + Others(reviews) < MaxOthers
    /\ LET e == [by |-> 0, verdict |-> "none"]
       IN \/ comments' = Append(comments, e) /\ UNCHANGED reviews
          \/ reviews' = Append(reviews, e) /\ UNCHANGED comments
    /\ UNCHANGED <<service, settled, pub, registry, faults, history>>

PublicationStep(j) ==
    \/ \E v \in Verdicts : Gathered(j, v)
    \/ Listed(j)
    \/ ReviewsListed(j)
    \/ WriteApplied(j)
    \/ Answered(j)

Next ==
    \/ \E j \in Jobs : Settle(j) \/ PublicationStep(j) \/ RequestFails(j)
    \/ StopBegins \/ StopEnds \/ Start
    \/ Exit \/ Restart
    \/ OtherPosts

Spec == Init /\ [][Next]_vars

-----------------------------------------------------------------------------
(***************************************************************************)
(* Properties.                                                             *)
(***************************************************************************)

(***************************************************************************)
(* A reader of the result never sees a verdict that the pull request was   *)
(* not shown: whatever failed or crashed, the registry holds a verdict     *)
(* only after the same verdict was written at GitHub                       *)
(* (github-verification-service.ts lines 280-321).                         *)
(***************************************************************************)
StoredWasPublished ==
    \A j \in Jobs : result[j] \in Verdicts => result[j] = published[j]

(***************************************************************************)
(* StoredWasPublished as an inductive invariant: a publication carries its *)
(* verdict from the evidence to the end, what it wrote is that verdict,    *)
(* and its job's result has none before the answer to the write            *)
(* (github-pr-comment.ts lines 521-589, github-verification-service.ts     *)
(* lines 273-305).                                                         *)
(***************************************************************************)
IInv ==
    \A j \in Jobs :
        /\ result[j] \in Verdicts => result[j] = published[j] /\ pub[j].at = "done"
        /\ pub[j].at \in {"list", "write", "written", "reviews"}
              => pub[j].verdict \in Verdicts
        /\ pub[j].at = "written" => pub[j].verdict = published[j]

(***************************************************************************)
(* Until another publication writes, the pull request shows the verdict of *)
(* the last one that succeeded, and the oldest of the bot's comments on    *)
(* the first page, the one every publication updates, is that one's: no    *)
(* duplicate left by a race, a lost answer or a full page is updated in    *)
(* its place.  A publication overtaken between its listing and its write   *)
(* is excepted, and nobody else.                                           *)
(***************************************************************************)
NewestIsShown ==
    \A j \in Jobs \ overtaken :
        pub[j].at = "done" =>
            /\ \E list \in {comments, reviews} : \E i \in 1..Len(list) :
                   list[i] = [by |-> j, verdict |-> published[j]]
            /\ \A i \in 1..Len(comments) :
                   /\ i <= PageSize /\ comments[i].by # 0
                   /\ \A k \in 1..(i - 1) : comments[k].by = 0
                   => comments[i].by = j
=============================================================================
