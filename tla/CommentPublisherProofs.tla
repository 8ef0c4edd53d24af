----------------------- MODULE CommentPublisherProofs -----------------------
(***************************************************************************)
(* However publications overlap, fail, are lost or are evicted, for any    *)
(* number of jobs: the registry never holds a verdict that the pull        *)
(* request was not shown, and its rows stay within their limit; a          *)
(* publication that no other overtakes creates a comment only where there  *)
(* is none, and leaves its verdict in the one that later ones update.      *)
(***************************************************************************)
EXTENDS CommentPublisher, TLAPS, FiniteSetTheorems, WellFoundedInduction, SequenceTheorems

\* What the proof needs to know of the types: the sequences play no part.
Publication == [at : {"none"} \cup InFlightStates \cup Ended,
                verdict : Verdicts \cup {"none"},
                call : Calls,
                target : Nat]

Publications ==
    /\ pub \in [Jobs -> Publication]
    /\ result \in [Jobs -> Verdicts \cup {"absent", "envelope"}]
    /\ published \in [Jobs -> Verdicts \cup {"none"}]

\* What IInv says of one job.
Carries(p, r, w) ==
    /\ r \in Verdicts => r = w /\ p.at = "done"
    /\ p.at \in {"list", "write", "written", "reviews"} => p.verdict \in Verdicts
    /\ p.at = "written" => p.verdict = w

(***************************************************************************)
(* A set of positions, if not empty, has a least element: the one whose    *)
(* interval of smaller numbers is minimal for inclusion.                   *)
(***************************************************************************)
LEMMA LeastPosition ==
    ASSUME NEW n \in Nat, NEW T \in SUBSET (1..n), T # {}
    PROVE  \E i \in T : \A k \in T : i <= k
  <1> DEFINE Below == {1..i : i \in T}
             R == StrictSubsetOrdering(1..n)
  <1>1. PICK B \in Below : \A C \in Below : <<C, B>> \notin R
    <2>1. IsWellFoundedOn(R, FiniteSubsetsOf(1..n))
      BY FS_StrictSubsetOrderingWellFounded
    <2>2. Below \subseteq FiniteSubsetsOf(1..n)
      <3>1. \A i \in T : 1..i \in SUBSET (1..n) /\ IsFiniteSet(1..i)
        BY FS_Interval
      <3>2. QED
        BY <3>1 DEF FiniteSubsetsOf
    <2>3. Below # {}
      OBVIOUS
    <2> HIDE DEF Below, R
    <2>4. QED
      BY <2>1, <2>2, <2>3, WFMin
  <1>2. PICK i \in T : B = 1..i
    OBVIOUS
  <1>3. ASSUME NEW k \in T, k < i PROVE FALSE
    <2>1. 1..k \subseteq 1..i /\ 1..k # 1..i /\ 1..k \in SUBSET (1..n)
          /\ 1..i \in SUBSET (1..n)
      BY <1>3
    <2>2. <<1..k, B>> \in R
      BY <1>2, <2>1 DEF StrictSubsetOrdering
    <2>3. QED
      BY <1>1, <2>2
  <1>4. QED
    BY <1>3

(***************************************************************************)
(* Found names a position of the listing, or 0.                            *)
(***************************************************************************)
LEMMA FoundPosition == ASSUME NEW list PROVE Found(list) \in Nat
  <1>1. CASE MarkedOnPage(list) = {}
    BY <1>1 DEF Found
  <1>2. CASE MarkedOnPage(list) # {}
    <2>1. MarkedOnPage(list) \in SUBSET (1..PageSize)
      BY PublisherAssumption DEF MarkedOnPage
    <2>2. \E i \in MarkedOnPage(list) : \A k \in MarkedOnPage(list) : i <= k
      BY <1>2, <2>1, PublisherAssumption, LeastPosition
    <2>3. Found(list) \in MarkedOnPage(list)
      BY <1>2, <2>2 DEF Found
    <2>4. QED
      BY <2>1, <2>3
  <1>3. QED
    BY <1>1, <1>2

(***************************************************************************)
(* Storing a result changes it for its job and, at most, drops others.     *)
(***************************************************************************)
LEMMA StoreResultEffect ==
    ASSUME Publications, NEW j \in Jobs,
           NEW content \in Verdicts \cup {"absent", "envelope"},
           StoreResult(j, content)
    PROVE  /\ result' \in [Jobs -> Verdicts \cup {"absent", "envelope"}]
           /\ result'[j] = content
           /\ \A k \in Jobs \ {j} : result'[k] \in {result[k], "absent"}
  BY DEF StoreResult, Publications

(***************************************************************************)
(* A step of job j's publication leaves p there, w written and r in the    *)
(* registry, and touches nothing of the other jobs but what is trimmed: it *)
(* keeps the invariant if p, r and w do.                                   *)
(***************************************************************************)
LEMMA OneStep ==
    ASSUME Publications, IInv, NEW j \in Jobs, NEW p \in Publication,
           pub' = [pub EXCEPT ![j] = p],
           result' \in [Jobs -> Verdicts \cup {"absent", "envelope"}],
           published' \in [Jobs -> Verdicts \cup {"none"}],
           \A k \in Jobs \ {j} : /\ result'[k] \in {result[k], "absent"}
                                 /\ published'[k] = published[k],
           Carries(p, result'[j], published'[j])
    PROVE  (Publications /\ IInv)'
  <1> USE PublisherAssumption DEF Publications, IInv, Carries
  <1>1. Publications'
    OBVIOUS
  <1>2. IInv'
    <2> SUFFICES ASSUME NEW k \in Jobs
                 PROVE  Carries(pub'[k], result'[k], published'[k])
      OBVIOUS
    <2>1. CASE k = j
      BY <2>1
    <2>2. CASE k # j
      BY <2>2
    <2>3. QED
      BY <2>1, <2>2
  <1>3. QED
    BY <1>1, <1>2

(***************************************************************************)
(* The steps of a publication between its settling and its end.            *)
(***************************************************************************)
LEMMA PublicationSteps ==
    ASSUME Publications, IInv, NEW j \in Jobs,
           PublicationStep(j) \/ RequestFails(j)
    PROVE  (Publications /\ IInv)'
  <1> DEFINE old == pub[j]
  <1>1. old \in Publication /\ Carries(old, result[j], published[j])
    BY DEF Publications, IInv, Carries
  <1>2. ASSUME NEW v \in Verdicts, Gathered(j, v) PROVE (Publications /\ IInv)'
    <2> DEFINE new == [old EXCEPT !.at = "list", !.verdict = v]
    <2>1. pub' = [pub EXCEPT ![j] = new]
      BY <1>2 DEF Gathered, Publications
    <2>2. new \in Publication /\ Carries(new, result[j], published[j])
      BY <1>1, <1>2 DEF Gathered, Carries, Publication, InFlightStates
    <2>3. result' = result /\ published' = published
      BY <1>2 DEF Gathered, registry, history
    <2> HIDE DEF new, old
    <2>4. QED
      BY <2>1, <2>2, <2>3, OneStep DEF Publications
  <1>3. ASSUME Listed(j) \/ ReviewsListed(j) PROVE (Publications /\ IInv)'
    <2> DEFINE new(i, call) == [old EXCEPT !.at = "write", !.target = i, !.call = call]
    <2>1. PICK i \in Nat, call \in Calls : pub' = [pub EXCEPT ![j] = new(i, call)]
      <3>1. Found(comments) \in Nat /\ Found(reviews) \in Nat
        BY FoundPosition
      <3>2. CASE Listed(j)
        BY <3>1, <3>2 DEF Listed, Publications, Calls
      <3>3. CASE ReviewsListed(j)
        BY <3>1, <3>3 DEF ReviewsListed, Publications, Calls
      <3>4. QED
        BY <1>3, <3>2, <3>3
    <2>2. new(i, call) \in Publication /\ Carries(new(i, call), result[j], published[j])
      BY <1>1, <1>3 DEF Listed, ReviewsListed, Carries, Publication, InFlightStates
    <2>3. result' = result /\ published' = published
      BY <1>3 DEF Listed, ReviewsListed, registry, history
    <2> HIDE DEF new, old
    <2>4. QED
      BY <2>1, <2>2, <2>3, OneStep DEF Publications
  <1>4. ASSUME WriteApplied(j) PROVE (Publications /\ IInv)'
    <2> DEFINE new == [old EXCEPT !.at = "written"]
    <2>1. pub' = [pub EXCEPT ![j] = new]
      BY <1>4 DEF WriteApplied, Publications
    <2>2. new \in Publication /\ old.verdict \in Verdicts
      BY <1>1, <1>4 DEF WriteApplied, Carries, Publication, InFlightStates
    <2>3. result' = result /\ published' = [published EXCEPT ![j] = old.verdict]
      BY <1>4 DEF WriteApplied, registry
    <2>4. Carries(new, result[j], published'[j])
      BY <1>1, <1>4, <2>2, <2>3 DEF WriteApplied, Carries, Publication, Publications
    <2> HIDE DEF new, old
    <2>5. QED
      BY <2>1, <2>2, <2>3, <2>4, OneStep DEF Publications
  <1>5. ASSUME RequestFails(j) PROVE (Publications /\ IInv)'
    <2> DEFINE retry == [old EXCEPT !.at = "reviews"]
    <2>1. PICK p \in {Over("failed"), retry} :
              /\ pub' = [pub EXCEPT ![j] = p]
              /\ p = retry => old.at \in {"write", "written"}
      BY <1>5 DEF RequestFails, Publications, Over, Quiet
    <2>2. p \in Publication /\ Carries(p, result[j], published[j])
      BY <1>1, <1>5, <2>1
         DEF RequestFails, Carries, Publication, InFlightStates, Ended, Over,
             Quiet, Calls
    <2>3. result' = result /\ published' = published
      BY <1>5 DEF RequestFails, registry, history
    <2> HIDE DEF old, retry
    <2>4. QED
      BY <2>1, <2>2, <2>3, OneStep DEF Publications
  <1>6. ASSUME Answered(j) PROVE (Publications /\ IInv)'
    <2>1. /\ Over("failed") \in Publication /\ Over("done") \in Publication
          /\ Over("failed").at = "failed" /\ Over("done").at = "done"
      BY DEF Over, Quiet, Publication, InFlightStates, Ended, Calls
    <2>2. published' = published /\ old.verdict = published[j]
          /\ old.verdict \in Verdicts /\ result[j] \notin Verdicts
      BY <1>1, <1>6 DEF Answered, history, Carries
    <2>3. CASE service = "closed"
      <3>1. pub' = [pub EXCEPT ![j] = Over("failed")] /\ result' = result
        BY <1>6, <2>3 DEF Answered, registry
      <3>2. Carries(Over("failed"), result[j], published[j])
        BY <2>1, <2>2 DEF Carries
      <3> HIDE DEF old
      <3>3. QED
        BY <2>1, <2>2, <3>1, <3>2, OneStep DEF Publications
    <2>4. CASE service # "closed"
      <3>1. /\ pub' = [pub EXCEPT ![j] = Over("done")]
            /\ StoreResult(j, old.verdict)
        BY <1>6, <2>4 DEF Answered
      <3>2. /\ result' \in [Jobs -> Verdicts \cup {"absent", "envelope"}]
            /\ result'[j] = old.verdict
            /\ \A k \in Jobs \ {j} : result'[k] \in {result[k], "absent"}
        BY <2>2, <3>1, StoreResultEffect
      <3>3. Carries(Over("done"), result'[j], published[j])
        BY <2>1, <2>2, <3>2 DEF Carries
      <3> HIDE DEF old
      <3>4. QED
        BY <2>1, <2>2, <3>1, <3>2, <3>3, OneStep DEF Publications
    <2>5. QED
      BY <2>3, <2>4
  <1>7. QED
    BY <1>2, <1>3, <1>4, <1>5, <1>6 DEF PublicationStep

(***************************************************************************)
(* A job completes, published or not: its result has no verdict yet.       *)
(***************************************************************************)
LEMMA JobCompletes ==
    ASSUME Publications, IInv, NEW j \in Jobs, Completed(j),
           NEW p \in Publication, p.at \in {"evidence", "unpublished", "lost"},
           pub' = [pub EXCEPT ![j] = p], published' = published
    PROVE  (Publications /\ IInv)'
  <1>1. /\ result' \in [Jobs -> Verdicts \cup {"absent", "envelope"}]
        /\ result'[j] = "envelope"
        /\ \A k \in Jobs \ {j} : result'[k] \in {result[k], "absent"}
    BY StoreResultEffect DEF Completed
  <1>2. Carries(p, result'[j], published'[j])
    BY <1>1, PublisherAssumption DEF Carries
  <1>3. QED
    BY <1>1, <1>2, OneStep DEF Publications

(***************************************************************************)
(* What is in flight at the end of the process is lost.                    *)
(***************************************************************************)
LEMMA LostKeeps ==
    ASSUME Publications, IInv,
           NEW lost, lost = [k \in Jobs |-> IF k \in InFlight THEN Over("lost") ELSE pub[k]]
    PROVE  /\ lost \in [Jobs -> Publication]
           /\ \A k \in Jobs : Carries(lost[k], result[k], published[k])
  <1>1. Over("lost") \in Publication /\ Over("lost").at = "lost"
    BY DEF Over, Quiet, Publication, InFlightStates, Ended, Calls
  <1>2. ASSUME NEW k \in Jobs
        PROVE  lost[k] \in Publication /\ Carries(lost[k], result[k], published[k])
    <2>1. CASE k \in InFlight
      BY <1>1, <2>1 DEF InFlight, InFlightStates, IInv, Carries
    <2>2. CASE k \notin InFlight
      BY <2>2 DEF Publications, IInv, Carries
    <2>3. QED
      BY <2>1, <2>2
  <1>3. QED
    BY <1>2

(***************************************************************************)
(* Every request, answer, failure and crash keeps the invariant.           *)
(***************************************************************************)
LEMMA NextIInv == Publications /\ IInv /\ [Next]_vars => (Publications /\ IInv)'
  <1> SUFFICES ASSUME Publications, IInv, [Next]_vars
               PROVE  (Publications /\ IInv)'
    OBVIOUS
  <1>1. ASSUME NEW j \in Jobs, Settle(j) PROVE (Publications /\ IInv)'
    <2> DEFINE new == [pub[j] EXCEPT !.at = "evidence"]
    <2>1. pub' = [pub EXCEPT ![j] = new] /\ Completed(j) /\ published' = published
      BY <1>1 DEF Settle, Publications, history
    <2>2. new \in Publication /\ new.at = "evidence"
      BY DEF Publications, Publication, InFlightStates
    <2> HIDE DEF new
    <2>3. QED
      BY <2>1, <2>2, JobCompletes
  <1>2. ASSUME NEW j \in Jobs, PublicationStep(j) \/ RequestFails(j)
        PROVE  (Publications /\ IInv)'
    BY <1>2, PublicationSteps
  <1>3. CASE UNCHANGED <<pub, registry, history>>
    BY <1>3 DEF Publications, IInv, registry, history
  <1>4. CASE StopEnds
    <2>1. ASSUME NEW j \in Jobs, Completed(j),
                 pub' = [pub EXCEPT ![j] = Over("unpublished")]
          PROVE  (Publications /\ IInv)'
      <3>1. Over("unpublished") \in Publication /\ Over("unpublished").at = "unpublished"
        BY DEF Over, Quiet, Publication, InFlightStates, Ended, Calls
      <3>2. QED
        BY <1>4, <2>1, <3>1, JobCompletes DEF StopEnds, history
    <2>2. QED
      BY <1>3, <1>4, <2>1 DEF StopEnds
  <1>5. CASE Exit
    <2> DEFINE lost == [k \in Jobs |-> IF k \in InFlight THEN Over("lost") ELSE pub[k]]
    <2>1. /\ lost \in [Jobs -> Publication]
          /\ \A k \in Jobs : Carries(lost[k], result[k], published[k])
      BY LostKeeps
    <2> HIDE DEF lost
    <2>2. CASE pub' = lost /\ UNCHANGED <<settled, registry>>
      BY <1>5, <2>1, <2>2 DEF Exit, registry, history, Publications, IInv, Carries
    <2>3. ASSUME NEW j \in Jobs, Completed(j), pub' = [lost EXCEPT ![j] = Over("lost")]
          PROVE  (Publications /\ IInv)'
      <3>1. /\ result' \in [Jobs -> Verdicts \cup {"absent", "envelope"}]
            /\ result'[j] = "envelope"
            /\ \A k \in Jobs \ {j} : result'[k] \in {result[k], "absent"}
        BY <2>3, StoreResultEffect DEF Completed
      <3>2. Over("lost") \in Publication /\ Over("lost").at = "lost"
        BY DEF Over, Quiet, Publication, InFlightStates, Ended, Calls
      <3>3. published' = published
        BY <1>5 DEF Exit, history
      <3>4. Publications'
        BY <2>1, <2>3, <3>1, <3>2, <3>3 DEF Publications
      <3>5. ASSUME NEW k \in Jobs PROVE Carries(pub'[k], result'[k], published'[k])
        <4>1. CASE k = j
          BY <2>1, <2>3, <3>1, <3>2, <4>1, PublisherAssumption DEF Carries
        <4>2. CASE k # j
          BY <2>1, <2>3, <3>1, <3>3, <4>2, PublisherAssumption DEF Carries
        <4>3. QED
          BY <4>1, <4>2
      <3>6. QED
        BY <3>4, <3>5 DEF IInv, Carries
    <2>4. QED
      BY <1>5, <2>2, <2>3 DEF Exit, lost
  <1>6. QED
    BY <1>1, <1>2, <1>3, <1>4, <1>5
       DEF Next, StopBegins, Start, Restart, OtherPosts, vars

(***************************************************************************)
(* A publication carries one verdict from its evidence to its end.         *)
(***************************************************************************)
THEOREM InductiveInvariant == Spec => [](Publications /\ IInv)
  <1>1. Init => Publications /\ IInv
    BY PublisherAssumption
       DEF Init, Publications, Publication, IInv, Quiet, Calls, InFlightStates,
           Ended
  <1>2. Publications /\ IInv /\ [Next]_vars => (Publications /\ IInv)'
    BY NextIInv
  <1>3. QED
    BY <1>1, <1>2, PTL DEF Spec

(***************************************************************************)
(* A verdict in the registry was written at the pull request before,       *)
(* however publications overlap, fail or are lost.                         *)
(***************************************************************************)
THEOREM VerdictsWereShown == Spec => []StoredWasPublished
  <1>1. IInv => StoredWasPublished
    BY DEF IInv, StoredWasPublished
  <1>2. QED
    BY <1>1, InductiveInvariant, PTL

-----------------------------------------------------------------------------
(***************************************************************************)
(* What the pull request shows.  Until another publication writes, one     *)
(* works on a listing that only other people's entries can make out of     *)
(* date, and they never take the place of the bot's.                       *)
(***************************************************************************)

\* The entry at i is the oldest of the bot's, and on the first page.
OldestMarked(list, i) ==
    /\ i \in 1..Len(list) /\ i <= PageSize /\ list[i].by # 0
    /\ \A k \in 1..(i - 1) : list[k].by = 0

\* The oldest of the bot's entries, if the first page has one, is that of j.
OldestIsBy(list, j) == \A i \in 1..Len(list) : OldestMarked(list, i) => list[i].by = j

Unmarked(list) == \A i \in 1..Len(list) : i <= PageSize => list[i].by = 0

Shows(list, e) == \E i \in 1..Len(list) : list[i] = e

Listings == comments \in Seq(Entry) /\ reviews \in Seq(Entry)

\* A write on its way is one of the four, and what it updates is there.
Targeted(p) ==
    p.at = "write" =>
        /\ p.call # "none"
        /\ p.call = "patch" => p.target \in 1..Len(comments)
        /\ p.call = "putReview" => p.target \in 1..Len(reviews)

\* What the listing said before the write still holds when the write is applied.
UpToDate(j, p) ==
    /\ p.at = "write" =>
         /\ p.call = "patch" => OldestMarked(comments, p.target)
         /\ p.call = "post" => Unmarked(comments)
         /\ p.call \in {"putReview", "postReview"} => OldestIsBy(comments, j)
    /\ p.at = "reviews" => OldestIsBy(comments, j)

\* What the write left behind stays until another publication writes.
Shown(j) ==
    /\ OldestIsBy(comments, j)
    /\ LET e == [by |-> j, verdict |-> published[j]]
       IN Shows(comments, e) \/ Shows(reviews, e)

\* A publication that is at p.
InOrder(j, p) ==
    /\ Targeted(p)
    /\ j \notin overtaken =>
          /\ UpToDate(j, p)
          /\ p.at \in {"written", "done"} => Shown(j)

ShownInv == \A j \in Jobs : InOrder(j, pub[j])

(***************************************************************************)
(* What find returns is the oldest of the bot's entries on the first page, *)
(* and 0 only if that page has none (github-pr-comment.ts lines 538-544).  *)
(***************************************************************************)
LEMMA FoundIsOldest ==
    ASSUME NEW list \in Seq(Entry)
    PROVE  IF Found(list) = 0 THEN Unmarked(list) ELSE OldestMarked(list, Found(list))
  <1> DEFINE T == MarkedOnPage(list)
  <1>1. T \in SUBSET (1..PageSize) /\ Len(list) \in Nat
    BY PublisherAssumption DEF MarkedOnPage
  <1>2. CASE T = {}
    BY <1>2 DEF Found, Unmarked, MarkedOnPage
  <1>3. CASE T # {}
    <2>1. \E i \in T : \A k \in T : i <= k
      BY <1>1, <1>3, PublisherAssumption, LeastPosition
    <2>2. Found(list) \in T /\ \A k \in T : Found(list) <= k
      BY <1>3, <2>1 DEF Found
    <2>3. Found(list) \in 1..Len(list) /\ Found(list) <= PageSize /\ list[Found(list)].by # 0
      BY <2>2 DEF MarkedOnPage
    <2>4. ASSUME NEW k \in 1..(Found(list) - 1) PROVE list[k].by = 0
      <3>1. k \in 1..Len(list) /\ k <= PageSize /\ ~(Found(list) <= k)
        BY <1>1, <2>3, PublisherAssumption
      <3>2. k \notin T
        BY <2>2, <3>1
      <3>3. QED
        BY <3>1, <3>2 DEF MarkedOnPage
    <2>5. QED
      BY <2>3, <2>4 DEF OldestMarked
  <1>4. QED
    BY <1>2, <1>3

(***************************************************************************)
(* What other people post comes after the bot's entries.                   *)
(***************************************************************************)
LEMMA OtherIsLast ==
    ASSUME NEW list \in Seq(Entry), NEW e \in Entry, e.by = 0
    PROVE  LET new == Append(list, e)
           IN /\ new \in Seq(Entry) /\ Len(new) = Len(list) + 1
              /\ \A i : OldestMarked(list, i) => OldestMarked(new, i)
              /\ Unmarked(list) => Unmarked(new)
              /\ \A j : OldestIsBy(list, j) => OldestIsBy(new, j)
              /\ \A x : Shows(list, x) => Shows(new, x)
  <1> DEFINE new == Append(list, e)
  <1>1. /\ new \in Seq(Entry) /\ Len(new) = Len(list) + 1 /\ Len(list) \in Nat
        /\ \A i \in 1..Len(list) : new[i] = list[i]
        /\ new[Len(list) + 1] = e
    <2> HIDE DEF Entry
    <2>1. QED
      BY AppendProperties, LenProperties
  <1>2. \A i \in 1..Len(new) : i \in 1..Len(list) \/ i = Len(list) + 1
    BY <1>1
  <1> HIDE DEF new
  <1>3. \A i : OldestMarked(list, i) => OldestMarked(new, i)
    BY <1>1, <1>2 DEF OldestMarked
  <1>4. Unmarked(list) => Unmarked(new)
    BY <1>1, <1>2 DEF Unmarked
  <1>5. ASSUME NEW i \in 1..Len(new), OldestMarked(new, i)
        PROVE  OldestMarked(list, i) /\ new[i] = list[i] /\ i \in 1..Len(list)
    <2>1. i \in 1..Len(list)
      BY <1>1, <1>2, <1>5 DEF OldestMarked
    <2>2. \A k \in 1..(i - 1) : k \in 1..Len(list)
      BY <1>1, <2>1
    <2>3. QED
      BY <1>1, <1>5, <2>1, <2>2 DEF OldestMarked
  <1>6. \A j : OldestIsBy(list, j) => OldestIsBy(new, j)
    BY <1>5 DEF OldestIsBy
  <1>7. \A x : Shows(list, x) => Shows(new, x)
    BY <1>1 DEF Shows
  <1>8. QED
    BY <1>1, <1>3, <1>4, <1>6, <1>7 DEF new

(***************************************************************************)
(* A comment created where the first page had none of the bot's is the     *)
(* oldest there; one updated in its place stays what it is.                *)
(***************************************************************************)
LEMMA OwnIsOldest ==
    ASSUME NEW list \in Seq(Entry), NEW e \in Entry
    PROVE  /\ Append(list, e) \in Seq(Entry) /\ Len(Append(list, e)) = Len(list) + 1
           /\ Shows(Append(list, e), e)
           /\ Unmarked(list) => OldestIsBy(Append(list, e), e.by)
  <1> DEFINE new == Append(list, e)
  <1>1. /\ new \in Seq(Entry) /\ Len(new) = Len(list) + 1 /\ Len(list) \in Nat
        /\ \A i \in 1..Len(list) : new[i] = list[i]
        /\ new[Len(list) + 1] = e
    <2> HIDE DEF Entry
    <2>1. QED
      BY AppendProperties, LenProperties
  <1>2. \A i \in 1..Len(new) : i \in 1..Len(list) \/ i = Len(list) + 1
    BY <1>1
  <1> HIDE DEF new
  <1>3. Shows(new, e)
    BY <1>1 DEF Shows
  <1>4. Unmarked(list) => OldestIsBy(new, e.by)
    BY <1>1, <1>2 DEF Unmarked, OldestIsBy, OldestMarked
  <1>5. QED
    BY <1>1, <1>3, <1>4 DEF new

LEMMA UpdatedIsOldest ==
    ASSUME NEW list \in Seq(Entry), NEW e \in Entry, NEW i \in 1..Len(list)
    PROVE  /\ [list EXCEPT ![i] = e] \in Seq(Entry) /\ Len([list EXCEPT ![i] = e]) = Len(list)
           /\ Shows([list EXCEPT ![i] = e], e)
           /\ OldestMarked(list, i) /\ e.by # 0 => OldestIsBy([list EXCEPT ![i] = e], e.by)
  <1> DEFINE new == [list EXCEPT ![i] = e]
  <1>1. /\ new \in Seq(Entry) /\ Len(new) = Len(list) /\ Len(list) \in Nat
        /\ \A k \in 1..Len(list) : new[k] = IF k = i THEN e ELSE list[k]
    <2> HIDE DEF Entry
    <2>1. QED
      BY ExceptSeq, LenProperties
  <1> HIDE DEF new
  <1>2. Shows(new, e)
    BY <1>1 DEF Shows
  <1>3. ASSUME OldestMarked(list, i), e.by # 0, NEW k \in 1..Len(new), OldestMarked(new, k)
        PROVE  new[k].by = e.by
    <2>1. CASE k < i
      BY <1>1, <1>3, <2>1 DEF OldestMarked
    <2>2. CASE k = i
      BY <1>1, <2>2
    <2>3. CASE i < k
      <3>1. i \in 1..(k - 1)
        BY <1>1, <2>3
      <3>2. new[i].by = 0
        BY <1>3, <3>1 DEF OldestMarked
      <3>3. QED
        BY <1>1, <1>3, <3>2
    <2>4. QED
      BY <1>1, <2>1, <2>2, <2>3
  <1>4. QED
    BY <1>1, <1>2, <1>3 DEF new, OldestIsBy

(***************************************************************************)
(* Whatever a publication does but to write leaves the others in order.    *)
(***************************************************************************)
LEMMA OneMoves ==
    ASSUME Publications, Listings, ShownInv, NEW k \in Jobs, NEW p,
           pub' = [pub EXCEPT ![k] = p], UNCHANGED <<github, history>>, InOrder(k, p)
    PROVE  (Listings /\ ShownInv)'
  <1>1. UNCHANGED <<comments, reviews, published, overtaken>>
    BY DEF github, history
  <1>2. ASSUME NEW j \in Jobs PROVE InOrder(j, pub'[j])
    BY DEF ShownInv, Publications
  <1>3. ASSUME NEW j \in Jobs PROVE InOrder(j, pub[j])'
    BY <1>1, <1>2 DEF InOrder, Targeted, UpToDate, Shown, Shows, OldestIsBy, OldestMarked, Unmarked
  <1>4. QED
    BY <1>1, <1>3 DEF Listings, ShownInv

(***************************************************************************)
(* A write overtakes every other publication that knows a listing; those   *)
(* that do not have nothing to keep in order.                              *)
(***************************************************************************)
LEMMA OneWrites ==
    ASSUME Publications, Listings, ShownInv, NEW k \in Jobs, NEW p,
           pub' = [pub EXCEPT ![k] = p], p.at = "written",
           overtaken' = overtaken \cup ({j \in Jobs : HasListed(j)} \ {k}),
           Listings', Len(comments) <= Len(comments'), Len(reviews) <= Len(reviews'),
           k \notin overtaken => Shown(k)'
    PROVE  ShownInv'
  <1>1. pub'[k] = p /\ \A j \in Jobs \ {k} : pub'[j] = pub[j]
    BY DEF Publications
  <1>2. InOrder(k, pub[k])'
    BY <1>1 DEF InOrder, Targeted, UpToDate
  <1>3. ASSUME NEW j \in Jobs \ {k} PROVE InOrder(j, pub[j])'
    <2>1. Targeted(pub[j])'
      <3>1. Len(comments) \in Nat /\ Len(reviews) \in Nat /\ Len(comments') \in Nat /\ Len(reviews') \in Nat
        BY LenProperties DEF Listings
      <3>2. QED
        BY <1>1, <3>1 DEF ShownInv, InOrder, Targeted
    <2>2. j \notin overtaken' => pub'[j].at \in {"none", "evidence", "list"}
      BY <1>1 DEF HasListed
    <2>3. QED
      BY <2>1, <2>2 DEF InOrder, UpToDate
  <1>4. QED
    BY <1>2, <1>3 DEF ShownInv

(***************************************************************************)
(* The steps of a publication between its settling and its end.            *)
(***************************************************************************)
LEMMA PublicationShown ==
    ASSUME Publications, IInv, Listings, ShownInv, NEW k \in Jobs,
           PublicationStep(k) \/ RequestFails(k)
    PROVE  (Listings /\ ShownInv)'
  <1> DEFINE old == pub[k]
  <1>1. old \in Publication /\ Targeted(old) /\ k \in Jobs
    BY DEF Publications, ShownInv, InOrder
  <1>2. Len(comments) \in Nat /\ Len(reviews) \in Nat
    BY LenProperties DEF Listings
  <1>3. k \notin overtaken => UpToDate(k, old) /\ (old.at \in {"written", "done"} => Shown(k))
    BY DEF ShownInv, InOrder
  <1>4. ASSUME UNCHANGED <<github, history>>, NEW p, pub' = [pub EXCEPT ![k] = p],
               InOrder(k, p)
        PROVE  (Listings /\ ShownInv)'
    BY <1>4, OneMoves
  <1>5. ASSUME NEW v \in Verdicts, Gathered(k, v) PROVE (Listings /\ ShownInv)'
    <2>1. /\ [old EXCEPT !.at = "list", !.verdict = v] \in Publication
          /\ [old EXCEPT !.at = "list", !.verdict = v].at = "list"
          /\ pub' = [pub EXCEPT ![k] = [old EXCEPT !.at = "list", !.verdict = v]]
      BY <1>1, <1>5 DEF Gathered, Publications, Publication, InFlightStates
    <2>2. UNCHANGED <<github, history>>
      BY <1>5 DEF Gathered
    <2>3. PICK p \in Publication : pub' = [pub EXCEPT ![k] = p] /\ p.at = "list"
      BY <2>1
    <2>4. InOrder(k, p)
      BY <2>3 DEF InOrder, Targeted, UpToDate
    <2> HIDE DEF old
    <2>5. QED
      BY <1>4, <2>2, <2>3, <2>4
  <1>6. CASE Listed(k)
    <2>1. PICK i : i = Found(comments)
      OBVIOUS
    <2>2. i \in Nat /\ IF i = 0 THEN Unmarked(comments) ELSE OldestMarked(comments, i)
      BY <2>1, FoundPosition, FoundIsOldest DEF Listings
    <2> DEFINE call == IF i = 0 THEN "post" ELSE "patch"
               new == [old EXCEPT !.at = "write", !.target = i, !.call = call]
    <2>3. /\ new \in Publication /\ new.at = "write" /\ new.target = i /\ new.call = call
          /\ pub' = [pub EXCEPT ![k] = new]
      BY <1>1, <1>6, <2>1, <2>2
         DEF Listed, Publications, Publication, InFlight, InFlightStates, Calls
    <2>4. UNCHANGED <<github, history>>
      BY <1>6 DEF Listed
    <2>5. PICK p \in Publication :
              pub' = [pub EXCEPT ![k] = p] /\ p.at = "write" /\ p.target = i /\ p.call = call
      BY <2>3
    <2> HIDE DEF new, old
    <2>6. InOrder(k, p)
      BY <2>2, <2>5 DEF InOrder, Targeted, UpToDate, OldestMarked
    <2>7. QED
      BY <1>4, <2>4, <2>5, <2>6
  <1>7. CASE ReviewsListed(k)
    <2>1. PICK i : i = Found(reviews)
      OBVIOUS
    <2>2. i \in Nat /\ (i # 0 => OldestMarked(reviews, i))
      BY <2>1, FoundPosition, FoundIsOldest DEF Listings
    <2> DEFINE call == IF i = 0 THEN "postReview" ELSE "putReview"
               new == [old EXCEPT !.at = "write", !.target = i, !.call = call]
    <2>3. /\ new \in Publication /\ new.at = "write" /\ new.target = i /\ new.call = call
          /\ pub' = [pub EXCEPT ![k] = new]
      BY <1>1, <1>7, <2>1, <2>2
         DEF ReviewsListed, Publications, Publication, InFlight, InFlightStates, Calls
    <2>4. UNCHANGED <<github, history>> /\ old.at = "reviews"
      BY <1>7 DEF ReviewsListed
    <2>5. PICK p \in Publication :
              pub' = [pub EXCEPT ![k] = p] /\ p.at = "write" /\ p.target = i /\ p.call = call
      BY <2>3
    <2>6. k \notin overtaken => OldestIsBy(comments, k)
      BY <1>3, <2>4 DEF UpToDate
    <2> HIDE DEF new, old
    <2>7. InOrder(k, p)
      BY <2>2, <2>5, <2>6 DEF InOrder, Targeted, UpToDate, OldestMarked
    <2>8. QED
      BY <1>4, <2>4, <2>5, <2>7
  <1>8. CASE WriteApplied(k)
    <2> DEFINE e == [by |-> k, verdict |-> old.verdict]
    <2>1. /\ old.at = "write" /\ published' = [published EXCEPT ![k] = old.verdict]
          /\ overtaken' = overtaken \cup ({j \in Jobs : HasListed(j)} \ {k})
      BY <1>8 DEF WriteApplied
    <2>2. e \in Entry /\ e.by = k /\ k # 0 /\ e.verdict = published'[k]
      BY <1>1, <2>1, PublisherAssumption DEF Entry, Publication, Publications, Jobs
    <2>3. PICK p \in Publication : pub' = [pub EXCEPT ![k] = p] /\ p.at = "written"
      <3>1. [old EXCEPT !.at = "written"] \in Publication /\ [old EXCEPT !.at = "written"].at = "written"
        BY <1>1 DEF Publication, InFlightStates
      <3>2. QED
        BY <1>8, <3>1 DEF WriteApplied, Publications
    <2>4. /\ Listings' /\ Len(comments) <= Len(comments') /\ Len(reviews) <= Len(reviews')
          /\ Shows(comments', e) \/ Shows(reviews', e)
          /\ k \notin overtaken => OldestIsBy(comments', k)
      <3>1. old.call \in {"patch", "post", "putReview", "postReview"}
        BY <1>1, <2>1 DEF Targeted, Publication, Calls
      <3> HIDE DEF e
      <3>2. CASE old.call = "patch"
        <4>1. comments' = [comments EXCEPT ![old.target] = e] /\ reviews' = reviews
          BY <1>8, <3>2 DEF WriteApplied, e
        <4>2. old.target \in 1..Len(comments) /\ (k \notin overtaken => OldestMarked(comments, old.target))
          BY <1>1, <1>3, <2>1, <3>2 DEF Targeted, UpToDate
        <4> HIDE DEF old
        <4>3. /\ comments' \in Seq(Entry) /\ Len(comments') = Len(comments) /\ Shows(comments', e)
              /\ k \notin overtaken => OldestIsBy(comments', k)
          BY <2>2, <4>1, <4>2, UpdatedIsOldest DEF Listings
        <4>4. QED
          BY <1>2, <4>1, <4>3 DEF Listings
      <3>3. CASE old.call = "post"
        <4>1. comments' = Append(comments, e) /\ reviews' = reviews
          BY <1>8, <3>3 DEF WriteApplied, e
        <4>2. k \notin overtaken => Unmarked(comments)
          BY <1>3, <2>1, <3>3 DEF UpToDate
        <4> HIDE DEF old
        <4>3. /\ comments' \in Seq(Entry) /\ Len(comments') = Len(comments) + 1 /\ Shows(comments', e)
              /\ k \notin overtaken => OldestIsBy(comments', k)
          BY <2>2, <4>1, <4>2, OwnIsOldest DEF Listings
        <4>4. QED
          BY <1>2, <4>1, <4>3 DEF Listings
      <3>4. CASE old.call = "putReview"
        <4>1. reviews' = [reviews EXCEPT ![old.target] = e] /\ comments' = comments
          BY <1>8, <3>4 DEF WriteApplied, e
        <4>2. old.target \in 1..Len(reviews) /\ (k \notin overtaken => OldestIsBy(comments, k))
          BY <1>1, <1>3, <2>1, <3>4 DEF Targeted, UpToDate
        <4> HIDE DEF old
        <4>3. reviews' \in Seq(Entry) /\ Len(reviews') = Len(reviews) /\ Shows(reviews', e)
          BY <2>2, <4>1, <4>2, UpdatedIsOldest DEF Listings
        <4>4. QED
          BY <1>2, <4>1, <4>2, <4>3 DEF Listings
      <3>5. CASE old.call = "postReview"
        <4>1. reviews' = Append(reviews, e) /\ comments' = comments
          BY <1>8, <3>5 DEF WriteApplied, e
        <4>2. k \notin overtaken => OldestIsBy(comments, k)
          BY <1>3, <2>1, <3>5 DEF UpToDate
        <4> HIDE DEF old
        <4>3. reviews' \in Seq(Entry) /\ Len(reviews') = Len(reviews) + 1 /\ Shows(reviews', e)
          BY <2>2, <4>1, OwnIsOldest DEF Listings
        <4>4. QED
          BY <1>2, <4>1, <4>2, <4>3 DEF Listings
      <3>6. QED
        BY <3>1, <3>2, <3>3, <3>4, <3>5
    <2>5. k \notin overtaken => Shown(k)'
      BY <2>2, <2>4 DEF Shown, Entry
    <2> HIDE DEF old
    <2>6. QED
      BY <2>1, <2>3, <2>4, <2>5, OneWrites
  <1>9. CASE RequestFails(k)
    <2>1. UNCHANGED <<github, history>>
      BY <1>9 DEF RequestFails
    <2>2. CASE old.at \in {"write", "written"} /\ old.call = "post"
      <3>1. PICK p \in Publication : pub' = [pub EXCEPT ![k] = p] /\ p.at = "reviews"
        <4>1. [old EXCEPT !.at = "reviews"] \in Publication /\ [old EXCEPT !.at = "reviews"].at = "reviews"
          BY <1>1 DEF Publication, InFlightStates
        <4>2. QED
          BY <1>9, <2>2, <4>1 DEF RequestFails, Publications
      <3>2. k \notin overtaken => OldestIsBy(comments, k)
        <4>1. ASSUME Unmarked(comments) PROVE OldestIsBy(comments, k)
          BY <4>1 DEF Unmarked, OldestIsBy, OldestMarked
        <4>2. QED
          BY <1>3, <2>2, <4>1 DEF UpToDate, Shown
      <3>3. InOrder(k, p)
        BY <3>1, <3>2 DEF InOrder, Targeted, UpToDate
      <3> HIDE DEF old
      <3>4. QED
        BY <1>4, <2>1, <3>1, <3>3
    <2>3. CASE ~(old.at \in {"write", "written"} /\ old.call = "post")
      <3>1. PICK p \in Publication : pub' = [pub EXCEPT ![k] = p] /\ p.at = "failed"
        <4>1. Over("failed") \in Publication /\ Over("failed").at = "failed"
          BY DEF Over, Quiet, Publication, InFlightStates, Ended, Calls
        <4>2. QED
          BY <1>9, <2>3, <4>1 DEF RequestFails, Publications
      <3>2. InOrder(k, p)
        BY <3>1 DEF InOrder, Targeted, UpToDate
      <3> HIDE DEF old
      <3>3. QED
        BY <1>4, <2>1, <3>1, <3>2
    <2>4. QED
      BY <2>2, <2>3
  <1>10. CASE Answered(k)
    <2>1. UNCHANGED <<github, history>> /\ old.at = "written"
      BY <1>10 DEF Answered
    <2>2. PICK p \in Publication : pub' = [pub EXCEPT ![k] = p] /\ p.at \in {"failed", "done"}
      <3>1. /\ Over("failed") \in Publication /\ Over("failed").at = "failed"
            /\ Over("done") \in Publication /\ Over("done").at = "done"
        BY DEF Over, Quiet, Publication, InFlightStates, Ended, Calls
      <3>2. QED
        BY <1>10, <3>1 DEF Answered, Publications
    <2>3. InOrder(k, p)
      BY <1>3, <2>1, <2>2 DEF InOrder, Targeted, UpToDate
    <2> HIDE DEF old
    <2>4. QED
      BY <1>4, <2>1, <2>2, <2>3
  <1>11. QED
    BY <1>5, <1>6, <1>7, <1>8, <1>9, <1>10 DEF PublicationStep

(***************************************************************************)
(* A publication that begins, ends without a verdict or is lost keeps      *)
(* nothing in order; the others stay as they are.                          *)
(***************************************************************************)
LEMMA EndShown ==
    ASSUME Publications, Listings, ShownInv, UNCHANGED <<github, history>>,
           \A j \in Jobs : pub'[j] = pub[j] \/ pub'[j].at \in {"evidence", "unpublished", "lost"}
    PROVE  (Listings /\ ShownInv)'
  <1>1. UNCHANGED <<comments, reviews, published, overtaken>>
    BY DEF github, history
  <1>2. ASSUME NEW j \in Jobs PROVE InOrder(j, pub'[j])
    <2>1. CASE pub'[j] = pub[j]
      BY <2>1 DEF ShownInv
    <2>2. CASE pub'[j].at \in {"evidence", "unpublished", "lost"}
      BY <2>2 DEF InOrder, Targeted, UpToDate
    <2>3. QED
      BY <2>1, <2>2
  <1>3. ASSUME NEW j \in Jobs PROVE InOrder(j, pub[j])'
    BY <1>1, <1>2 DEF InOrder, Targeted, UpToDate, Shown, Shows, OldestIsBy, OldestMarked, Unmarked
  <1>4. QED
    BY <1>1, <1>3 DEF Listings, ShownInv

(***************************************************************************)
(* What other people post changes nothing of it.                           *)
(***************************************************************************)
LEMMA OtherPostsShown ==
    ASSUME Publications, Listings, ShownInv, OtherPosts
    PROVE  (Listings /\ ShownInv)'
  <1> DEFINE e == [by |-> 0, verdict |-> "none"]
  <1>1. e \in Entry /\ e.by = 0
    BY PublisherAssumption DEF Entry
  <1>2. Len(comments) \in Nat /\ Len(reviews) \in Nat
    BY LenProperties DEF Listings
  <1>3. /\ UNCHANGED <<pub, published, overtaken>>
        /\ comments' \in {comments, Append(comments, e)} /\ reviews' \in {reviews, Append(reviews, e)}
    BY DEF OtherPosts, history
  <1> HIDE DEF e
  <1>4. /\ comments' \in Seq(Entry) /\ Len(comments) <= Len(comments') /\ Len(comments') \in Nat
        /\ \A i : OldestMarked(comments, i) => OldestMarked(comments', i)
        /\ Unmarked(comments) => Unmarked(comments')
        /\ \A j : OldestIsBy(comments, j) => OldestIsBy(comments', j)
        /\ \A x : Shows(comments, x) => Shows(comments', x)
    <2>1. CASE comments' = comments
      BY <1>2, <2>1 DEF Listings
    <2>2. CASE comments' = Append(comments, e)
      BY <1>1, <1>2, <2>2, OtherIsLast DEF Listings
    <2>3. QED
      BY <1>3, <2>1, <2>2
  <1>5. /\ reviews' \in Seq(Entry) /\ Len(reviews) <= Len(reviews') /\ Len(reviews') \in Nat
        /\ \A x : Shows(reviews, x) => Shows(reviews', x)
    <2>1. CASE reviews' = reviews
      BY <1>2, <2>1 DEF Listings
    <2>2. CASE reviews' = Append(reviews, e)
      BY <1>1, <1>2, <2>2, OtherIsLast DEF Listings
    <2>3. QED
      BY <1>3, <2>1, <2>2
  <1>6. ASSUME NEW j \in Jobs PROVE InOrder(j, pub[j])'
    <2>1. Targeted(pub[j])'
      <3>1. Targeted(pub[j])
        BY DEF ShownInv, InOrder
      <3>2. QED
        BY <1>2, <1>3, <1>4, <1>5, <3>1 DEF Targeted
    <2>2. ASSUME j \notin overtaken PROVE UpToDate(j, pub[j])'
      <3>1. UpToDate(j, pub[j])
        BY <2>2 DEF ShownInv, InOrder
      <3>2. QED
        BY <1>3, <1>4, <3>1 DEF UpToDate
    <2>3. ASSUME j \notin overtaken, pub[j].at \in {"written", "done"} PROVE Shown(j)'
      <3>1. Shown(j)
        BY <2>3 DEF ShownInv, InOrder
      <3>2. QED
        BY <1>3, <1>4, <1>5, <3>1 DEF Shown
    <2>4. QED
      BY <1>3, <2>1, <2>2, <2>3 DEF InOrder
  <1>7. QED
    BY <1>4, <1>5, <1>6 DEF ShownInv, Listings

LEMMA NextShown ==
    Publications /\ IInv /\ Listings /\ ShownInv /\ [Next]_vars => (Listings /\ ShownInv)'
  <1> SUFFICES ASSUME Publications, IInv, Listings, ShownInv, [Next]_vars
               PROVE  (Listings /\ ShownInv)'
    OBVIOUS
  <1>1. ASSUME NEW j \in Jobs, Settle(j) PROVE (Listings /\ ShownInv)'
    <2>1. pub' = [pub EXCEPT ![j].at = "evidence"] /\ UNCHANGED <<github, history>>
      BY <1>1 DEF Settle
    <2>2. \A k \in Jobs : pub'[k] = pub[k] \/ pub'[k].at = "evidence"
      BY <2>1 DEF Publications, Publication
    <2>3. QED
      BY <2>1, <2>2, EndShown
  <1>2. ASSUME NEW j \in Jobs, PublicationStep(j) \/ RequestFails(j) PROVE (Listings /\ ShownInv)'
    BY <1>2, PublicationShown
  <1>3. CASE UNCHANGED <<pub, github, history>>
    BY <1>3, EndShown
  <1>4. CASE StopEnds
    <2>1. ASSUME NEW k \in Jobs, Completed(k), pub' = [pub EXCEPT ![k] = Over("unpublished")]
          PROVE  (Listings /\ ShownInv)'
      <3>1. Over("unpublished").at = "unpublished"
        BY DEF Over, Quiet
      <3>2. UNCHANGED <<github, history>>
        BY <1>4 DEF StopEnds
      <3>3. \A j \in Jobs : pub'[j] = pub[j] \/ pub'[j].at = "unpublished"
        BY <2>1, <3>1 DEF Publications
      <3>4. QED
        BY <3>2, <3>3, EndShown
    <2>2. QED
      BY <1>3, <1>4, <2>1 DEF StopEnds
  <1>5. CASE Exit
    <2> DEFINE lost == [k \in Jobs |-> IF k \in InFlight THEN Over("lost") ELSE pub[k]]
    <2>1. Over("lost").at = "lost" /\ UNCHANGED <<github, history>>
      BY <1>5 DEF Over, Quiet, Exit
    <2>2. \A j \in Jobs : lost[j] = pub[j] \/ lost[j].at = "lost"
      BY <2>1
    <2>3. CASE pub' = lost
      BY <2>1, <2>2, <2>3, EndShown
    <2>4. ASSUME NEW k \in Jobs, Completed(k), pub' = [lost EXCEPT ![k] = Over("lost")]
          PROVE  (Listings /\ ShownInv)'
      <3>1. \A j \in Jobs : pub'[j] = IF j = k THEN Over("lost") ELSE lost[j]
        BY <2>4
      <3> HIDE DEF lost
      <3>2. QED
        BY <2>1, <2>2, <3>1, EndShown
    <2>5. QED
      BY <1>5, <2>3, <2>4 DEF Exit
  <1>6. CASE OtherPosts
    BY <1>6, OtherPostsShown
  <1>7. QED
    BY <1>1, <1>2, <1>3, <1>4, <1>5, <1>6 DEF Next, StopBegins, Start, Restart, vars

-----------------------------------------------------------------------------
(***************************************************************************)
(* The rest of the types; the registry's rows stay within its limit.       *)
(***************************************************************************)
Rows == retained \in Seq(Jobs) /\ Len(retained) <= MaxResults

Service ==
    /\ service \in {"serving", "draining", "stopped", "closed", "down"}
    /\ settled \in 0..NumJobs /\ faults \in 0..MaxFaults /\ overtaken \in SUBSET Jobs

LEMMA StoreKeepsRows ==
    ASSUME Rows, NEW j \in Jobs, NEW content, StoreResult(j, content)
    PROVE  Rows'
  <1>1. Len(retained) \in Nat
    BY DEF Rows
  <1>2. ASSUME NEW i \in 1..Len(retained)
        PROVE  RemoveAt(retained, i) \in Seq(Jobs) /\ Len(RemoveAt(retained, i)) <= Len(retained)
    <2> DEFINE front == SubSeq(retained, 1, i - 1)
               back == SubSeq(retained, i + 1, Len(retained))
    <2>1. front \in Seq(Jobs) /\ Len(front) = i - 1
      BY SubSeqProperties DEF Rows
    <2>2. back \in Seq(Jobs) /\ Len(back) = Len(retained) - i
      BY SubSeqProperties DEF Rows
    <2>3. RemoveAt(retained, i) = front \o back
      BY DEF RemoveAt
    <2> HIDE DEF front, back
    <2>4. front \o back \in Seq(Jobs) /\ Len(front \o back) = Len(front) + Len(back)
      BY <2>1, <2>2, ConcatProperties
    <2>5. QED
      BY <1>1, <2>1, <2>2, <2>3, <2>4
  <1>3. RowsWithout(j) \in Seq(Jobs) /\ Len(RowsWithout(j)) <= Len(retained)
    BY <1>1, <1>2 DEF RowsWithout, Rows
  <1> DEFINE rows == Append(RowsWithout(j), j)
  <1>4. rows \in Seq(Jobs) /\ Len(rows) <= MaxResults + 1 /\ Len(rows) \in Nat /\ rows # <<>>
    BY <1>1, <1>3, AppendProperties, PublisherAssumption DEF Rows
  <1>5. retained' = IF Len(rows) > MaxResults THEN Tail(rows) ELSE rows
    BY DEF StoreResult
  <1> HIDE DEF rows
  <1>6. Tail(rows) \in Seq(Jobs) /\ Len(Tail(rows)) = Len(rows) - 1
    BY <1>4, HeadTailProperties
  <1>7. QED
    BY <1>4, <1>5, <1>6, PublisherAssumption DEF Rows

LEMMA NextService == Rows /\ Service /\ [Next]_vars => (Rows /\ Service)'
  <1> SUFFICES ASSUME Rows, Service, [Next]_vars PROVE (Rows /\ Service)'
    OBVIOUS
  <1> USE PublisherAssumption DEF Service, history, registry
  <1>1. ASSUME retained' = retained \/ \E j \in Jobs : \E content : StoreResult(j, content)
        PROVE  Rows'
    BY <1>1, StoreKeepsRows DEF Rows
  <1>2. ASSUME NEW j \in Jobs, Settle(j) PROVE (Rows /\ Service)'
    BY <1>1, <1>2 DEF Settle, Completed, Jobs
  <1>3. ASSUME NEW j \in Jobs, PublicationStep(j) PROVE (Rows /\ Service)'
    BY <1>1, <1>3 DEF PublicationStep, Gathered, Listed, ReviewsListed, WriteApplied, Answered
  <1>4. ASSUME NEW j \in Jobs, RequestFails(j) PROVE (Rows /\ Service)'
    BY <1>1, <1>4 DEF RequestFails
  <1>5. CASE StopEnds \/ Exit
    <2>1. /\ UNCHANGED <<settled, retained>> \/ \E j \in Jobs : Completed(j)
          /\ service' \in {"stopped", "closed", "down"} /\ UNCHANGED <<faults, overtaken>>
      BY <1>5 DEF StopEnds, Exit
    <2>2. ASSUME NEW j \in Jobs, Completed(j) PROVE Rows' /\ settled' \in 0..NumJobs
      BY <1>1, <2>2 DEF Completed, Jobs
    <2>3. QED
      BY <1>1, <2>1, <2>2
  <1>6. CASE StopBegins \/ Start \/ Restart \/ OtherPosts \/ UNCHANGED vars
    BY <1>1, <1>6 DEF StopBegins, Start, Restart, OtherPosts, vars
  <1>7. QED
    BY <1>2, <1>3, <1>4, <1>5, <1>6 DEF Next

(***************************************************************************)
(* All of it together.                                                     *)
(***************************************************************************)
LEMMA ShownInvariant == Spec => [](Publications /\ Listings /\ ShownInv)
  <1>1. Init => Listings /\ ShownInv
    <2> SUFFICES ASSUME Init PROVE Listings /\ ShownInv
      OBVIOUS
    <2>1. Listings
      BY DEF Init, Listings
    <2>2. \A j \in Jobs : pub[j].at = "none"
      BY DEF Init, Quiet
    <2>3. QED
      BY <2>1, <2>2 DEF ShownInv, InOrder, Targeted, UpToDate
  <1>2. Publications /\ IInv /\ Listings /\ ShownInv /\ [Next]_vars => (Listings /\ ShownInv)'
    BY NextShown
  <1>3. QED
    BY <1>1, <1>2, InductiveInvariant, PTL DEF Spec

(***************************************************************************)
(* Every variable keeps its type, and the registry never more rows than    *)
(* maxResults (sqlite-result-registry.ts lines 125-185).                   *)
(***************************************************************************)
THEOREM TypesAreKept == Spec => []TypeOK
  <1>1. Init => Rows /\ Service
    <2> SUFFICES ASSUME Init PROVE Rows /\ Service
      OBVIOUS
    <2>1. retained \in Seq(Jobs) /\ Len(retained) = 0
      BY DEF Init
    <2>2. QED
      BY <2>1, PublisherAssumption DEF Init, Rows, Service
  <1>2. Publications /\ Listings /\ Rows /\ Service => TypeOK
    BY DEF Publications, Publication, Listings, Rows, Service, TypeOK
  <1>3. QED
    BY <1>1, <1>2, NextService, ShownInvariant, PTL DEF Spec

(***************************************************************************)
(* What succeeded stays shown until another publication writes, and in the *)
(* comment that later ones will update, unless it was itself overtaken     *)
(* between its listing and its write (github-pr-comment.ts lines 535-579). *)
(***************************************************************************)
THEOREM TheNewestIsShown == Spec => []NewestIsShown
  <1>1. ShownInv => NewestIsShown
    <2> SUFFICES ASSUME ShownInv, NEW j \in Jobs \ overtaken, pub[j].at = "done"
                 PROVE  /\ \E list \in {comments, reviews} : \E i \in 1..Len(list) :
                              list[i] = [by |-> j, verdict |-> published[j]]
                        /\ \A i \in 1..Len(comments) :
                              /\ i <= PageSize /\ comments[i].by # 0
                              /\ \A k \in 1..(i - 1) : comments[k].by = 0
                              => comments[i].by = j
      BY DEF NewestIsShown
    <2>1. Shown(j)
      BY DEF ShownInv, InOrder
    <2>2. QED
      BY <2>1 DEF Shown, Shows, OldestIsBy, OldestMarked
  <1>2. QED
    BY <1>1, ShownInvariant, PTL
=============================================================================
