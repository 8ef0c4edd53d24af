---------------------- MODULE CheckRunPublisherProofs ----------------------
(***************************************************************************)
(* For any number of calls, commits, runs, crashes and abandoned requests: *)
(* the chain of a key lets one publication work at a time, and so no       *)
(* verdict shown for a commit gives way to an older one, nothing is        *)
(* refused as stale that a newer verdict did not precede, and no run of    *)
(* another App or commit is touched.                                       *)
(***************************************************************************)
EXTENDS CheckRunPublisher, TLAPS, FiniteSetTheorems, WellFoundedInduction

Unsettled(c) == pc[c] \in Waiting \cup Working

\* A call of key k that waits for nobody: it may begin, or it works.
Heads(k) == {c \in Calls : Unsettled(c) /\ req[c].key = k /\ after[c] = None}

\* The run an update is aimed at stands on the request's key, or is gone for
\* good: its number is never given out again.
Aims(i, k) ==
    /\ i < nextId
    /\ run[i] # None => run[i].app = "own" /\ run[i].ver # None /\ run[i].key = k

\* Only the first of a chain works; nobody else waits for whom it waits for,
\* and the last of the chain is nobody's predecessor.
ChainInv ==
    /\ \A c \in Calls : Unsettled(c) => req[c] \in Request
    /\ \A c \in Calls : pc[c] \in Working => after[c] = None
    /\ \A c \in Calls : after[c] # None =>
         Unsettled(c) /\ Unsettled(after[c]) /\ req[after[c]].key = req[c].key
    /\ \A c, d \in Calls : after[c] = after[d] /\ after[c] # None => c = d
    /\ \A k \in Keys : \A c, d \in Heads(k) : c = d
    /\ \A k \in Keys : tail[k] = None => Heads(k) = {}
    /\ \A k \in Keys : tail[k] # None =>
         /\ Unsettled(tail[k]) /\ req[tail[k]].key = k
         /\ \A c \in Calls : after[c] # tail[k]

\* Every write, performed or still on its way, is of the commit it names and
\* aims at a run of that commit.
WritesInv ==
    /\ \A c \in Calls : Unsettled(c) => req[c].of = req[c].key
    /\ \A c \in Calls : target[c] # None => Unsettled(c) /\ Aims(target[c], req[c].key)
    /\ \A w \in givenUp : w.req.of = w.req.key
    /\ \A w \in givenUp : w.id # None => Aims(w.id, w.req.key)

\* The runs are those numbered so far, of their commit, and of a history.
RunsInv ==
    /\ nextId # 0
    /\ \A i \in Ids : run[i] # None =>
         /\ i < nextId
         /\ run[i].of # None => run[i].of = run[i].key
         /\ run[i].app = "own" /\ run[i].ver # None => run[i].ver \in shown[run[i].key]

\* What is remembered as published was shown.
MemoryInv ==
    /\ \A k \in Keys : latest[k] # None => latest[k] \in shown[k]
    /\ \A c \in Calls : pc[c] = "answer" => req[c].ver \in shown[req[c].key]

\* What a call saw when it listed is still so when it writes, unless its key
\* was disturbed: what it writes is not older, to the newest run or a new one.
ListedInv ==
    \A c \in Calls, k \in Keys :
        pc[c] = "write" /\ c \notin disturbed /\ req[c].key = k /\ OwnRuns(k) # {} =>
            /\ Shown(k) # None /\ ~Older(req[c].ver, Shown(k))
            /\ target[c] \in {None, Newest(OwnRuns(k))}

IInv == TypeOK /\ ChainInv /\ WritesInv /\ RunsInv /\ MemoryInv /\ ListedInv

-----------------------------------------------------------------------------
(***************************************************************************)
(* A nonempty set of numbers has a least element: the one whose interval   *)
(* of smaller numbers is minimal for inclusion.                            *)
(***************************************************************************)
LEMMA LeastNumber ==
  ASSUME NEW T \in SUBSET Nat, T # {}
  PROVE  \E i \in T : \A k \in T : i <= k
  <1>1. PICK n \in T : TRUE
    OBVIOUS
  <1> DEFINE Low == {i \in T : i <= n}
             Below == {0..i : i \in Low}
             R == StrictSubsetOrdering(0..n)
  <1>2. PICK B \in Below : \A C \in Below : <<C, B>> \notin R
    <2>1. Below \subseteq FiniteSubsetsOf(0..n)
      <3>1. \A i \in Low : 0..i \in SUBSET (0..n) /\ IsFiniteSet(0..i)
        BY FS_Interval
      <3>2. QED
        BY <3>1 DEF FiniteSubsetsOf
    <2>2. Below # {}
      BY <1>1
    <2> HIDE DEF Below
    <2>3. QED
      BY <2>1, <2>2, FS_StrictSubsetOrderingWellFounded, WFMin
  <1>3. PICK i \in Low : B = 0..i
    OBVIOUS
  <1>4. ASSUME NEW k \in T, k < i PROVE FALSE
    <2>1. k \in Low /\ 0..k \subseteq 0..i /\ 0..k # 0..i
          /\ 0..k \in SUBSET (0..n) /\ 0..i \in SUBSET (0..n)
      BY <1>4
    <2>2. <<0..k, B>> \in R
      BY <1>3, <2>1 DEF StrictSubsetOrdering
    <2>3. QED
      BY <1>2, <2>1, <2>2
  <1>5. QED
    BY <1>4

\* The constants, for the steps that need not know of the inputs.
LEMMA Bounds == MaxRuns \in Nat /\ MaxCalls \in Nat /\ MaxFreshness \in Nat \ {0}
  BY PublisherAssumption

LEMMA Nothing == /\ None \notin Calls /\ None \notin Ids /\ None \notin Vers
                 /\ None \notin Keys /\ None \notin Run /\ None \notin Conclusions
  BY PublisherAssumption

\* The newest of some runs is one of them.
LEMMA NewestIsOne ==
  ASSUME NEW T \in SUBSET Ids, T # {}
  PROVE  Newest(T) \in T /\ \A j \in T : j <= Newest(T)
  <1> DEFINE Distances == {MaxRuns - i : i \in T}
  <1>1. Distances \in SUBSET Nat /\ Distances # {}
    <2>1. \A i \in T : MaxRuns - i \in Nat
      BY Bounds DEF Ids
    <2>2. QED
      BY <2>1
  <1>2. PICK d \in Distances : \A e \in Distances : d <= e
    <2> HIDE DEF Distances
    <2>1. QED
      BY <1>1, LeastNumber
  <1>3. PICK i \in T : d = MaxRuns - i
    OBVIOUS
  <1>4. \A j \in T : j <= i
    BY <1>2, <1>3, Bounds DEF Ids
  <1>5. QED
    BY <1>4 DEF Newest

\* What is accepted names one commit: that of the key, and of the result.
LEMMA AcceptedNamesItsCommit ==
  ASSUME NEW in \in Inputs, Accepted(in)
  PROVE  RequestOf(in) \in Request /\ RequestOf(in).of = RequestOf(in).key
  <1>1. Conclusion(in.result.status) \in Conclusions
    BY DEF Accepted, Conclusion, Conclusions
  <1>2. Ordering(in.result) \in Vers
    BY PublisherAssumption DEF Ordering, Vers
  <1>3. <<in.repository, in.snapshot.sourceState>> \in Keys
    BY PublisherAssumption DEF Accepted, Identified, Keys
  <1>4. in.result.snapshotId = <<in.repository, in.snapshot.sourceState>>
    BY DEF Accepted, Identified
  <1>5. QED
    BY <1>1, <1>2, <1>3, <1>4 DEF RequestOf, Request

\* The entry evicted is one that stands.
LEMMA OldestStands ==
  ASSUME latest \in [Keys -> Vers \cup {None}], recency \in [Keys -> Nat],
         NEW k \in Keys, latest[k] # None
  PROVE  Oldest \in Keys /\ latest[Oldest] # None
  <1> DEFINE Ages == {recency[l] : l \in {m \in Keys : latest[m] # None}}
  <1>1. Ages \in SUBSET Nat /\ Ages # {}
    OBVIOUS
  <1>2. PICK a \in Ages : \A b \in Ages : a <= b
    <2> HIDE DEF Ages
    <2>1. QED
      BY <1>1, LeastNumber
  <1>3. PICK l \in Keys : latest[l] # None /\ recency[l] = a
    OBVIOUS
  <1>4. \A m \in Keys : latest[m] # None => recency[l] <= recency[m]
    BY <1>2, <1>3
  <1>5. QED
    BY <1>3, <1>4 DEF Oldest

\* Remembering a freshness changes the entry of its key and drops at most
\* one other: the bound of the map is kept.
LEMMA RememberKeepsTheBound ==
  ASSUME latest \in [Keys -> Vers \cup {None}], recency \in [Keys -> Nat],
         Cardinality({l \in Keys : latest[l] # None}) <= MaxFreshness,
         NEW k \in Keys, NEW ver \in Vers, Remember(k, ver)
  PROVE  /\ latest' \in [Keys -> Vers \cup {None}] /\ recency' \in [Keys -> Nat]
         /\ Cardinality({l \in Keys : latest'[l] # None}) <= MaxFreshness
         /\ latest'[k] = ver
         /\ \A l \in Keys : l # k => latest'[l] \in {latest[l], None}
  <1> DEFINE Known == {l \in Keys : latest[l] # None}
             full == latest[k] = None /\ Cardinality(Known) >= MaxFreshness
             kept == IF full THEN [latest EXCEPT ![Oldest] = None] ELSE latest
             Left == {l \in Keys : kept[l] # None}
  <1>1. latest' = [kept EXCEPT ![k] = ver]
    BY DEF Remember
  <1>2. IsFiniteSet(Keys)
    BY PublisherAssumption, FS_Product DEF Keys
  <1>3. recency' \in [Keys -> Nat]
    BY <1>2, FS_CardinalityType DEF Remember
  <1>4. IsFiniteSet(Known) /\ Cardinality(Known) \in 0..MaxFreshness
    BY <1>2, Bounds, FS_Subset, FS_CardinalityType
  <1>5. kept \in [Keys -> Vers \cup {None}]
    OBVIOUS
  <1>6. IsFiniteSet(Left) /\ Cardinality(Left) \in Nat
    BY <1>2, FS_Subset, FS_CardinalityType
  <1>7. {l \in Keys : latest'[l] # None} = Left \cup {k}
    BY <1>1, <1>5, Nothing
  <1>8. Cardinality(Left \cup {k}) <= MaxFreshness
    <2>1. CASE full
      <3>1. PICK l \in Keys : latest[l] # None
        <4>1. Known # {}
          BY <1>4, <2>1, FS_EmptySet, Bounds
        <4>2. QED
          BY <4>1
      <3>2. Oldest \in Known
        BY <3>1, OldestStands
      <3>3. Left = Known \ {Oldest}
        BY <2>1, <3>2
      <3>4. Cardinality(Left) = Cardinality(Known) - 1
        BY <1>4, <3>2, <3>3, FS_RemoveElement
      <3> HIDE DEF Known, Left, full
      <3>5. Cardinality(Left \cup {k}) \in {Cardinality(Left), Cardinality(Left) + 1}
        BY <1>6, FS_AddElement
      <3>6. QED
        BY <1>4, <1>6, <3>4, <3>5, Bounds
    <2>2. CASE ~full
      <3>1. Left = Known
        BY <2>2
      <3>2. Cardinality(Known \cup {k}) = IF k \in Known THEN Cardinality(Known) ELSE Cardinality(Known) + 1
        BY <1>4, FS_AddElement
      <3>3. k \in Known \/ Cardinality(Known) < MaxFreshness
        BY <1>4, <2>2, Bounds
      <3>4. QED
        BY <1>4, <3>1, <3>2, <3>3, Bounds
    <2>3. QED
      BY <2>1, <2>2
  <1>9. latest'[k] = ver /\ \A l \in Keys : l # k => latest'[l] \in {latest[l], None}
    BY <1>1, <1>5
  <1>10. QED
    BY <1>1, <1>3, <1>5, <1>7, <1>8, <1>9

-----------------------------------------------------------------------------
(***************************************************************************)
(* The chains.                                                             *)
(***************************************************************************)

\* What a step does to the calls and their chains.
Control == <<pc, req, after, tail>>
Joins(c, r) == r \in Request /\ r.of = r.key /\ ~Unsettled(c) /\ Enqueue(c, r)
Refuses(c) == /\ ~Unsettled(c)
              /\ pc' = [pc EXCEPT ![c] = "failed"] \/ pc' = [pc EXCEPT ![c] = "stale"]
              /\ UNCHANGED <<req, after, tail>>
Leaves(c) == Unsettled(c) /\ after[c] = None /\ \E o \in Settled : Settle(c, o)
Advances(c) == Unsettled(c) /\ after[c] = None /\ \E to \in Working : Moves(c, to)

\* Every step is one of these, or leaves the chains alone.
LEMMA ControlSteps ==
  ASSUME TypeOK, ChainInv, [Next]_vars
  PROVE  \/ \E c \in Calls, r \in Request : Joins(c, r)
         \/ \E c \in Calls : Refuses(c) \/ Leaves(c) \/ Advances(c)
         \/ Crash
         \/ UNCHANGED Control
  <1>1. ASSUME NEW c \in Calls, Publish(c)
        PROVE  (\E r \in Request : Joins(c, r)) \/ Refuses(c)
    <2>1. PICK in \in Inputs :
            IF Accepted(in)
            THEN Enqueue(c, RequestOf(in))
            ELSE /\ pc' = [pc EXCEPT ![c] = "failed"] \/ pc' = [pc EXCEPT ![c] = "stale"]
                 /\ UNCHANGED <<req, after, tail>>
      BY <1>1 DEF Publish, Refusal
    <2>2. ~Unsettled(c)
      BY <1>1 DEF Publish, Unsettled
    <2>3. CASE Accepted(in)
      BY <2>1, <2>2, <2>3, AcceptedNamesItsCommit DEF Joins
    <2>4. CASE ~Accepted(in)
      BY <2>1, <2>2, <2>4 DEF Refuses
    <2>5. QED
      BY <2>3, <2>4
  <1>2. ASSUME NEW c \in Calls, Work(c)
        PROVE  Leaves(c) \/ Advances(c)
    <2>1. Unsettled(c) /\ after[c] = None
      BY <1>2 DEF Work, Begin, List, WriteApplied, UpdateNotFound, WriteFails, Answer,
                  ChainInv, Unsettled, Waiting, Working
    <2>2. (\E o \in Settled : Settle(c, o)) \/ (\E to \in Working : Moves(c, to))
      BY <1>2 DEF Work, Begin, List, WriteApplied, UpdateNotFound, WriteFails, Answer,
                  Settled, Working
    <2>3. QED
      BY <2>1, <2>2 DEF Leaves, Advances
  <1>3. ASSUME \/ \E w \in givenUp : GivenUpLands(w)
               \/ \E i \in Ids : Vanishes(i)
               \/ UNCHANGED vars
        PROVE  UNCHANGED Control
    BY <1>3 DEF GivenUpLands, Vanishes, vars, memory, Control
  <1>4. QED
    BY <1>1, <1>2, <1>3 DEF Next

\* A call joins the chain of its key behind the last one, leaves it from its
\* head, whatever came of it, or dies with the process.
LEMMA ChainStep ==
  ASSUME TypeOK, ChainInv, [Next]_vars
  PROVE  ChainInv'
  <1> USE Nothing
  <1> USE DEF TypeOK, Unsettled, Heads, Waiting, Working
  <1>1. ASSUME NEW c \in Calls, NEW r \in Request, Joins(c, r) PROVE ChainInv'
    <2>1. /\ pc' = [pc EXCEPT ![c] = "queued"] /\ req' = [req EXCEPT ![c] = r]
          /\ after' = [after EXCEPT ![c] = tail[r.key]] /\ tail' = [tail EXCEPT ![r.key] = c]
          /\ ~Unsettled(c)
      BY <1>1 DEF Joins, Enqueue
    <2>2. r.key \in Keys
      BY DEF Request
    <2>3. \A d \in Calls : d # c => Unsettled(d)' = Unsettled(d) /\ req'[d] = req[d] /\ after'[d] = after[d]
      BY <2>1
    <2>4. Unsettled(c)' /\ req'[c] = r /\ after'[c] = tail[r.key]
      BY <2>1
    <2>5. QED
      BY <2>1, <2>2, <2>3, <2>4 DEF ChainInv
  <1>2. ASSUME NEW c \in Calls, Refuses(c) PROVE ChainInv'
    BY <1>2 DEF Refuses, ChainInv
  <1>3. ASSUME NEW c \in Calls, Leaves(c) PROVE ChainInv'
    BY <1>3 DEF Leaves, Settle, Settled, Released, ChainAfter, ChainInv
  <1>4. ASSUME NEW c \in Calls, Advances(c) PROVE ChainInv'
    BY <1>4 DEF Advances, Moves, ChainInv
  <1>5. CASE Crash
    BY <1>5 DEF Crash, ChainInv
  <1>6. CASE UNCHANGED Control
    BY <1>6 DEF Control, ChainInv
  <1>7. QED
    BY <1>1, <1>2, <1>3, <1>4, <1>5, <1>6, ControlSteps

-----------------------------------------------------------------------------
(***************************************************************************)
(* The runs.                                                               *)
(***************************************************************************)

RunTypes == /\ run \in [Ids -> Run \cup {None}] /\ nextId \in Nat
            /\ shown \in [Keys -> SUBSET Vers]

\* Nothing shown is forgotten, and what is aimed at stays an aim.
Lasting ==
    /\ \A k \in Keys : shown[k] \subseteq shown'[k]
    /\ \A i \in Ids, k \in Keys : Aims(i, k) => Aims(i, k)'

\* What GitHub shows of a key.
SameOn(k) == OwnRuns(k)' = OwnRuns(k) /\ Shown(k)' = Shown(k)

\* What a step may do to run i: nothing, an update by a publication of its
\* key, or its end.
Untouched(i) ==
    \/ run'[i] = run[i]
    \/ run[i].app = "own" /\ run'[i] = None
    \/ run[i].app = "own" /\ run[i].ver # None /\ run'[i].key = run[i].key

\* While the own runs of a key stay as they are, so does what it shows.
LEMMA SameRunsSameShown ==
  ASSUME RunTypes, NEW k \in Keys, OwnRuns(k)' = OwnRuns(k),
         \A i \in OwnRuns(k) : run'[i] = run[i]
  PROVE  SameOn(k)
  <1>1. CASE OwnRuns(k) = {}
    BY <1>1 DEF SameOn, Shown
  <1>2. CASE OwnRuns(k) # {}
    <2>1. OwnRuns(k) \in SUBSET Ids
      BY DEF OwnRuns
    <2>2. Newest(OwnRuns(k)) \in OwnRuns(k)
      BY <1>2, <2>1, NewestIsOne
    <2>3. Newest(OwnRuns(k))' = Newest(OwnRuns(k))
      BY DEF Newest
    <2>4. QED
      BY <2>2, <2>3 DEF SameOn, Shown
  <1>3. QED
    BY <1>1, <1>2

\* A write takes effect: on its key the newest run shows it, if that is the
\* one it was aimed at or it made a new one; elsewhere nothing changes.
LEMMA AppliedStep ==
  ASSUME RunTypes, RunsInv, NEW id \in Ids \cup {None}, NEW r \in Request, r.of = r.key,
         id # None => Aims(id, r.key),
         Applied(id, r)
  PROVE  /\ RunTypes' /\ RunsInv' /\ Lasting
         /\ r.ver \in shown'[r.key]
         /\ \A i \in Ids : run[i] # None => Untouched(i)
         /\ \A k \in Keys : k # r.key => SameOn(k)
         /\ (OwnRuns(r.key) # {} => id \in {None, Newest(OwnRuns(r.key))})
              => Shown(r.key)' = r.ver
  <1> USE Nothing
  <1>1. /\ r.key \in Keys /\ r.ver \in Vers /\ r.ver # None
        /\ Content(r) \in Run /\ Content(r) # None
        /\ Content(r).key = r.key /\ Content(r).app = "own" /\ Content(r).ver = r.ver
        /\ Content(r).of = r.key
    BY DEF Request, Content, Run
  <1>2. PICK i \in Ids :
          /\ run' = [run EXCEPT ![i] = Content(r)]
          /\ \/ id = None /\ i = nextId /\ nextId' = nextId + 1 /\ run[i] = None
             \/ id = i /\ run[i] # None /\ run[i].app = "own" /\ run[i].ver # None
                /\ run[i].key = r.key /\ nextId' = nextId
    <2>1. CASE id = None
      BY <2>1 DEF Applied, RunsInv, RunTypes
    <2>2. CASE id # None
      BY <2>2 DEF Applied, Aims
    <2>3. QED
      BY <2>1, <2>2
  <1>3. shown' = [shown EXCEPT ![r.key] = @ \cup {r.ver}]
    BY DEF Applied
  <1>4. i \in Nat /\ nextId' \in Nat /\ nextId' # 0 /\ nextId <= nextId' /\ i < nextId'
    BY <1>2, Bounds DEF RunTypes, RunsInv, Ids
  <1>5. RunTypes'
    BY <1>1, <1>2, <1>3, <1>4 DEF RunTypes
  <1>6. \A k \in Keys : shown[k] \subseteq shown'[k]
    BY <1>3 DEF RunTypes
  <1>7. r.ver \in shown'[r.key]
    BY <1>1, <1>3 DEF RunTypes
  <1>8. /\ run'[i] = Content(r)
        /\ \A j \in Ids : j # i => run'[j] = run[j]
    BY <1>2 DEF RunTypes
  <1>9. RunsInv'
    <2> SUFFICES ASSUME NEW j \in Ids, run'[j] # None
        PROVE  /\ j < nextId'
               /\ run'[j].of # None => run'[j].of = run'[j].key
               /\ run'[j].app = "own" /\ run'[j].ver # None => run'[j].ver \in shown'[run'[j].key]
      BY <1>4 DEF RunsInv
    <2>1. CASE j = i
      BY <1>1, <1>4, <1>7, <1>8, <2>1
    <2>2. CASE j # i
      <3>1. run'[j] = run[j] /\ run[j] # None /\ run[j].key \in Keys
        BY <1>8, <2>2 DEF RunTypes, Run
      <3>2. j < nextId'
        BY <1>4, <3>1, Bounds DEF RunsInv, RunTypes, Ids
      <3>3. QED
        BY <1>6, <3>1, <3>2 DEF RunsInv
    <2>3. QED
      BY <2>1, <2>2
  <1>10. ASSUME NEW j \in Ids, NEW k \in Keys, Aims(j, k) PROVE Aims(j, k)'
    <2>1. j < nextId'
      BY <1>4, <1>10, Bounds DEF Aims, RunTypes, Ids
    <2>2. run'[j] # None => run'[j].app = "own" /\ run'[j].ver # None /\ run'[j].key = k
      <3>1. CASE j = i
        <4>1. i # nextId
          BY <1>4, <1>10, <3>1 DEF Aims, RunTypes
        <4>2. QED
          BY <1>1, <1>2, <1>8, <1>10, <3>1, <4>1 DEF Aims
      <3>2. CASE j # i
        BY <1>8, <1>10, <3>2 DEF Aims
      <3>3. QED
        BY <3>1, <3>2
    <2>3. QED
      BY <2>1, <2>2 DEF Aims
  <1>11. ASSUME NEW j \in Ids, run[j] # None PROVE Untouched(j)
    BY <1>1, <1>2, <1>8, <1>11 DEF Untouched
  <1>12. ASSUME NEW k \in Keys, k # r.key PROVE SameOn(k)
    <2>1. OwnRuns(k)' = OwnRuns(k)
      BY <1>1, <1>2, <1>8, <1>12 DEF OwnRuns
    <2>2. i \notin OwnRuns(k)
      BY <1>2, <1>12 DEF OwnRuns
    <2>3. \A j \in OwnRuns(k) : run'[j] = run[j]
      BY <1>8, <2>2 DEF OwnRuns
    <2>4. QED
      BY <2>1, <2>3, SameRunsSameShown
  <1>13. ASSUME OwnRuns(r.key) # {} => id \in {None, Newest(OwnRuns(r.key))}
         PROVE  Shown(r.key)' = r.ver
    <2>1. OwnRuns(r.key)' = OwnRuns(r.key) \cup {i}
      BY <1>1, <1>2, <1>8 DEF OwnRuns
    <2>2. \A j \in OwnRuns(r.key) : j <= i
      <3>1. CASE id = None
        BY <1>2, <3>1, Bounds DEF OwnRuns, RunsInv, RunTypes, Ids
      <3>2. CASE id # None
        <4>1. i \in OwnRuns(r.key)
          BY <1>2, <3>2 DEF OwnRuns
        <4>2. i = Newest(OwnRuns(r.key))
          BY <1>2, <1>13, <3>2, <4>1
        <4>3. QED
          BY <4>1, <4>2, NewestIsOne DEF OwnRuns
      <3>3. QED
        BY <3>1, <3>2
    <2>3. OwnRuns(r.key)' \in SUBSET Ids
      BY DEF OwnRuns
    <2>4. Newest(OwnRuns(r.key)')
            \in OwnRuns(r.key)' /\ \A j \in OwnRuns(r.key)' : j <= Newest(OwnRuns(r.key)')
      BY <2>1, <2>3, NewestIsOne
    <2>5. Newest(OwnRuns(r.key)') = i
      BY <1>4, <2>1, <2>2, <2>3, <2>4, Bounds DEF Ids
    <2>6. Newest(OwnRuns(r.key))' = i
      BY <2>5 DEF Newest
    <2>7. QED
      BY <1>1, <1>8, <2>1, <2>6 DEF Shown
  <1>14. QED
    BY <1>5, <1>6, <1>7, <1>9, <1>10, <1>11, <1>12, <1>13 DEF Lasting

\* A run vanishes: its key alone shows something else.
LEMMA VanishesStep ==
  ASSUME RunTypes, RunsInv, NEW i \in Ids, Vanishes(i)
  PROVE  /\ RunTypes' /\ RunsInv' /\ Lasting
         /\ \A j \in Ids : run[j] # None => Untouched(j)
         /\ \A k \in Keys : k # run[i].key => SameOn(k)
  <1> USE Nothing
  <1>1. /\ run[i] # None /\ run[i].app = "own" /\ run' = [run EXCEPT ![i] = None]
        /\ nextId' = nextId /\ shown' = shown
    BY DEF Vanishes
  <1>2. run'[i] = None /\ \A j \in Ids : j # i => run'[j] = run[j]
    BY <1>1 DEF RunTypes
  <1>3. RunTypes' /\ RunsInv'
    BY <1>1, <1>2 DEF RunTypes, RunsInv
  <1>4. Lasting
    BY <1>1, <1>2 DEF Lasting, Aims
  <1>5. \A j \in Ids : run[j] # None => Untouched(j)
    BY <1>1, <1>2 DEF Untouched
  <1>6. ASSUME NEW k \in Keys, k # run[i].key PROVE SameOn(k)
    <2>1. OwnRuns(k)' = OwnRuns(k) /\ \A j \in OwnRuns(k) : run'[j] = run[j]
      BY <1>1, <1>2, <1>6 DEF OwnRuns
    <2>2. QED
      BY <2>1, SameRunsSameShown
  <1>7. QED
    BY <1>3, <1>4, <1>5, <1>6

\* What is at GitHub stays as it is.
LEMMA SameRunsStep ==
  ASSUME RunTypes, RunsInv, run' = run, nextId' = nextId, shown' = shown
  PROVE  /\ RunTypes' /\ RunsInv' /\ Lasting
         /\ \A i \in Ids : run[i] # None => Untouched(i)
         /\ \A k \in Keys : SameOn(k)
  <1>1. \A k \in Keys : OwnRuns(k)' = OwnRuns(k)
    BY DEF OwnRuns
  <1>2. \A k \in Keys : SameOn(k)
    BY <1>1, SameRunsSameShown
  <1>3. QED
    BY <1>2 DEF RunTypes, RunsInv, Lasting, Aims, Untouched

\* The two ways in which a write takes effect have the hypotheses of
\* AppliedStep.
LEMMA AppliedWrites ==
  ASSUME TypeOK, ChainInv, WritesInv
  PROVE  /\ \A c \in Calls : WriteApplied(c) =>
              /\ target[c] \in Ids \cup {None} /\ req[c] \in Request /\ req[c].of = req[c].key
              /\ target[c] # None => Aims(target[c], req[c].key)
         /\ \A w \in givenUp :
              /\ w.id \in Ids \cup {None} /\ w.req \in Request /\ w.req.of = w.req.key
              /\ w.id # None => Aims(w.id, w.req.key)
  BY DEF TypeOK, ChainInv, WritesInv, WriteApplied, Unsettled, Working, Write

LEMMA GitHubStep ==
  ASSUME IInv, [Next]_vars
  PROVE  /\ RunTypes' /\ RunsInv' /\ Lasting
         /\ \A i \in Ids : run[i] # None => Untouched(i)
  <1> USE DEF IInv
  <1>1. RunTypes
    BY DEF TypeOK, RunTypes
  <1>2. ASSUME NEW c \in Calls, WriteApplied(c)
        PROVE  RunTypes' /\ RunsInv' /\ Lasting /\ \A i \in Ids : run[i] # None => Untouched(i)
    <2>1. Applied(target[c], req[c])
      BY <1>2 DEF WriteApplied
    <2>2. QED
      BY <1>1, <1>2, <2>1, AppliedWrites, AppliedStep
  <1>3. ASSUME NEW w \in givenUp, GivenUpLands(w)
        PROVE  RunTypes' /\ RunsInv' /\ Lasting /\ \A i \in Ids : run[i] # None => Untouched(i)
    <2>1. Applied(w.id, w.req)
      BY <1>3 DEF GivenUpLands
    <2>2. QED
      BY <1>1, <2>1, AppliedWrites, AppliedStep
  <1>4. ASSUME NEW i \in Ids, Vanishes(i)
        PROVE  RunTypes' /\ RunsInv' /\ Lasting /\ \A j \in Ids : run[j] # None => Untouched(j)
    BY <1>1, <1>4, VanishesStep
  <1>5. ASSUME \/ \E c \in Calls : \/ Publish(c) \/ Begin(c) \/ List(c) \/ UpdateNotFound(c)
                                  \/ WriteFails(c) \/ Answer(c)
               \/ Crash
               \/ UNCHANGED vars
        PROVE  run' = run /\ nextId' = nextId /\ shown' = shown
    BY <1>5 DEF Publish, Begin, List, UpdateNotFound, WriteFails, Answer, Crash, vars, github
  <1>6. QED
    BY <1>1, <1>2, <1>3, <1>4, <1>5, SameRunsStep DEF Next, Work

-----------------------------------------------------------------------------
(***************************************************************************)
(* The invariant, part by part.                                            *)
(***************************************************************************)

\* A listing finds, among the own runs of the call's key, one of them.
LEMMA ListFindsAnOwnRun ==
  ASSUME TypeOK, ChainInv, RunsInv, NEW c \in Calls, pc[c] = "list", OwnRuns(req[c].key) # {}
  PROVE  LET found == Newest(OwnRuns(req[c].key))
         IN  /\ found \in Ids /\ found \in OwnRuns(req[c].key) /\ run[found] \in Run
             /\ run[found].ver # None => /\ run[found].ver \in shown[req[c].key]
                                         /\ Aims(found, req[c].key)
  <1> DEFINE own == OwnRuns(req[c].key)
  <1>1. own \in SUBSET Ids
    BY DEF OwnRuns
  <1>2. Newest(own) \in own
    BY <1>1, NewestIsOne
  <1>3. QED
    BY <1>1, <1>2, Nothing DEF OwnRuns, RunsInv, TypeOK, Aims

\* What a step does to one call: it goes on, is aimed at a run of its key,
\* is over, or joins.
LEMMA CallStep ==
  ASSUME TypeOK, ChainInv, RunsInv, [Next]_vars, NEW c \in Calls
  PROVE  \/ Unsettled(c)' /\ Unsettled(c) /\ req'[c] = req[c] /\ target'[c] \in {target[c], None}
         \/ /\ Unsettled(c)' /\ Unsettled(c) /\ req'[c] = req[c]
            /\ \E i \in Ids : Aims(i, req[c].key) /\ target'[c] = i
         \/ ~Unsettled(c)' /\ target'[c] \in {target[c], None} /\ (Unsettled(c) => target'[c] = None)
         \/ ~Unsettled(c) /\ target'[c] = target[c] /\ \E r \in Request : r.of = r.key /\ req'[c] = r
  <1> DEFINE Step ==
        \/ Unsettled(c)' /\ Unsettled(c) /\ req'[c] = req[c] /\ target'[c] \in {target[c], None}
        \/ /\ Unsettled(c)' /\ Unsettled(c) /\ req'[c] = req[c]
           /\ \E i \in Ids : Aims(i, req[c].key) /\ target'[c] = i
        \/ ~Unsettled(c)' /\ target'[c] \in {target[c], None} /\ (Unsettled(c) => target'[c] = None)
        \/ ~Unsettled(c) /\ target'[c] = target[c] /\ \E r \in Request : r.of = r.key /\ req'[c] = r
  <1> USE DEF Unsettled, Waiting, Working
  <1>1. /\ pc \in [Calls -> {"idle"} \cup Waiting \cup Working \cup Settled]
        /\ req \in [Calls -> Request \cup {None}] /\ target \in [Calls -> Ids \cup {None}]
    BY DEF TypeOK
  <1>2. ASSUME NEW d \in Calls, Publish(d) PROVE Step
    <2>1. PICK in \in Inputs :
            IF Accepted(in)
            THEN Enqueue(d, RequestOf(in))
            ELSE /\ pc' = [pc EXCEPT ![d] = "failed"] \/ pc' = [pc EXCEPT ![d] = "stale"]
                 /\ UNCHANGED <<req, after, tail>>
      BY <1>2 DEF Publish, Refusal
    <2>2. pc[d] \notin Waiting \cup Working /\ target' = target
      BY <1>2 DEF Publish
    <2>3. CASE Accepted(in)
      <3>1. pc' = [pc EXCEPT ![d] = "queued"] /\ req' = [req EXCEPT ![d] = RequestOf(in)]
        BY <2>1, <2>3 DEF Enqueue
      <3>2. RequestOf(in) \in Request /\ RequestOf(in).of = RequestOf(in).key
        BY <2>3, AcceptedNamesItsCommit
      <3> HIDE DEF RequestOf, Accepted
      <3>3. QED
        BY <1>1, <2>2, <3>1, <3>2
    <2>4. CASE ~Accepted(in)
      BY <1>1, <2>1, <2>2, <2>4
    <2>5. QED
      BY <2>3, <2>4
  <1>3. ASSUME NEW d \in Calls, NEW o \in Settled, Unsettled(d), Settle(d, o) PROVE Step
    BY <1>1, <1>3 DEF Settle, Settled
  <1>4. ASSUME NEW d \in Calls, NEW to \in Working, Unsettled(d), Moves(d, to),
               target' \in {target, [target EXCEPT ![d] = None]}
        PROVE  Step
    BY <1>1, <1>4 DEF Moves
  <1>5. ASSUME NEW d \in Calls, List(d) PROVE Step
    <2>1. CASE Settle(d, "failed") \/ Settle(d, "stale")
      BY <1>3, <1>5, <2>1 DEF List, Settled
    <2>2. CASE Moves(d, "write") /\ UNCHANGED target
      BY <1>4, <1>5, <2>2 DEF List
    <2>3. CASE /\ OwnRuns(req[d].key) # {} /\ Updatable(d, Newest(OwnRuns(req[d].key)))
               /\ target' = [target EXCEPT ![d] = Newest(OwnRuns(req[d].key))]
               /\ Moves(d, "write")
      <3>1. pc[d] = "list"
        BY <1>5 DEF List
      <3>2. \E i \in Ids : i = Newest(OwnRuns(req[d].key)) /\ Aims(i, req[d].key)
        BY <2>3, <3>1, ListFindsAnOwnRun DEF Updatable
      <3>3. QED
        BY <1>1, <2>3, <3>1, <3>2 DEF Moves
    <2>4. QED
      BY <1>5, <2>1, <2>2, <2>3 DEF List
  <1>6. ASSUME NEW d \in Calls, Work(d) PROVE Step
    <2>1. CASE Begin(d)
      BY <1>3, <1>4, <2>1 DEF Begin, Settled
    <2>2. CASE WriteApplied(d) \/ UpdateNotFound(d)
      BY <1>4, <2>2 DEF WriteApplied, UpdateNotFound
    <2>3. CASE WriteFails(d) \/ Answer(d)
      BY <1>3, <2>3 DEF WriteFails, Answer, Settled
    <2>4. QED
      BY <1>5, <1>6, <2>1, <2>2, <2>3 DEF Work
  <1>7. CASE Crash
    BY <1>1, <1>7 DEF Crash
  <1>8. ASSUME \/ \E w \in givenUp : GivenUpLands(w)
               \/ \E i \in Ids : Vanishes(i)
               \/ UNCHANGED vars
        PROVE  Step
    BY <1>1, <1>8 DEF GivenUpLands, Vanishes, vars
  <1>9. QED
    BY <1>2, <1>6, <1>7, <1>8 DEF Next

LEMMA WritesStep ==
  ASSUME IInv, [Next]_vars
  PROVE  WritesInv'
  <1> USE Nothing DEF IInv
  <1>1. \A i \in Ids, k \in Keys : Aims(i, k) => Aims(i, k)'
    BY GitHubStep DEF Lasting
  <1>2. \A c \in Calls : Unsettled(c) => req[c].key \in Keys
    BY DEF ChainInv, Request
  <1>3. \A c \in Calls : target[c] # None => target[c] \in Ids
    BY DEF TypeOK
  <1>4. \A w \in givenUp : w.id \in Ids \cup {None} /\ w.req.key \in Keys
    BY DEF TypeOK, Write, Request
  <1>5. ASSUME NEW w \in givenUp'
        PROVE  /\ w.req.of = w.req.key
               /\ w.id # None => Aims(w.id, w.req.key)'
    <2>1. \/ w \in givenUp
          \/ \E c \in Calls : pc[c] = "write" /\ w = [id |-> target[c], req |-> req[c]]
      BY DEF Next, Publish, Work, Begin, List, WriteApplied, UpdateNotFound, WriteFails,
             Answer, Crash, Abandoned, GivenUpLands, Vanishes, vars, github
    <2>2. CASE w \in givenUp
      <3>1. w.req.of = w.req.key /\ (w.id # None => Aims(w.id, w.req.key))
        BY <2>2 DEF WritesInv
      <3>2. QED
        BY <1>1, <1>4, <2>2, <3>1
    <2>3. ASSUME NEW c \in Calls, pc[c] = "write", w = [id |-> target[c], req |-> req[c]]
          PROVE  w.req.of = w.req.key /\ (w.id # None => Aims(w.id, w.req.key)')
      <3>1. Unsettled(c)
        BY <2>3 DEF Unsettled, Working
      <3>2. w.id = target[c] /\ w.req = req[c]
        BY <2>3
      <3>3. w.req.of = w.req.key /\ (w.id # None => Aims(w.id, w.req.key))
        BY <3>1, <3>2 DEF WritesInv
      <3>4. QED
        BY <1>1, <1>2, <1>3, <3>1, <3>2, <3>3
    <2>4. QED
      BY <2>1, <2>2, <2>3
  <1>6. ASSUME NEW c \in Calls
        PROVE  /\ Unsettled(c)' => req'[c].of = req'[c].key
               /\ target'[c] # None => Unsettled(c)' /\ Aims(target[c], req[c].key)'
    <2>1. ASSUME Unsettled(c), Unsettled(c)', req'[c] = req[c],
                 NEW i \in Ids, Aims(i, req[c].key), target'[c] = i
          PROVE  /\ req'[c].of = req'[c].key
                 /\ Aims(target[c], req[c].key)'
      <3>1. PICK k \in Keys : k = req[c].key
        BY <1>2, <2>1
      <3>2. Aims(i, k)'
        BY <1>1, <2>1, <3>1
      <3>3. QED
        BY <2>1, <3>1, <3>2 DEF WritesInv, Aims
    <2>2. CASE /\ Unsettled(c)' /\ Unsettled(c) /\ req'[c] = req[c]
               /\ target'[c] \in {target[c], None}
      BY <1>3, <2>1, <2>2 DEF WritesInv
    <2>3. QED
      BY <2>1, <2>2, CallStep DEF WritesInv
  <1>7. QED
    BY <1>5, <1>6 DEF WritesInv

LEMMA MemoryStep ==
  ASSUME IInv, [Next]_vars
  PROVE  MemoryInv'
  <1> USE Nothing DEF IInv
  <1>1. \A k \in Keys : shown[k] \subseteq shown'[k]
    BY GitHubStep DEF Lasting
  <1>2. \A c \in Calls : pc[c] \in Working => req[c] \in Request /\ req[c].key \in Keys
    BY DEF ChainInv, Unsettled, Request
  <1>3. ASSUME NEW k \in Keys, latest'[k] # None PROVE latest'[k] \in shown'[k]
    <2>1. CASE latest'[k] = latest[k]
      BY <1>1, <1>3, <2>1 DEF MemoryInv
    <2>2. ASSUME NEW c \in Calls, pc[c] = "answer", Remember(req[c].key, req[c].ver)
          PROVE  latest'[k] \in shown'[k]
      <3>1. req[c].key \in Keys /\ req[c].ver \in Vers
        BY <1>2, <2>2 DEF Working, Request
      <3>2. /\ latest'[req[c].key] = req[c].ver
            /\ \A l \in Keys : l # req[c].key => latest'[l] \in {latest[l], None}
        BY <2>2, <3>1, RememberKeepsTheBound DEF TypeOK
      <3>3. req[c].ver \in shown[req[c].key]
        BY <2>2 DEF MemoryInv
      <3>4. QED
        BY <1>1, <1>3, <2>1, <3>2, <3>3
    <2>3. CASE latest' = [l \in Keys |-> None]
      BY <1>3, <2>3
    <2>4. QED
      BY <2>1, <2>2, <2>3
         DEF Next, Publish, Work, Begin, List, WriteApplied, UpdateNotFound, WriteFails,
             Answer, Crash, GivenUpLands, Vanishes, vars, memory, remembered
  <1>4. ASSUME NEW c \in Calls, pc'[c] = "answer" PROVE req'[c].ver \in shown'[req'[c].key]
    <2>1. CASE pc[c] = "answer" /\ req'[c] = req[c]
      BY <1>1, <1>2, <2>1 DEF MemoryInv, Working
    <2>2. CASE WriteApplied(c)
      <3>1. req'[c] = req[c] /\ req[c] \in Request /\ req[c].key \in Keys
        BY <1>2, <2>2 DEF WriteApplied, Moves, Working
      <3>2. shown' = [shown EXCEPT ![req[c].key] = @ \cup {req[c].ver}]
        BY <2>2 DEF WriteApplied, Applied
      <3>3. QED
        BY <3>1, <3>2 DEF TypeOK
    <2>3. pc \in [Calls -> {"idle"} \cup Waiting \cup Working \cup Settled] /\ req \in [Calls -> Request \cup {None}]
      BY DEF TypeOK
    <2>4. ASSUME NEW d \in Calls, Publish(d) PROVE pc[c] = "answer" /\ req'[c] = req[c]
      BY <1>4, <2>3, <2>4 DEF Publish, Enqueue, Refusal, Waiting, Working
    <2>5. ASSUME NEW d \in Calls, NEW o \in Settled, Settle(d, o) PROVE pc[c] = "answer" /\ req'[c] = req[c]
      BY <1>4, <2>3, <2>5 DEF Settle, Settled
    <2>6. ASSUME NEW d \in Calls, NEW to \in Working, Moves(d, to), to # "answer" \/ d # c
          PROVE  pc[c] = "answer" /\ req'[c] = req[c]
      BY <1>4, <2>3, <2>6 DEF Moves
    <2>7. ASSUME NEW d \in Calls, Work(d) PROVE WriteApplied(c) \/ (pc[c] = "answer" /\ req'[c] = req[c])
      <3>1. \/ \E o \in Settled : Settle(d, o)
            \/ Moves(d, "list") \/ Moves(d, "write")
            \/ Moves(d, "answer") /\ WriteApplied(d)
        BY <2>7 DEF Work, Begin, List, WriteApplied, UpdateNotFound, WriteFails, Answer, Settled
      <3>2. QED
        BY <2>5, <2>6, <3>1 DEF Working
    <2>8. QED
      BY <1>4, <2>1, <2>2, <2>3, <2>4, <2>7
         DEF Next, Crash, GivenUpLands, Vanishes, vars, Waiting, Working
  <1>5. QED
    BY <1>3, <1>4 DEF MemoryInv

\* One call works on a key at a time.
LEMMA OneWorks ==
  ASSUME ChainInv, NEW c \in Calls, NEW d \in Calls,
         pc[c] \in Working, pc[d] \in Working, req[c].key = req[d].key
  PROVE  c = d
  <1>1. c \in Heads(req[c].key) /\ d \in Heads(req[c].key)
    BY DEF ChainInv, Heads, Unsettled
  <1>2. req[c].key \in Keys
    BY DEF ChainInv, Unsettled, Request
  <1>3. QED
    BY <1>1, <1>2 DEF ChainInv

\* A call about to write that is not disturbed was just told by a listing, or
\* was about to write before, while its key stayed as it is.
LEMMA AboutToWrite ==
  ASSUME IInv, [Next]_vars, NEW c \in Calls, pc'[c] = "write", c \notin disturbed'
  PROVE  \/ /\ pc[c] = "list" /\ req'[c] = req[c] /\ SameOn(req[c].key)
            /\ \/ OwnRuns(req[c].key) = {}
               \/ /\ Updatable(c, Newest(OwnRuns(req[c].key)))
                  /\ target'[c] = Newest(OwnRuns(req[c].key))
         \/ /\ pc[c] = "write" /\ c \notin disturbed /\ req'[c] = req[c] /\ SameOn(req[c].key)
            /\ target'[c] \in {target[c], None}
  <1> DEFINE Told ==
        \/ /\ pc[c] = "list" /\ req'[c] = req[c] /\ SameOn(req[c].key)
           /\ \/ OwnRuns(req[c].key) = {}
              \/ /\ Updatable(c, Newest(OwnRuns(req[c].key)))
                 /\ target'[c] = Newest(OwnRuns(req[c].key))
        \/ /\ pc[c] = "write" /\ c \notin disturbed /\ req'[c] = req[c] /\ SameOn(req[c].key)
           /\ target'[c] \in {target[c], None}
  <1> USE DEF IInv
  <1>1. /\ pc \in [Calls -> {"idle"} \cup Waiting \cup Working \cup Settled]
        /\ req \in [Calls -> Request \cup {None}] /\ target \in [Calls -> Ids \cup {None}]
        /\ RunTypes
    BY DEF TypeOK, RunTypes
  <1>2. pc[c] \in Working => req[c].key \in Keys
    BY DEF ChainInv, Unsettled, Request
  <1>3. ASSUME pc[c] = "write", c \notin disturbed, req'[c] = req[c], SameOn(req[c].key),
               target'[c] \in {target[c], None}
        PROVE  Told
    BY <1>3
  <1>4. ASSUME run' = run, nextId' = nextId, shown' = shown, pc[c] \in Working
        PROVE  SameOn(req[c].key)
    BY <1>1, <1>2, <1>4, SameRunsStep
  <1>5. ASSUME NEW d \in Calls, List(d) PROVE Told
    <2>1. run' = run /\ nextId' = nextId /\ shown' = shown /\ pc[d] = "list"
      BY <1>5 DEF List, github
    <2>2. CASE d = c
      <3>1. req'[c] = req[c] /\ SameOn(req[c].key)
        BY <1>4, <1>5, <2>1, <2>2, <1>1 DEF List, Working, Settle, Moves
      <3>2. QED
        BY <1>1, <1>5, <2>1, <2>2, <3>1 DEF List, Settle, Moves
    <2>3. CASE d # c
      <3>1. /\ pc[c] = "write" /\ c \notin disturbed /\ req'[c] = req[c] /\ target'[c] = target[c]
        BY <1>1, <1>5, <2>3 DEF List, Settle, Moves
      <3>2. QED
        BY <1>3, <1>4, <2>1, <3>1 DEF Working
    <2>4. QED
      BY <2>2, <2>3
  <1>6. ASSUME NEW d \in Calls, WriteApplied(d) PROVE Told
    <2>1. d # c /\ pc[c] = "write" /\ pc[d] = "write" /\ c \notin disturbed
          /\ req'[c] = req[c] /\ target'[c] = target[c]
      BY <1>1, <1>6 DEF WriteApplied, Moves
    <2>2. req[c].key # req[d].key /\ req[c].key \in Keys
      BY <1>2, <2>1, OneWorks DEF Working
    <2>3. Applied(target[d], req[d])
      BY <1>6 DEF WriteApplied
    <2>4. SameOn(req[c].key)
      BY <1>1, <1>6, <2>2, <2>3, AppliedWrites, AppliedStep
    <2>5. QED
      BY <1>3, <2>1, <2>4
  <1>7. ASSUME NEW w \in givenUp, GivenUpLands(w) PROVE Told
    <2>1. /\ pc[c] = "write" /\ c \notin disturbed /\ req'[c] = req[c] /\ target'[c] = target[c]
          /\ req[c].key # w.req.key
      BY <1>7 DEF GivenUpLands, Disturbs
    <2>2. Applied(w.id, w.req)
      BY <1>7 DEF GivenUpLands
    <2>3. SameOn(req[c].key)
      BY <1>1, <1>2, <2>1, <2>2, AppliedWrites, AppliedStep DEF Working
    <2>4. QED
      BY <1>3, <2>1, <2>3
  <1>8. ASSUME NEW i \in Ids, Vanishes(i) PROVE Told
    <2>1. /\ pc[c] = "write" /\ c \notin disturbed /\ req'[c] = req[c] /\ target'[c] = target[c]
          /\ req[c].key # run[i].key
      BY <1>8 DEF Vanishes, Disturbs
    <2>2. SameOn(req[c].key)
      BY <1>1, <1>2, <1>8, <2>1, VanishesStep DEF Working
    <2>3. QED
      BY <1>3, <2>1, <2>2
  <1>9. ASSUME \/ \E d \in Calls : \/ Publish(d) \/ Begin(d) \/ UpdateNotFound(d)
                                  \/ WriteFails(d) \/ Answer(d)
               \/ Crash
               \/ UNCHANGED vars
        PROVE  Told
    <2>1. run' = run /\ nextId' = nextId /\ shown' = shown
      BY <1>9 DEF Publish, Begin, UpdateNotFound, WriteFails, Answer, Crash, vars, github
    <2>2. /\ pc[c] = "write" /\ c \notin disturbed /\ req'[c] = req[c]
          /\ target'[c] \in {target[c], None}
      BY <1>1, <1>9 DEF Publish, Enqueue, Refusal, Begin, UpdateNotFound, WriteFails, Answer, Crash, vars,
                  Settle, Moves, Waiting, Working
    <2>3. QED
      BY <1>3, <1>4, <2>1, <2>2 DEF Working
  <1>10. QED
    BY <1>5, <1>6, <1>7, <1>8, <1>9 DEF Next, Work

LEMMA ListedStep ==
  ASSUME IInv, [Next]_vars
  PROVE  ListedInv'
  <1> SUFFICES ASSUME NEW c \in Calls, NEW k \in Keys,
                      pc'[c] = "write", c \notin disturbed', req'[c].key = k, OwnRuns(k)' # {}
      PROVE  /\ Shown(k)' # None /\ ~Older(req'[c].ver, Shown(k)')
             /\ target'[c] \in {None, Newest(OwnRuns(k)')}
    BY DEF ListedInv, Newest, Older
  <1>1. CASE /\ pc[c] = "list" /\ req'[c] = req[c] /\ SameOn(req[c].key)
             /\ \/ OwnRuns(req[c].key) = {}
                \/ /\ Updatable(c, Newest(OwnRuns(req[c].key)))
                   /\ target'[c] = Newest(OwnRuns(req[c].key))
    <2>1. req[c].key = k /\ OwnRuns(k)' = OwnRuns(k) /\ Shown(k)' = Shown(k)
      BY <1>1 DEF SameOn
    <2>2. Updatable(c, Newest(OwnRuns(k))) /\ target'[c] = Newest(OwnRuns(k))
      BY <1>1, <2>1
    <2>3. Shown(k) = run[Newest(OwnRuns(k))].ver
      BY <2>1 DEF Shown
    <2>4. QED
      BY <1>1, <2>1, <2>2, <2>3 DEF Updatable
  <1>2. CASE /\ pc[c] = "write" /\ c \notin disturbed /\ req'[c] = req[c] /\ SameOn(req[c].key)
             /\ target'[c] \in {target[c], None}
    <2>1. req[c].key = k /\ OwnRuns(k)' = OwnRuns(k) /\ Shown(k)' = Shown(k)
      BY <1>2 DEF SameOn
    <2>2. QED
      BY <1>2, <2>1 DEF IInv, ListedInv
  <1>3. QED
    BY <1>1, <1>2, AboutToWrite

-----------------------------------------------------------------------------
(***************************************************************************)
(* The types.                                                              *)
(***************************************************************************)

LEMMA AbandonedTypes ==
  ASSUME TypeOK, ChainInv, NEW cs, cs \subseteq {c \in Calls : pc[c] = "write"}, Abandoned(cs)
  PROVE  givenUp' \subseteq Write
  BY DEF Abandoned, TypeOK, ChainInv, Unsettled, Working, Write

LEMMA SettleTypes ==
  ASSUME TypeOK, NEW c \in Calls, NEW o \in Settled, Settle(c, o)
  PROVE  /\ calls' \in 0..MaxCalls /\ crashes' \in Nat
         /\ pc' \in [Calls -> {"idle"} \cup Waiting \cup Working \cup Settled]
         /\ req' \in [Calls -> Request \cup {None}]
         /\ after' \in [Calls -> Calls \cup {None}]
         /\ target' \in [Calls -> Ids \cup {None}]
         /\ tail' \in [Keys -> Calls \cup {None}]
         /\ disturbed' \subseteq Calls
  BY DEF TypeOK, Settle, Released, ChainAfter

LEMMA MovesTypes ==
  ASSUME TypeOK, NEW c \in Calls, NEW to \in Working, Moves(c, to)
  PROVE  /\ calls' \in 0..MaxCalls /\ crashes' \in Nat
         /\ pc' \in [Calls -> {"idle"} \cup Waiting \cup Working \cup Settled]
         /\ req' \in [Calls -> Request \cup {None}]
         /\ after' \in [Calls -> Calls \cup {None}]
         /\ tail' \in [Keys -> Calls \cup {None}]
  BY DEF TypeOK, Moves

LEMMA TypeStep ==
  ASSUME IInv, [Next]_vars
  PROVE  TypeOK'
  <1> USE Nothing DEF IInv
  <1>0. /\ run' \in [Ids -> Run \cup {None}] /\ nextId' \in Nat /\ shown' \in [Keys -> SUBSET Vers]
    BY GitHubStep DEF RunTypes
  <1> DEFINE Remembered == /\ latest' \in [Keys -> Vers \cup {None}] /\ recency' \in [Keys -> Nat]
                           /\ Cardinality({k \in Keys : latest'[k] # None}) <= MaxFreshness
  <1>1. ASSUME UNCHANGED remembered PROVE Remembered
    BY <1>1 DEF remembered, TypeOK
  <1>2. ASSUME NEW c \in Calls, Publish(c) PROVE TypeOK'
    <2>1. PICK in \in Inputs :
            IF Accepted(in)
            THEN Enqueue(c, RequestOf(in))
            ELSE /\ pc' = [pc EXCEPT ![c] = "failed"] \/ pc' = [pc EXCEPT ![c] = "stale"]
                 /\ UNCHANGED <<req, after, tail>>
      BY <1>2 DEF Publish, Refusal
    <2>2. calls' \in 0..MaxCalls
      BY <1>2, Bounds DEF Publish, TypeOK
    <2>3. Accepted(in) => RequestOf(in) \in Request /\ RequestOf(in).key \in Keys
      BY AcceptedNamesItsCommit DEF Request
    <2> HIDE DEF Accepted, RequestOf
    <2>4. /\ pc' \in [Calls -> {"idle"} \cup Waiting \cup Working \cup Settled]
          /\ req' \in [Calls -> Request \cup {None}]
          /\ after' \in [Calls -> Calls \cup {None}]
          /\ tail' \in [Keys -> Calls \cup {None}]
      BY <2>1, <2>3 DEF Enqueue, TypeOK, Waiting, Settled
    <2>5. Remembered
      BY <1>1, <1>2 DEF Publish
    <2>6. QED
      BY <1>0, <1>2, <2>2, <2>4, <2>5 DEF Publish, TypeOK, github
  <1>3. ASSUME NEW c \in Calls, Begin(c) \/ List(c) PROVE TypeOK'
    <2>1. Remembered /\ UNCHANGED givenUp
      BY <1>1, <1>3 DEF Begin, List, github
    <2>2. CASE Settle(c, "stale") \/ Settle(c, "failed")
      BY <1>0, <2>1, <2>2, SettleTypes DEF Settled, TypeOK
    <2>3. CASE /\ Moves(c, "list") \/ Moves(c, "write")
               /\ target' \in [Calls -> Ids \cup {None}] /\ UNCHANGED disturbed
      BY <1>0, <2>1, <2>3, MovesTypes DEF Working, TypeOK
    <2>4. CASE /\ pc[c] = "list" /\ OwnRuns(req[c].key) # {} /\ Moves(c, "write")
               /\ target' = [target EXCEPT ![c] = Newest(OwnRuns(req[c].key))]
               /\ UNCHANGED disturbed
      <3>1. Newest(OwnRuns(req[c].key)) \in Ids
        BY <2>4, ListFindsAnOwnRun
      <3>2. QED
        BY <2>3, <2>4, <3>1 DEF TypeOK
    <2>5. target \in [Calls -> Ids \cup {None}]
      BY DEF TypeOK
    <2>6. QED
      BY <1>3, <2>2, <2>3, <2>4, <2>5 DEF Begin, List
  <1>4. ASSUME NEW c \in Calls, WriteApplied(c) \/ UpdateNotFound(c) PROVE TypeOK'
    <2>1. Remembered /\ UNCHANGED givenUp
      BY <1>1, <1>4 DEF WriteApplied, UpdateNotFound, github
    <2>2. target' \in [Calls -> Ids \cup {None}] /\ disturbed' \subseteq Calls
      BY <1>4 DEF WriteApplied, UpdateNotFound, TypeOK
    <2>3. QED
      BY <1>0, <1>4, <2>1, <2>2, MovesTypes DEF WriteApplied, UpdateNotFound, Working, TypeOK
  <1>5. ASSUME NEW c \in Calls, WriteFails(c) PROVE TypeOK'
    <2>1. Remembered
      BY <1>1, <1>5 DEF WriteFails
    <2>2. givenUp' \subseteq Write
      BY <1>5, AbandonedTypes DEF WriteFails
    <2>3. QED
      BY <1>0, <1>5, <2>1, <2>2, SettleTypes DEF WriteFails, Settled, TypeOK
  <1>6. ASSUME NEW c \in Calls, Answer(c) PROVE TypeOK'
    <2>1. UNCHANGED givenUp
      BY <1>6 DEF Answer, github
    <2>2. Remembered
      <3>1. req[c].key \in Keys /\ req[c].ver \in Vers
        BY <1>6 DEF Answer, ChainInv, Unsettled, Working, Request
      <3>2. CASE Remember(req[c].key, req[c].ver)
        BY <3>1, <3>2, RememberKeepsTheBound DEF TypeOK
      <3>3. QED
        BY <1>1, <1>6, <3>2 DEF Answer
    <2>3. QED
      BY <1>0, <1>6, <2>1, <2>2, SettleTypes DEF Answer, Settled, TypeOK
  <1>7. CASE Crash
    <2>1. givenUp' \subseteq Write
      BY <1>7, AbandonedTypes DEF Crash
    <2>2. Remembered
      <3>1. latest' = [k \in Keys |-> None] /\ recency' = [k \in Keys |-> 0]
        BY <1>7 DEF Crash
      <3>2. {k \in Keys : latest'[k] # None} = {}
        BY <3>1
      <3>3. QED
        BY <3>1, <3>2, FS_EmptySet, Bounds
    <2>3. QED
      BY <1>0, <1>7, <2>1, <2>2 DEF Crash, TypeOK, Settled
  <1>8. ASSUME NEW w \in givenUp, GivenUpLands(w) PROVE TypeOK'
    BY <1>0, <1>1, <1>8 DEF GivenUpLands, Disturbs, memory, TypeOK
  <1>9. ASSUME NEW i \in Ids, Vanishes(i) PROVE TypeOK'
    BY <1>0, <1>1, <1>9 DEF Vanishes, Disturbs, memory, TypeOK
  <1>10. CASE UNCHANGED vars
    BY <1>10 DEF vars, memory, remembered, github, TypeOK
  <1>11. QED
    BY <1>2, <1>3, <1>4, <1>5, <1>6, <1>7, <1>8, <1>9, <1>10 DEF Next, Work

-----------------------------------------------------------------------------
(***************************************************************************)
(* Theorems.                                                               *)
(***************************************************************************)

LEMMA InitInv == Init => IInv
  <1> SUFFICES ASSUME Init PROVE IInv
    OBVIOUS
  <1> USE Nothing
  <1>1. PICK first \in {None} \cup Preexisting :
          /\ run = [i \in Ids |-> IF i = 1 THEN first ELSE None]
          /\ nextId = IF first = None THEN 1 ELSE 2
    BY DEF Init
  <1>2. first # None => /\ first \in Run /\ first.of = None
                        /\ first.app = "own" => first.ver = None
    BY <1>1, PublisherAssumption DEF Preexisting, Run, Conclusions
  <1>3. {k \in Keys : latest[k] # None} = {}
    BY DEF Init
  <1>4. Cardinality({k \in Keys : latest[k] # None}) <= MaxFreshness
    BY <1>3, FS_EmptySet, Bounds
  <1>5. nextId \in Nat /\ run \in [Ids -> Run \cup {None}]
    BY <1>1, <1>2
  <1>6. TypeOK
    BY <1>4, <1>5, Bounds DEF Init, TypeOK
  <1>7. RunsInv
    BY <1>1, <1>2 DEF RunsInv
  <1>8. ChainInv /\ WritesInv /\ MemoryInv /\ ListedInv
    BY DEF Init, ChainInv, WritesInv, MemoryInv, ListedInv, Unsettled, Heads, Waiting, Working
  <1>9. QED
    BY <1>6, <1>7, <1>8 DEF IInv

(***************************************************************************)
(* What holds along every behaviour, for any number of calls, commits,     *)
(* runs, crashes and abandoned requests: one publication works on a commit *)
(* at a time, every write aims at a run of its own commit, and what a      *)
(* listing told holds until the write or is known to be disturbed          *)
(* (runSerialized and the work it serializes, github-checks.ts:955-1068).  *)
(***************************************************************************)
THEOREM InductiveInvariant == Spec => []IInv
  <1>1. IInv /\ [Next]_vars => IInv'
    <2> SUFFICES ASSUME IInv, [Next]_vars PROVE IInv'
      OBVIOUS
    <2>1. TypeOK /\ ChainInv
      BY DEF IInv
    <2>2. QED
      BY <2>1, TypeStep, ChainStep, WritesStep, GitHubStep, MemoryStep, ListedStep DEF IInv
  <1>2. QED
    BY InitInv, <1>1, PTL DEF Spec

(***************************************************************************)
(* The types, the bound of the freshness map, and that no result stands on *)
(* a commit it was not computed for (the identity checks before any        *)
(* network access, github-checks.ts:903-949), through retries, crashes and *)
(* late writes.                                                            *)
(***************************************************************************)
THEOREM ShownOnItsCommit == Spec => []Inv
  <1>1. IInv => Inv
    BY DEF IInv, RunsInv, Inv, ShownIsOfItsCommit
  <1>2. QED
    BY <1>1, InductiveInvariant, PTL

(***************************************************************************)
(* The verdict shown for a commit gives way to an older one only when      *)
(* GitHub changed behind the publisher's back: an abandoned write landed,  *)
(* a run vanished, or the call was disturbed since its listing             *)
(* (github-checks.ts:46-49).                                               *)
(***************************************************************************)
THEOREM VerdictsNeverRegress == Spec => NeverRegresses
  <1>1. IInv /\ [Next]_vars =>
          [\A k \in Keys : Shown(k) # None /\ Shown(k)' # None /\ Older(Shown(k)', Shown(k)) =>
             \/ \E w \in givenUp : w \notin givenUp'
             \/ \E i \in Ids : run[i] # None /\ run'[i] = None
             \/ \E c \in disturbed : pc'[c] = "answer"]_vars
    <2> SUFFICES ASSUME IInv, [Next]_vars, NEW k \in Keys,
                        Shown(k) # None, Shown(k)' # None, Older(Shown(k)', Shown(k))
        PROVE  \/ \E w \in givenUp : w \notin givenUp'
               \/ \E i \in Ids : run[i] # None /\ run'[i] = None
               \/ \E c \in disturbed : pc'[c] = "answer"
      OBVIOUS
    <2> USE Nothing DEF IInv
    <2>1. RunTypes
      BY DEF TypeOK, RunTypes
    <2>2. OwnRuns(k) # {} /\ Shown(k) \in Vers
      <3>1. OwnRuns(k) # {} /\ Shown(k) = run[Newest(OwnRuns(k))].ver
        BY DEF Shown
      <3>2. OwnRuns(k) \in SUBSET Ids
        BY DEF OwnRuns
      <3>3. Newest(OwnRuns(k)) \in OwnRuns(k)
        BY <3>1, <3>2, NewestIsOne
      <3>4. QED
        BY <2>1, <3>1, <3>3 DEF OwnRuns, RunTypes, Run
    <2>3. ~SameOn(k)
      BY <2>2 DEF SameOn, Older, Vers
    <2>4. ASSUME NEW c \in Calls, WriteApplied(c), c \notin disturbed PROVE FALSE
      <3>1. Applied(target[c], req[c]) /\ pc[c] = "write"
        BY <2>4 DEF WriteApplied
      <3>2. req[c].key = k
        BY <2>1, <2>3, <2>4, <3>1, AppliedWrites, AppliedStep
      <3>3. ~Older(req[c].ver, Shown(k)) /\ target[c] \in {None, Newest(OwnRuns(k))}
        BY <2>2, <2>4, <3>1, <3>2 DEF ListedInv
      <3>4. Shown(k)' = req[c].ver
        BY <2>1, <2>4, <3>1, <3>2, <3>3, AppliedWrites, AppliedStep
      <3>5. QED
        BY <3>3, <3>4
    <2>5. ASSUME NEW c \in Calls, WriteApplied(c) PROVE pc'[c] = "answer"
      BY <2>5 DEF WriteApplied, Moves, TypeOK
    <2>6. ASSUME NEW w \in givenUp, GivenUpLands(w) PROVE w \notin givenUp'
      BY <2>6 DEF GivenUpLands
    <2>7. ASSUME NEW i \in Ids, Vanishes(i) PROVE run[i] # None /\ run'[i] = None
      BY <2>1, <2>7 DEF Vanishes, RunTypes
    <2>8. CASE run' = run /\ nextId' = nextId /\ shown' = shown
      BY <2>1, <2>3, <2>8, SameRunsStep
    <2>9. QED
      BY <2>4, <2>5, <2>6, <2>7, <2>8
         DEF Next, Work, Publish, Begin, List, UpdateNotFound, WriteFails, Answer, Crash,
             vars, github
  <1>2. QED
    BY <1>1, InductiveInvariant, PTL DEF Spec, NeverRegresses

(***************************************************************************)
(* A result that its identity and the expected commit admitted is refused  *)
(* as stale only when a newer one of its commit was shown before: neither  *)
(* a failure nor another App's run makes it stale (the local fast path and *)
(* the marker comparison, github-checks.ts:960-996).  The refusal of       *)
(* another commit than the expected one (923-930) comes before.            *)
(***************************************************************************)
THEOREM StaleWasSuperseded == Spec => StaleIsSuperseded
  <1>1. IInv /\ [Next]_vars =>
          [\A c \in Calls : pc[c] \in Waiting \cup Working /\ pc'[c] = "stale" =>
             \E v \in shown[req[c].key] : Older(req[c].ver, v)]_vars
    <2> SUFFICES ASSUME IInv, [Next]_vars,
                        NEW c \in Calls, pc[c] \in Waiting \cup Working, pc'[c] = "stale"
        PROVE  \E v \in shown[req[c].key] : Older(req[c].ver, v)
      OBVIOUS
    <2> USE DEF IInv
    <2>1. /\ pc \in [Calls -> {"idle"} \cup Waiting \cup Working \cup Settled]
          /\ pc[c] # "stale"
      BY DEF TypeOK, Waiting, Working
    <2>2. CASE Begin(c)
      <3>1. latest[req[c].key] # None /\ Older(req[c].ver, latest[req[c].key])
        BY <2>1, <2>2 DEF Begin, Moves
      <3>2. req[c].key \in Keys
        BY <2>2 DEF Begin, ChainInv, Unsettled, Waiting, Request
      <3>3. QED
        BY <3>1, <3>2 DEF MemoryInv
    <2>3. CASE List(c)
      <3>1. pc[c] = "list" /\ OwnRuns(req[c].key) # {}
            /\ ~Updatable(c, Newest(OwnRuns(req[c].key)))
            /\ run[Newest(OwnRuns(req[c].key))].ver # None
        BY <2>1, <2>3 DEF List, Settle, Moves
      <3>2. QED
        BY <3>1, ListFindsAnOwnRun DEF Updatable
    <2>4. Begin(c) \/ List(c)
      <3>1. ASSUME NEW d \in Calls, Publish(d) PROVE d # c /\ pc'[c] = pc[c]
        BY <2>1, <3>1 DEF Publish, Enqueue
      <3>2. ASSUME NEW d \in Calls, Work(d) PROVE d = c /\ (Begin(d) \/ List(d))
        BY <2>1, <3>2 DEF Work, Begin, List, WriteApplied, UpdateNotFound, WriteFails, Answer,
                          Settle, Moves
      <3>3. QED
        BY <2>1, <3>1, <3>2 DEF Next, Crash, GivenUpLands, Vanishes, vars
    <2>5. QED
      BY <2>2, <2>3, <2>4
  <1>2. QED
    BY <1>1, InductiveInvariant, PTL DEF Spec, StaleIsSuperseded

(***************************************************************************)
(* A publication waits for the answer of its write only with its verdict   *)
(* on top of the commit's own runs (the update, and the creation that      *)
(* follows a 404, github-checks.ts:1002-1042); only a run that an          *)
(* abandoned write created since the listing can hide it.                  *)
(***************************************************************************)
THEOREM WritesAreShown == Spec => WrittenIsShown
  <1>1. IInv /\ [Next]_vars =>
          [\A c \in Calls, k \in Keys :
             pc[c] = "write" /\ pc'[c] = "answer" /\ req[c].key = k =>
                 \/ Shown(k)' = req[c].ver
                 \/ /\ c \in disturbed /\ target[c] # None
                    /\ \E i \in OwnRuns(k) : i > target[c]]_vars
    <2> SUFFICES ASSUME IInv, [Next]_vars, NEW c \in Calls, NEW k \in Keys,
                        pc[c] = "write", pc'[c] = "answer", req[c].key = k
        PROVE  \/ Shown(k)' = req[c].ver
               \/ /\ c \in disturbed /\ target[c] # None
                  /\ \E i \in OwnRuns(k) : i > target[c]
      OBVIOUS
    <2> USE Nothing DEF IInv
    <2>1. /\ pc \in [Calls -> {"idle"} \cup Waiting \cup Working \cup Settled]
          /\ RunTypes
      BY DEF TypeOK, RunTypes
    <2>2. WriteApplied(c)
      <3>1. ASSUME NEW d \in Calls, Publish(d) PROVE FALSE
        BY <2>1, <3>1 DEF Publish, Enqueue, Refusal, Waiting, Working
      <3>2. ASSUME NEW d \in Calls, Work(d) PROVE d = c /\ WriteApplied(d)
        BY <2>1, <3>2 DEF Work, Begin, List, WriteApplied, UpdateNotFound, WriteFails, Answer,
                          Settle, Moves
      <3>3. QED
        BY <2>1, <3>1, <3>2 DEF Next, Crash, GivenUpLands, Vanishes, vars, Waiting, Working
    <2> DEFINE own == OwnRuns(k)
    <2>3. /\ Applied(target[c], req[c])
          /\ target[c] \in Ids \cup {None} /\ req[c] \in Request /\ req[c].of = req[c].key
          /\ target[c] # None => Aims(target[c], k)
      BY <2>2, AppliedWrites DEF WriteApplied
    <2>4. CASE own # {} => target[c] \in {None, Newest(own)}
      BY <2>1, <2>3, <2>4, AppliedStep
    <2>5. CASE own # {} /\ target[c] \notin {None, Newest(own)}
      <3>1. own \in SUBSET Ids
        BY DEF OwnRuns
      <3>2. target[c] \in own
        BY <2>3, <2>5 DEF Applied, Aims, OwnRuns
      <3>3. Newest(own) \in own /\ Newest(own) > target[c]
        BY <2>5, <3>1, <3>2, NewestIsOne, Bounds DEF Ids
      <3>4. c \in disturbed
        BY <2>5 DEF ListedInv
      <3>5. QED
        BY <2>5, <3>3, <3>4
    <2>6. QED
      BY <2>4, <2>5
  <1>2. QED
    BY <1>1, InductiveInvariant, PTL DEF Spec, WrittenIsShown

(***************************************************************************)
(* No publication touches a run of another App, or one without a readable  *)
(* marker, or moves a run to another commit (isVerifyAgentOwnedRun and     *)
(* findExistingCheckRun, github-checks.ts:798-834).                        *)
(***************************************************************************)
THEOREM OthersStay == Spec => OthersUntouched
  <1>1. IInv /\ [Next]_vars =>
          [\A i \in Ids : run[i] # None =>
             \/ run'[i] = run[i]
             \/ run[i].app = "own" /\ run'[i] = None
             \/ run[i].app = "own" /\ run[i].ver # None /\ run'[i].key = run[i].key]_vars
    BY GitHubStep DEF Untouched
  <1>2. QED
    BY <1>1, InductiveInvariant, PTL DEF Spec, OthersUntouched
=============================================================================
