--------------------------- MODULE ResultRegistry ---------------------------
(***************************************************************************)
(* The verification result registries of apps/worker/src/                  *)
(* result-registry.ts: the bounded in-memory registry with its three       *)
(* indexes, and the file registry that keeps a list of entries beside it   *)
(* and rewrites one file after every store.                                *)
(*                                                                         *)
(* Three identities meet here: a queue job's, a verification's and the     *)
(* native job's that the verification records.  A result is its            *)
(* verification and native job identities; its other content is immutable  *)
(* and no branch depends on it.                                            *)
(*                                                                         *)
(* The names every specification has carry the prefix Registry, so that    *)
(* one module of proofs can extend this one beside others.                 *)
(*                                                                         *)
(* A definition marked "Faulty" takes no part in the specification: it is  *)
(* a plausible mistake in the operator after it, with which one of the     *)
(* properties must fail.                                                   *)
(***************************************************************************)
EXTENDS Naturals, Sequences, FiniteSets

CONSTANTS
    QueueJobs,    \* queue job identities
    Ids,          \* verification identities
    NativeJobs,   \* native job identities
    NoId,         \* not an identity
    MaxResults    \* options.maxResults

ASSUME RegistryAssumption ==
    /\ NoId \notin Ids
    /\ NoId \notin NativeJobs
    /\ MaxResults \in Nat \ {0}

VARIABLES
    order,    \* keys of byVerificationId in insertion order
    nativeOf, \* native job of each result in byVerificationId, NoId outside it
    byJob,    \* verificationIdByJobId
    byQueue,  \* verificationIdByQueueJobId
    entries,  \* the file registry's list
    file,     \* the entries of the file on disk
    synced    \* the last store also persisted

memory == <<order, nativeOf, byJob, byQueue>>
registryVars == <<memory, entries, file, synced>>

Entry == [queue : QueueJobs, id : Ids, native : NativeJobs]

RegistryTypeOK ==
    /\ order \in Seq(Ids)
    /\ nativeOf \in [Ids -> NativeJobs \cup {NoId}]
    /\ byJob \in [NativeJobs -> Ids \cup {NoId}]
    /\ byQueue \in [QueueJobs -> Ids \cup {NoId}]
    /\ entries \in Seq(Entry)
    /\ file \in Seq(Entry)
    /\ synced \in BOOLEAN

\* The indexes of the in-memory registry as one value.
Memory == [order |-> order, nativeOf |-> nativeOf, byJob |-> byJob,
           byQueue |-> byQueue]

EmptyMemory ==
    [order |-> <<>>,
     nativeOf |-> [v \in Ids |-> NoId],
     byJob |-> [n \in NativeJobs |-> NoId],
     byQueue |-> [q \in QueueJobs |-> NoId]]

RegistryInit ==
    /\ order = <<>>
    /\ nativeOf = EmptyMemory.nativeOf
    /\ byJob = EmptyMemory.byJob
    /\ byQueue = EmptyMemory.byQueue
    /\ entries = <<>>
    /\ file = <<>>
    /\ synced = TRUE

-----------------------------------------------------------------------------
(***************************************************************************)
(* The in-memory registry.                                                 *)
(***************************************************************************)

Retained(m) == {v \in Ids : m.nativeOf[v] # NoId}

\* The preflight checks of store: either identity belongs to another result.
Conflict(m, e) ==
    \/ m.byJob[e.native] \notin {NoId, e.id}
    \/ m.byQueue[e.queue] \notin {NoId, e.id}

Cleared(index, v) == [k \in DOMAIN index |-> IF index[k] = v THEN NoId ELSE index[k]]

\* Faulty: the queue identities of a replaced or evicted result are kept.
ClearJobMapping(m, v) == [m EXCEPT !.byJob = Cleared(m.byJob, v)]

\* clearSecondaryMappings
ClearMappings(m, v) ==
    [m EXCEPT !.byJob = Cleared(m.byJob, v), !.byQueue = Cleared(m.byQueue, v)]

\* Set the primary entry (a Map keeps the place of a key it has) and its two
\* secondary mappings.
Insert(m, e) ==
    LET c == ClearMappings(m, e.id)
    IN [c EXCEPT !.order = IF e.id \in Retained(m) THEN m.order
                           ELSE Append(m.order, e.id),
                 !.nativeOf[e.id] = e.native,
                 !.byJob[e.native] = e.id,
                 !.byQueue[e.queue] = e.id]

\* evictOldest
EvictOldest(m) ==
    LET oldest == Head(m.order)
    IN ClearMappings([m EXCEPT !.order = Tail(m.order),
                               !.nativeOf[oldest] = NoId], oldest)

\* A successful store: insert, then evict beyond maxResults (a store adds at
\* most one result, so at most one is evicted).
Stored(m, e) ==
    LET i == Insert(m, e)
    IN IF Len(i.order) > MaxResults THEN EvictOldest(i) ELSE i

SetMemory(m) ==
    /\ order' = m.order
    /\ nativeOf' = m.nativeOf
    /\ byJob' = m.byJob
    /\ byQueue' = m.byQueue

-----------------------------------------------------------------------------
(***************************************************************************)
(* The file registry.                                                      *)
(***************************************************************************)

\* The increasing enumeration of a set of positions.
Increasing(I) ==
    CHOOSE p \in [1..Cardinality(I) -> I] :
        \A a, b \in 1..Cardinality(I) : a < b => p[a] < p[b]

\* filter: the elements of s at the positions I, in their order.
Only(s, I) == [k \in 1..Cardinality(I) |-> s[Increasing(I)[k]]]

\* The entry list after a store: the new entry last, the oldest shifted out.
Listed(es, e) ==
    LET others == {i \in 1..Len(es) : es[i].queue # e.queue /\ es[i].id # e.id}
        pushed == Append(Only(es, others), e)
    IN IF Len(pushed) > MaxResults THEN Tail(pushed) ELSE pushed

\* Faulty: the list is written as it is.
SnapshotOfList(m, es) == IF m.order = <<>> THEN <<>> ELSE es

\* persist: the entries whose queue job still has a result in memory, each
\* with the result memory holds.
Snapshot(m, es) ==
    LET live == Only(es, {i \in 1..Len(es) : m.byQueue[es[i].queue] # NoId})
    IN [i \in 1..Len(live) |->
           LET v == m.byQueue[live[i].queue]
           IN [queue |-> live[i].queue, id |-> v, native |-> m.nativeOf[v]]]

\* store of the file registry; the write of the new file may fail after the
\* memory and the entry list changed.
Store(e) ==
    /\ ~Conflict(Memory, e)
    /\ LET m == Stored(Memory, e)
           es == Listed(entries, e)
       IN /\ SetMemory(m)
          /\ entries' = es
          /\ \/ file' = Snapshot(m, es) /\ synced' = TRUE
             \/ file' = file /\ synced' = FALSE

\* A conflicting store throws before any change.
StoreRejected(e) ==
    /\ Conflict(Memory, e)
    /\ UNCHANGED registryVars

\* clear() of the file registry; its write may fail as well.
Clear ==
    /\ SetMemory(EmptyMemory)
    /\ entries' = <<>>
    /\ \/ file' = <<>> /\ synced' = TRUE
       \/ file' = file /\ synced' = FALSE

\* Loaded(es)[n]: memory after storing the first n entries, skipping conflicts.
Loaded(es) ==
    LET load[n \in 0..Len(es)] ==
            IF n = 0 THEN EmptyMemory
            ELSE IF Conflict(load[n - 1], es[n]) THEN load[n - 1]
            ELSE Stored(load[n - 1], es[n])
    IN load[Len(es)]

\* The process ends and a new registry reads the file.
Reload ==
    /\ SetMemory(Loaded(file))
    /\ entries' = file
    /\ file' = file
    /\ synced' = TRUE

RegistryNext ==
    \/ \E e \in Entry : Store(e) \/ StoreRejected(e)
    \/ Clear
    \/ Reload

RegistrySpec == RegistryInit /\ [][RegistryNext]_registryVars

-----------------------------------------------------------------------------
(***************************************************************************)
(* Properties.                                                             *)
(***************************************************************************)

\* The three indexes describe the same results.
IndexesAgree ==
    /\ \A n \in NativeJobs : byJob[n] # NoId => nativeOf[byJob[n]] = n
    /\ \A v \in Ids : nativeOf[v] # NoId =>
           /\ byJob[nativeOf[v]] = v
           /\ Cardinality({q \in QueueJobs : byQueue[q] = v}) = 1
    /\ \A q \in QueueJobs : byQueue[q] # NoId => nativeOf[byQueue[q]] # NoId

\* Retention stays bounded and its order lists each retained result once.
RetentionBounded ==
    /\ Len(order) <= MaxResults
    /\ {order[i] : i \in 1..Len(order)} = Retained(Memory)
    /\ Cardinality(Retained(Memory)) = Len(order)

(***************************************************************************)
(* Through stores, replacements, evictions, failed writes and restarts,    *)
(* every retained result is found under its own native job and under       *)
(* exactly one queue job, no mapping leads to a result that was evicted    *)
(* (result-registry.ts lines 77-84), and the order in which results are    *)
(* evicted lists each of them once and never more than maxResults.         *)
(***************************************************************************)
RegistryInv == RegistryTypeOK /\ IndexesAgree /\ RetentionBounded

(***************************************************************************)
(* A file written after a store holds only results that are retained, as   *)
(* they are retained: a restart never brings back an evicted or replaced   *)
(* result.                                                                 *)
(***************************************************************************)
FileIsRetained ==
    synced => \A i \in 1..Len(file) :
                 /\ byQueue[file[i].queue] = file[i].id
                 /\ nativeOf[file[i].id] = file[i].native

=============================================================================
